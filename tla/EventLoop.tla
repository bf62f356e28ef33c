------------------------------ MODULE EventLoop ------------------------------
(***************************************************************************)
(* net::EventLoop with its Epoller and its wakeup EventFd: the loop itself *)
(* (startLoop, doPendingTasks) and the calls other code makes on it        *)
(* (queueInLoop, runInLoop, quitLoop, addChannel, removeChannel), from the *)
(* threads that own a loop and from threads that own none.                 *)
(*                                                                         *)
(* A loop l also names the thread that constructed it, the only one whose  *)
(* thread_local tCurrentLoop is l.  A loop thread executes user code while *)
(* it is outside startLoop or inside a callback; callback[l] is the task   *)
(* or the channel handler it is in.  Every callback terminates, and what   *)
(* it does besides calling the loop is abstracted.                         *)
(*                                                                         *)
(* A callback may throw, and poll may.  While the stack of a loop thread   *)
(* unwinds, destructors run, which may make the same calls; then the       *)
(* exception is caught inside the callback, or it leaves startLoop.  No    *)
(* code in src/ catches one around startLoop, so a loop that an exception  *)
(* left is not started again: it stays "failed".                           *)
(*                                                                         *)
(* The eventfd's 64-bit count is abstracted to whether it is positive,     *)
(* which is all epoll reports and all handleRead needs.  A failed          *)
(* assertion terminates the process: a step that would fail one is not     *)
(* taken, so its behaviour ends there.                                     *)
(***************************************************************************)
EXTENDS Naturals, Sequences

CONSTANTS Loops,    \* the event loops, each with the thread that owns it
          Users,    \* the threads that own no loop
          Tasks,    \* the callbacks; each is handed to a loop at most once
          Channels, \* the channels other than the loops' wakeup channels
          Wakeup,   \* the wakeup channel in a list of active channels
          None      \* no thread, no callback, no loop, no task

Threads == Loops \cup Users

ASSUME ThreadsAssumption ==
    /\ Loops \cap Users = {}
    /\ None \notin Threads
    /\ None \notin Tasks \cup Channels
    /\ Tasks \cap Channels = {}
    /\ Wakeup \notin Channels

VARIABLES
    loopPc,         \* where each loop thread is in startLoop
    mIsExit,
    mIsLoopingNow,
    mPendingTasks,
    mMutex,         \* the thread holding the mutex of mPendingTasks, or None
    wakeupFd,       \* is the count of mpWakeupFd positive
    mChannelSet,    \* Epoller's channels, without the wakeup channel
    active,         \* activeChannels: what poll returned and is not dispatched yet
    pendingTasks,   \* the local vector doPendingTasks swapped out
    callback,       \* the task or channel whose code the loop thread is in
    call,           \* the call each thread is in the middle of
    removing,       \* <<loop, channel>> between removeChannel's two assertions, or <<>>
    unwinding,      \* is std::uncaught_exceptions() > 0 in the loop's thread
    unwoundIn,      \* history: the callback in whose unwinding a loop lost a channel
    submitted,      \* history: the tasks handed to a loop so far
    ran             \* history: the executions of each task

loopVars == <<loopPc, mIsExit, mIsLoopingNow, mMutex, wakeupFd, mChannelSet, active, callback, call,
              removing, unwinding, unwoundIn>>
removeVars == <<removing, unwinding, unwoundIn>>
taskVars == <<mPendingTasks, pendingTasks, submitted, ran>>
vars == <<loopPc, mIsExit, mIsLoopingNow, mPendingTasks, mMutex, wakeupFd, mChannelSet,
          active, pendingTasks, callback, call, removing, unwinding, unwoundIn, submitted, ran>>

LoopPc == {"stopped", "check", "poll", "dispatch", "swap", "run", "failed"}
CallAt == {"idle", "wakeup", "wait", "quitWakeup"}
NoCall == [at |-> "idle", loop |-> None, task |-> None]
Execution == [loop : Loops, by : Loops]

TypeOK ==
    /\ loopPc \in [Loops -> LoopPc]
    /\ mIsExit \in [Loops -> BOOLEAN]
    /\ mIsLoopingNow \in [Loops -> BOOLEAN]
    /\ mPendingTasks \in [Loops -> Seq(Tasks)]
    /\ mMutex \in [Loops -> Threads \cup {None}]
    /\ wakeupFd \in [Loops -> BOOLEAN]
    /\ mChannelSet \in [Loops -> SUBSET Channels]
    /\ active \in [Loops -> SUBSET (Channels \cup {Wakeup})]
    /\ pendingTasks \in [Loops -> Seq(Tasks)]
    /\ callback \in [Loops -> Tasks \cup Channels \cup {None}]
    /\ call \in [Threads -> [at : CallAt, loop : Loops \cup {None}, task : Tasks \cup {None}]]
    /\ removing \in [Loops -> (Loops \X Channels) \cup {<<>>}]
    /\ unwinding \in [Loops -> BOOLEAN]
    /\ unwoundIn \in [Loops -> [Channels -> Tasks \cup Channels \cup {None}]]
    /\ submitted \in SUBSET Tasks
    /\ ran \in [Tasks -> Seq(Execution)]

(* After the constructors: the wakeup channel is registered and enabled,   *)
(* mIsExit is true until startLoop.                                        *)
Init ==
    /\ loopPc = [l \in Loops |-> "stopped"]
    /\ mIsExit = [l \in Loops |-> TRUE]
    /\ mIsLoopingNow = [l \in Loops |-> FALSE]
    /\ mPendingTasks = [l \in Loops |-> <<>>]
    /\ mMutex = [l \in Loops |-> None]
    /\ wakeupFd = [l \in Loops |-> FALSE]
    /\ mChannelSet = [l \in Loops |-> {}]
    /\ active = [l \in Loops |-> {}]
    /\ pendingTasks = [l \in Loops |-> <<>>]
    /\ callback = [l \in Loops |-> None]
    /\ call = [t \in Threads |-> NoCall]
    /\ removing = [l \in Loops |-> <<>>]
    /\ unwinding = [l \in Loops |-> FALSE]
    /\ unwoundIn = [l \in Loops |-> [c \in Channels |-> None]]
    /\ submitted = {}
    /\ ran = [x \in Tasks |-> <<>>]
-----------------------------------------------------------------------------
(***************************************************************************)
(* The calls.                                                              *)
(***************************************************************************)

(* isInLoopThread: tCurrentLoop is set, to whichever loop.                 *)
isInLoopThread(t) == t \in Loops

(* Is the thread in user code, free to make a call?                        *)
InUserCode(t) ==
    /\ call[t] = NoCall
    /\ t \in Loops => /\ removing[t] = <<>>
                      /\ loopPc[t] \in {"stopped", "failed"} \/ callback[t] # None

(* queueInLoop up to its wakeup: lock the mutex and append the task.  A    *)
(* task "awaited" comes from runInLoop, which then waits for its future.   *)
Enqueue(t, l, x, awaited) ==
    /\ InUserCode(t)
    /\ x \notin submitted
    /\ mMutex[l] = None
    /\ mMutex' = [mMutex EXCEPT ![l] = t]
    /\ mPendingTasks' = [mPendingTasks EXCEPT ![l] = Append(@, x)]
    /\ submitted' = submitted \cup {x}
    /\ call' = [call EXCEPT ![t] = [at |-> "wakeup", loop |-> l,
                                    task |-> IF awaited THEN x ELSE None]]
    /\ UNCHANGED <<loopPc, mIsExit, mIsLoopingNow, wakeupFd, mChannelSet, active,
                   pendingTasks, callback, removeVars, ran>>

queueInLoop(t, l, x) == Enqueue(t, l, x, FALSE)

(* Mutant: wake the loop up only if it looks as if it were polling.        *)
WakeupIfLooping(t) ==
    LET l == call[t].loop IN
    /\ call[t].at = "wakeup"
    /\ wakeupFd' = [wakeupFd EXCEPT ![l] = @ \/ mIsLoopingNow[l]]
    /\ mMutex' = [mMutex EXCEPT ![l] = None]
    /\ call' = [call EXCEPT ![t] = IF @.task = None THEN NoCall ELSE [@ EXCEPT !.at = "wait"]]
    /\ UNCHANGED <<loopPc, mIsExit, mIsLoopingNow, mChannelSet, active, callback>>
    /\ UNCHANGED <<taskVars, removeVars>>

(* wakeup() and the release of the lock_guard, which end queueInLoop.      *)
WakeupAndUnlock(t) ==
    LET l == call[t].loop IN
    /\ call[t].at = "wakeup"
    /\ wakeupFd' = [wakeupFd EXCEPT ![l] = TRUE]
    /\ mMutex' = [mMutex EXCEPT ![l] = None]
    /\ call' = [call EXCEPT ![t] = IF @.task = None THEN NoCall ELSE [@ EXCEPT !.at = "wait"]]
    /\ UNCHANGED <<loopPc, mIsExit, mIsLoopingNow, mChannelSet, active, callback>>
    /\ UNCHANGED <<taskVars, removeVars>>

(* In a thread that owns a loop, whichever one, the callback runs here and *)
(* now; what it does next are further steps of the code around it.         *)
RunInPlace(t, l, x) ==
    /\ isInLoopThread(t)
    /\ InUserCode(t)
    /\ x \notin submitted
    /\ submitted' = submitted \cup {x}
    /\ ran' = [ran EXCEPT ![x] = Append(@, [loop |-> l, by |-> t])]
    /\ UNCHANGED <<mPendingTasks, pendingTasks>>
    /\ UNCHANGED loopVars

runInLoop(t, l, x) ==
    \/ RunInPlace(t, l, x)
    \/ ~isInLoopThread(t) /\ Enqueue(t, l, x, TRUE)

Completed(x) == ran[x] # <<>> /\ \A l \in Loops : callback[l] # x

(* fu.wait() returns.                                                      *)
FutureReady(t) ==
    /\ call[t].at = "wait"
    /\ Completed(call[t].task)
    /\ call' = [call EXCEPT ![t] = NoCall]
    /\ UNCHANGED <<loopPc, mIsExit, mIsLoopingNow, mMutex, wakeupFd, mChannelSet, active, callback>>
    /\ UNCHANGED <<taskVars, removeVars>>

(* Mutant: quitLoop never wakes the loop up.                               *)
QuitSilently(t, l) ==
    /\ InUserCode(t)
    /\ mIsExit' = [mIsExit EXCEPT ![l] = TRUE]
    /\ UNCHANGED <<loopPc, mIsLoopingNow, mMutex, wakeupFd, mChannelSet, active, callback, call>>
    /\ UNCHANGED <<taskVars, removeVars>>

quitLoop(t, l) ==
    /\ InUserCode(t)
    /\ mIsExit' = [mIsExit EXCEPT ![l] = TRUE]
    /\ call' = IF isInLoopThread(t)
               THEN call
               ELSE [call EXCEPT ![t] = [at |-> "quitWakeup", loop |-> l, task |-> None]]
    /\ UNCHANGED <<loopPc, mIsLoopingNow, mMutex, wakeupFd, mChannelSet, active, callback>>
    /\ UNCHANGED <<taskVars, removeVars>>

QuitWakeup(t) ==
    /\ call[t].at = "quitWakeup"
    /\ wakeupFd' = [wakeupFd EXCEPT ![call[t].loop] = TRUE]
    /\ call' = [call EXCEPT ![t] = NoCall]
    /\ UNCHANGED <<loopPc, mIsExit, mIsLoopingNow, mMutex, mChannelSet, active, callback>>
    /\ UNCHANGED <<taskVars, removeVars>>

(* addChannel and removeChannel.  Their assertion of the thread passes in  *)
(* the thread of any loop; Epoller's maps have no lock, and what a race on *)
(* the maps themselves does is left out.                                   *)
addChannel(t, l, c) ==
    /\ InUserCode(t)
    /\ isInLoopThread(t)
    /\ \A m \in Loops : c \notin mChannelSet[m]
    /\ mChannelSet' = [mChannelSet EXCEPT ![l] = @ \cup {c}]
    /\ unwoundIn' = [unwoundIn EXCEPT ![l][c] = None]
    /\ UNCHANGED <<loopPc, mIsExit, mIsLoopingNow, mMutex, wakeupFd, active, callback, call,
                   removing, unwinding>>
    /\ UNCHANGED taskVars

(* Mutant: removeChannel without its assertion.                            *)
RemoveAnytime(t, l, c) ==
    /\ InUserCode(t)
    /\ isInLoopThread(t)
    /\ c \in mChannelSet[l]
    /\ removing' = [removing EXCEPT ![t] = <<l, c>>]
    /\ UNCHANGED <<loopPc, mIsExit, mIsLoopingNow, mMutex, wakeupFd, mChannelSet, active, callback,
                   call, unwinding, unwoundIn>>
    /\ UNCHANGED taskVars

(* A channel of a loop is removed while no list of active channels is      *)
(* dispatched there, or in the unwinding of an exception ...               *)
removeChannel(t, l, c) ==
    /\ InUserCode(t)
    /\ isInLoopThread(t)
    /\ mIsLoopingNow[l] = FALSE \/ unwinding[t]
    /\ c \in mChannelSet[l]
    /\ removing' = [removing EXCEPT ![t] = <<l, c>>]
    /\ UNCHANGED <<loopPc, mIsExit, mIsLoopingNow, mMutex, wakeupFd, mChannelSet, active, callback,
                   call, unwinding, unwoundIn>>
    /\ UNCHANGED taskVars

(* ... by Epoller, whose own assertion fails if another thread was faster. *)
EraseChannel(t) ==
    /\ removing[t] # <<>>
    /\ LET l == removing[t][1]
           c == removing[t][2]
       IN  /\ c \in mChannelSet[l]
           /\ mChannelSet' = [mChannelSet EXCEPT ![l] = @ \ {c}]
           /\ unwoundIn' = [unwoundIn EXCEPT ![l][c] = IF unwinding[t] THEN callback[t] ELSE None]
    /\ removing' = [removing EXCEPT ![t] = <<>>]
    /\ UNCHANGED <<loopPc, mIsExit, mIsLoopingNow, mMutex, wakeupFd, active, callback, call,
                   unwinding>>
    /\ UNCHANGED taskVars
-----------------------------------------------------------------------------
(***************************************************************************)
(* The loop.                                                               *)
(***************************************************************************)
startLoop(l) ==
    /\ loopPc[l] = "stopped"
    /\ InUserCode(l)
    /\ mIsExit' = [mIsExit EXCEPT ![l] = FALSE]
    /\ loopPc' = [loopPc EXCEPT ![l] = "check"]
    /\ UNCHANGED <<mIsLoopingNow, mMutex, wakeupFd, mChannelSet, active, callback, call>>
    /\ UNCHANGED <<taskVars, removeVars>>

(* while (!mIsExit)                                                        *)
ExitLoop(l) ==
    /\ loopPc[l] = "check"
    /\ mIsExit[l]
    /\ loopPc' = [loopPc EXCEPT ![l] = "stopped"]
    /\ UNCHANGED <<mIsExit, mIsLoopingNow, mMutex, wakeupFd, mChannelSet, active, callback, call>>
    /\ UNCHANGED <<taskVars, removeVars>>

EnterPoll(l) ==
    /\ loopPc[l] = "check"
    /\ ~mIsExit[l]
    /\ mIsLoopingNow' = [mIsLoopingNow EXCEPT ![l] = TRUE]
    /\ loopPc' = [loopPc EXCEPT ![l] = "poll"]
    /\ UNCHANGED <<mIsExit, mMutex, wakeupFd, mChannelSet, active, callback, call>>
    /\ UNCHANGED <<taskVars, removeVars>>

(* Mutant: the reset of mIsExit moved into the loop's body.                *)
PollResetsExit(l) ==
    /\ loopPc[l] = "poll"
    /\ \E ready \in SUBSET mChannelSet[l] :
          /\ active' = [active EXCEPT ![l] = ready \cup (IF wakeupFd[l] THEN {Wakeup} ELSE {})]
          /\ active'[l] # {}
    /\ loopPc' = [loopPc EXCEPT ![l] = "dispatch"]
    /\ mIsExit' = [mIsExit EXCEPT ![l] = FALSE]
    /\ UNCHANGED <<mIsLoopingNow, mMutex, wakeupFd, mChannelSet, callback, call>>
    /\ UNCHANGED <<taskVars, removeVars>>

(* epoll_wait reports every ready descriptor; which channels are ready is  *)
(* up to the environment.                                                  *)
Poll(l) ==
    /\ loopPc[l] = "poll"
    /\ \E ready \in SUBSET mChannelSet[l] :
          /\ active' = [active EXCEPT ![l] = ready \cup (IF wakeupFd[l] THEN {Wakeup} ELSE {})]
          /\ active'[l] # {}
    /\ loopPc' = [loopPc EXCEPT ![l] = "dispatch"]
    /\ UNCHANGED <<mIsExit, mIsLoopingNow, mMutex, wakeupFd, mChannelSet, callback, call>>
    /\ UNCHANGED <<taskVars, removeVars>>

(* epoll_wait times out, after EPOLL_MAX_WAIT_TIMEOUT, with nothing ready. *)
PollTimeout(l) ==
    /\ loopPc[l] = "poll"
    /\ ~wakeupFd[l]
    /\ mIsLoopingNow' = [mIsLoopingNow EXCEPT ![l] = FALSE]
    /\ loopPc' = [loopPc EXCEPT ![l] = "swap"]
    /\ UNCHANGED <<mIsExit, mMutex, wakeupFd, mChannelSet, active, callback, call>>
    /\ UNCHANGED <<taskVars, removeVars>>

(* epoll_wait fails, as it does when a signal interrupts it: poll throws.  *)
PollFails(l) ==
    /\ loopPc[l] = "poll"
    /\ unwinding' = [unwinding EXCEPT ![l] = TRUE]
    /\ loopPc' = [loopPc EXCEPT ![l] = "failed"]
    /\ UNCHANGED <<mIsExit, mIsLoopingNow, mMutex, wakeupFd, mChannelSet, active, callback,
                   call, removing, unwoundIn>>
    /\ UNCHANGED taskVars

(* Mutant: the wakeup channel stays the current callback.                  *)
WakeupAsCallback(l) ==
    /\ loopPc[l] = "dispatch"
    /\ callback[l] = None
    /\ Wakeup \in active[l]
    /\ active' = [active EXCEPT ![l] = @ \ {Wakeup}]
    /\ wakeupFd' = [wakeupFd EXCEPT ![l] = FALSE]
    /\ callback' = [callback EXCEPT ![l] = Wakeup]
    /\ UNCHANGED <<loopPc, mIsExit, mIsLoopingNow, mMutex, mChannelSet, call>>
    /\ UNCHANGED <<taskVars, removeVars>>

(* The wakeup channel's read callback: EventFd::handleRead.                *)
DispatchWakeup(l) ==
    /\ loopPc[l] = "dispatch"
    /\ callback[l] = None
    /\ Wakeup \in active[l]
    /\ active' = [active EXCEPT ![l] = @ \ {Wakeup}]
    /\ wakeupFd' = [wakeupFd EXCEPT ![l] = FALSE]
    /\ UNCHANGED <<loopPc, mIsExit, mIsLoopingNow, mMutex, mChannelSet, callback, call>>
    /\ UNCHANGED <<taskVars, removeVars>>

(* hasChannel guards the call of handleEvent.  Channels of one priority    *)
(* come in any order, and every channel has the same one.                  *)
Dispatch(l, c) ==
    /\ loopPc[l] = "dispatch"
    /\ callback[l] = None
    /\ c \in active[l] \ {Wakeup}
    /\ active' = [active EXCEPT ![l] = @ \ {c}]
    /\ callback' = [callback EXCEPT ![l] = IF c \in mChannelSet[l] THEN c ELSE None]
    /\ UNCHANGED <<loopPc, mIsExit, mIsLoopingNow, mMutex, wakeupFd, mChannelSet, call>>
    /\ UNCHANGED <<taskVars, removeVars>>

(* Mutant: the pending tasks are run after a timeout only.                 *)
EndDispatchWithoutTasks(l) ==
    /\ loopPc[l] = "dispatch"
    /\ callback[l] = None
    /\ active[l] = {}
    /\ mIsLoopingNow' = [mIsLoopingNow EXCEPT ![l] = FALSE]
    /\ loopPc' = [loopPc EXCEPT ![l] = "check"]
    /\ UNCHANGED <<mIsExit, mMutex, wakeupFd, mChannelSet, active, callback, call>>
    /\ UNCHANGED <<taskVars, removeVars>>

EndDispatch(l) ==
    /\ loopPc[l] = "dispatch"
    /\ callback[l] = None
    /\ active[l] = {}
    /\ mIsLoopingNow' = [mIsLoopingNow EXCEPT ![l] = FALSE]
    /\ loopPc' = [loopPc EXCEPT ![l] = "swap"]
    /\ UNCHANGED <<mIsExit, mMutex, wakeupFd, mChannelSet, active, callback, call>>
    /\ UNCHANGED <<taskVars, removeVars>>

(* Mutant: doPendingTasks copies the pending tasks and does not clear them. *)
CopyPendingTasks(l) ==
    /\ loopPc[l] = "swap"
    /\ mMutex[l] = None
    /\ pendingTasks' = [pendingTasks EXCEPT ![l] = mPendingTasks[l]]
    /\ loopPc' = [loopPc EXCEPT ![l] = "run"]
    /\ UNCHANGED <<mIsExit, mIsLoopingNow, mPendingTasks, mMutex, wakeupFd, mChannelSet, active,
                   callback, call, removeVars, submitted, ran>>

(* doPendingTasks: swap the vectors under the mutex ...                    *)
SwapPendingTasks(l) ==
    /\ loopPc[l] = "swap"
    /\ mMutex[l] = None
    /\ pendingTasks' = [pendingTasks EXCEPT ![l] = mPendingTasks[l]]
    /\ mPendingTasks' = [mPendingTasks EXCEPT ![l] = <<>>]
    /\ loopPc' = [loopPc EXCEPT ![l] = "run"]
    /\ UNCHANGED <<mIsExit, mIsLoopingNow, mMutex, wakeupFd, mChannelSet, active, callback, call,
                   removeVars, submitted, ran>>

(* ... then run the tasks in order, without it.                            *)
RunTask(l) ==
    LET x == Head(pendingTasks[l]) IN
    /\ loopPc[l] = "run"
    /\ callback[l] = None
    /\ pendingTasks[l] # <<>>
    /\ pendingTasks' = [pendingTasks EXCEPT ![l] = Tail(@)]
    /\ callback' = [callback EXCEPT ![l] = x]
    /\ ran' = [ran EXCEPT ![x] = Append(@, [loop |-> l, by |-> l])]
    /\ UNCHANGED <<loopPc, mIsExit, mIsLoopingNow, mPendingTasks, mMutex, wakeupFd, mChannelSet,
                   active, call, removeVars, submitted>>

EndPendingTasks(l) ==
    /\ loopPc[l] = "run"
    /\ callback[l] = None
    /\ pendingTasks[l] = <<>>
    /\ loopPc' = [loopPc EXCEPT ![l] = "check"]
    /\ UNCHANGED <<mIsExit, mIsLoopingNow, mMutex, wakeupFd, mChannelSet, active, callback, call>>
    /\ UNCHANGED <<taskVars, removeVars>>

(* A task or a channel's handler returns to the loop.                      *)
CallbackReturns(l) ==
    /\ callback[l] # None
    /\ InUserCode(l)
    /\ ~unwinding[l]
    /\ callback' = [callback EXCEPT ![l] = None]
    /\ UNCHANGED <<loopPc, mIsExit, mIsLoopingNow, mMutex, wakeupFd, mChannelSet, active, call>>
    /\ UNCHANGED <<taskVars, removeVars>>

(* It throws: user code does, or a call of epoll_ctl that fails ...        *)
Throw(l) ==
    /\ callback[l] # None
    /\ InUserCode(l)
    /\ ~unwinding[l]
    /\ unwinding' = [unwinding EXCEPT ![l] = TRUE]
    /\ UNCHANGED <<loopPc, mIsExit, mIsLoopingNow, mMutex, wakeupFd, mChannelSet, active, callback,
                   call, removing, unwoundIn>>
    /\ UNCHANGED taskVars

(* ... and the exception is caught, in the callback or around startLoop,   *)
Catch(l) ==
    /\ unwinding[l]
    /\ InUserCode(l)
    /\ unwinding' = [unwinding EXCEPT ![l] = FALSE]
    /\ UNCHANGED <<loopPc, mIsExit, mIsLoopingNow, mMutex, wakeupFd, mChannelSet, active, callback,
                   call, removing, unwoundIn>>
    /\ UNCHANGED taskVars

(* or leaves the callback and startLoop with it; not the callback of a     *)
(* runInLoop that waits, whose packaged_task keeps the exception.  The     *)
(* tasks left in the local vector are lost: they stay in pendingTasks,     *)
(* which nobody runs any more.                                             *)
Escape(l) ==
    /\ callback[l] # None
    /\ unwinding[l]
    /\ InUserCode(l)
    /\ \A t \in Threads : call[t].task # callback[l]
    /\ callback' = [callback EXCEPT ![l] = None]
    /\ active' = [active EXCEPT ![l] = {}]
    /\ loopPc' = [loopPc EXCEPT ![l] = "failed"]
    /\ UNCHANGED <<mIsExit, mIsLoopingNow, mMutex, wakeupFd, mChannelSet, call, removeVars>>
    /\ UNCHANGED taskVars
-----------------------------------------------------------------------------
LoopStep(l) ==
    \/ ExitLoop(l) \/ EnterPoll(l)
    \/ Poll(l) \/ PollTimeout(l)
    \/ DispatchWakeup(l) \/ EndDispatch(l)
    \/ \E c \in Channels : Dispatch(l, c)
    \/ SwapPendingTasks(l) \/ RunTask(l) \/ EndPendingTasks(l)
    \/ PollFails(l)
    \/ CallbackReturns(l) \/ Catch(l) \/ Escape(l)

CallStep(t) == WakeupAndUnlock(t) \/ FutureReady(t) \/ QuitWakeup(t)

UserCode(t) ==
    \/ \E l \in Loops : quitLoop(t, l)
    \/ \E l \in Loops, x \in Tasks : queueInLoop(t, l, x) \/ runInLoop(t, l, x)

Next ==
    \/ \E t \in Threads : UserCode(t) \/ CallStep(t)
    \/ \E l \in Loops : startLoop(l) \/ LoopStep(l) \/ Throw(l) \/ EraseChannel(l)
    \/ \E t, l \in Loops, c \in Channels : addChannel(t, l, c) \/ removeChannel(t, l, c)

Spec == Init /\ [][Next]_vars

(* Every thread is scheduled and epoll_wait returns at the latest when it  *)
(* times out.  A callback terminates whatever it throws, catches and       *)
(* removes on the way: an exception is caught in it or leaves it, and it   *)
(* returns.  Nobody has to make a call, to throw, or to start a loop.      *)
Fairness ==
    /\ \A l \in Loops : /\ WF_vars(LoopStep(l))
                        /\ WF_vars(EraseChannel(l))
                        /\ SF_vars(Catch(l))
                        /\ SF_vars(CallbackReturns(l) \/ Escape(l))
    /\ \A t \in Threads : WF_vars(CallStep(t))

FairSpec == Spec /\ Fairness
-----------------------------------------------------------------------------
(***************************************************************************)
(* Properties.                                                             *)
(***************************************************************************)

(* The loop implements the abstract task queue, with its local vector and  *)
(* the shared one as the FIFO: whatever the order of pushes, swaps, runs   *)
(* and wakeups, no task is lost, run twice or overtaken.                   *)
TQ == INSTANCE TaskQueue WITH
          queue <- [l \in Loops |-> pendingTasks[l] \o mPendingTasks[l]]

TaskQueueSpec == TQ!Spec

(* Whenever a task is pending and the loop has not failed and is not       *)
(* already on its way from epoll_wait to the swap, the wakeup descriptor   *)
(* is readable, or queueInLoop is between its push and its wakeup: no task *)
(* waits for the 1000 ms timeout.  EventLoop.cpp: queueInLoop's wakeup     *)
(* against handleRead, which takes it, and doPendingTasks, which swaps.    *)
NoLostWakeup ==
    \A l \in Loops :
        mPendingTasks[l] # <<>> /\ loopPc[l] \notin {"dispatch", "swap", "failed"}
            => wakeupFd[l] \/ mMutex[l] # None

(* A loop told to quit does not sit in epoll_wait: its wakeup descriptor   *)
(* is readable, or the thread in quitLoop is about to make it so.          *)
(* EventLoop.cpp:153 "Wakeup loop if not in loop thread."                  *)
QuitWakesPoll ==
    \A l \in Loops :
        mIsExit[l] /\ loopPc[l] = "poll"
            => \/ wakeupFd[l]
               \/ \E t \in Threads : call[t].at = "quitWakeup" /\ call[t].loop = l

(* The raw Channel pointers poll returned stay registered until they are   *)
(* dispatched, and the channel whose handler runs stays registered, unless *)
(* an exception's unwinding destroyed them: the case for which             *)
(* EventLoop.cpp:131 asks hasChannel again.  A queued task may remove any  *)
(* channel of its loop: EventLoop.cpp:104 "Don't remove channel in loop!   *)
(* Should queueInLoop".                                                    *)
DispatchIsSafe ==
    \A l \in Loops :
        /\ \A c \in active[l] \ {Wakeup} : c \in mChannelSet[l] \/ unwoundIn[l][c] # None
        /\ callback[l] \in Channels =>
              callback[l] \in mChannelSet[l] \/ unwoundIn[l][callback[l]] = callback[l]
        /\ callback[l] \in Tasks => ~mIsLoopingNow[l] /\ active[l] = {}

(* EventLoop.h:73 "invoke callback in specific loop thread": a task runs   *)
(* in the thread of the loop it was given to.                              *)
RunsInSpecificLoop ==
    \A x \in Tasks : \A i \in DOMAIN ran[x] : ran[x][i].by = ran[x][i].loop

(* A task handed to a loop is run unless that loop stops or fails:         *)
(* startLoop always comes back to doPendingTasks.                          *)
PendingTasksRun ==
    \A l \in Loops, x \in Tasks :
        TQ!Queued(l, x) ~> (ran[x] # <<>> \/ loopPc[l] \in {"stopped", "failed"})

(* A running loop told to quit leaves startLoop, from wherever quitLoop    *)
(* was called and wherever the loop was.                                   *)
QuitStopsLoop ==
    \A l \in Loops : mIsExit[l] ~> loopPc[l] \in {"stopped", "failed"}
=============================================================================
