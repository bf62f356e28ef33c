--------------------------- MODULE EventLoopProof ---------------------------
(***************************************************************************)
(* EventLoop, for every set of loops, threads, tasks and channels: its     *)
(* types, the wakeup and dispatch invariants, and that it implements the   *)
(* abstract task queue.                                                    *)
(***************************************************************************)
EXTENDS EventLoop, SequenceTheorems, TLAPS

(* The loop starts well typed.                                             *)
LEMMA InitTypeOK == Init => TypeOK
  BY DEF Init, TypeOK, LoopPc, CallAt, NoCall

(* The calls keep the types.                                               *)
LEMMA CallTypeOK ==
    ASSUME TypeOK, NEW t \in Threads, UserCode(t) \/ CallStep(t)
    PROVE  TypeOK'
<1> USE DEF LoopPc, CallAt, NoCall
<1>1. ASSUME NEW l \in Loops, quitLoop(t, l) PROVE TypeOK'
  BY <1>1 DEF TypeOK, quitLoop, taskVars, removeVars
<1>2. ASSUME NEW l \in Loops, NEW x \in Tasks, NEW b \in BOOLEAN, Enqueue(t, l, x, b)
      PROVE TypeOK'
  <2>1. Append(mPendingTasks[l], x) \in Seq(Tasks)
    BY AppendProperties DEF TypeOK
  <2>2. QED BY <1>2, <2>1 DEF TypeOK, Enqueue, removeVars
<1>3. ASSUME NEW l \in Loops, NEW x \in Tasks, RunInPlace(t, l, x) PROVE TypeOK'
  <2>1. Append(ran[x], [loop |-> l, by |-> t]) \in Seq(Execution)
    BY <1>3, AppendProperties DEF TypeOK, Execution, RunInPlace, isInLoopThread
  <2>2. QED BY <1>3, <2>1 DEF TypeOK, RunInPlace, loopVars
<1>4. CASE WakeupAndUnlock(t)
  <2>1. call' \in [Threads -> [at : CallAt, loop : Loops \cup {None}, task : Tasks \cup {None}]]
    <3> DEFINE Call == [at : CallAt, loop : Loops \cup {None}, task : Tasks \cup {None}]
    <3>1. call \in [Threads -> Call]
      BY DEF TypeOK
    <3>2. PICK next : /\ call' = [call EXCEPT ![t] = next]
                      /\ next \in {NoCall, [call[t] EXCEPT !.at = "wait"]}
      BY <1>4, <3>1 DEF WakeupAndUnlock
    <3>3. next \in Call
      BY <3>1, <3>2
    <3> HIDE DEF Call
    <3>4. call' \in [Threads -> Call]
      BY <3>1, <3>2, <3>3
    <3>5. QED BY <3>4 DEF Call
  <2>2. /\ wakeupFd' \in [Loops -> BOOLEAN]
        /\ mMutex' \in [Loops -> Threads \cup {None}]
    BY <1>4 DEF TypeOK, WakeupAndUnlock
  <2>3. QED BY <1>4, <2>1, <2>2 DEF TypeOK, WakeupAndUnlock, taskVars, removeVars
<1>5. CASE FutureReady(t)
  BY <1>5 DEF TypeOK, FutureReady, taskVars, removeVars
<1>6. CASE QuitWakeup(t)
  BY <1>6 DEF TypeOK, QuitWakeup, taskVars, removeVars
<1>7. QED
  BY <1>1, <1>2, <1>3, <1>4, <1>5, <1>6 DEF UserCode, CallStep, queueInLoop, runInLoop

(* The loop's own steps keep the types.                                    *)
LEMMA LoopTypeOK ==
    ASSUME TypeOK, NEW l \in Loops, startLoop(l) \/ LoopStep(l) \/ Throw(l) \/ EraseChannel(l)
    PROVE  TypeOK'
<1> USE DEF LoopPc
<1>1. CASE startLoop(l)
  BY <1>1 DEF TypeOK, startLoop, taskVars, removeVars
<1>2. CASE ExitLoop(l)
  BY <1>2 DEF TypeOK, ExitLoop, taskVars, removeVars
<1>3. CASE EnterPoll(l)
  BY <1>3 DEF TypeOK, EnterPoll, taskVars, removeVars
<1>4. CASE Poll(l)
  BY <1>4 DEF TypeOK, Poll, taskVars, removeVars
<1>5. CASE PollTimeout(l)
  BY <1>5 DEF TypeOK, PollTimeout, taskVars, removeVars
<1>6. CASE DispatchWakeup(l)
  BY <1>6 DEF TypeOK, DispatchWakeup, taskVars, removeVars
<1>7. CASE EndDispatch(l)
  BY <1>7 DEF TypeOK, EndDispatch, taskVars, removeVars
<1>8. ASSUME NEW c \in Channels, Dispatch(l, c) PROVE TypeOK'
  BY <1>8 DEF TypeOK, Dispatch, taskVars, removeVars
<1>9. CASE SwapPendingTasks(l)
  BY <1>9, EmptySeq DEF TypeOK, SwapPendingTasks, removeVars
<1>10. CASE RunTask(l)
  <2>1. Head(pendingTasks[l]) \in Tasks /\ Tail(pendingTasks[l]) \in Seq(Tasks)
    BY <1>10, HeadTailProperties DEF TypeOK, RunTask, removeVars
  <2>2. Append(ran[Head(pendingTasks[l])], [loop |-> l, by |-> l]) \in Seq(Execution)
    BY <2>1, AppendProperties DEF TypeOK, Execution
  <2>3. QED BY <1>10, <2>1, <2>2 DEF TypeOK, RunTask, removeVars
<1>11. CASE EndPendingTasks(l)
  BY <1>11 DEF TypeOK, EndPendingTasks, taskVars, removeVars
<1>12. CASE CallbackReturns(l)
  BY <1>12 DEF TypeOK, CallbackReturns, taskVars, removeVars
<1>13. CASE PollFails(l) \/ Catch(l) \/ Throw(l)
  BY <1>13 DEF TypeOK, PollFails, Catch, Throw, taskVars
<1>14. CASE Escape(l)
  BY <1>14 DEF TypeOK, Escape, taskVars, removeVars
<1>15. CASE EraseChannel(l)
  <2>1. PICK m \in Loops, c \in Channels : removing[l] = <<m, c>>
    BY <1>15 DEF TypeOK, EraseChannel
  <2>2. /\ mChannelSet' = [mChannelSet EXCEPT ![m] = @ \ {c}]
        /\ unwoundIn' = [unwoundIn EXCEPT ![m][c] = IF unwinding[l] THEN callback[l] ELSE None]
        /\ removing' = [removing EXCEPT ![l] = <<>>]
    BY <1>15, <2>1 DEF EraseChannel
  <2>3. /\ mChannelSet' \in [Loops -> SUBSET Channels]
        /\ unwoundIn' \in [Loops -> [Channels -> Tasks \cup Channels \cup {None}]]
        /\ removing' \in [Loops -> (Loops \X Channels) \cup {<<>>}]
    BY <2>2 DEF TypeOK
  <2>4. QED BY <1>15, <2>3 DEF TypeOK, EraseChannel, taskVars
<1>16. QED
  BY <1>1, <1>2, <1>3, <1>4, <1>5, <1>6, <1>7, <1>8, <1>9, <1>10, <1>11, <1>12, <1>13, <1>14, <1>15
  DEF LoopStep

(* Every step keeps the types.                                             *)
LEMMA NextTypeOK == TypeOK /\ [Next]_vars => TypeOK'
<1> SUFFICES ASSUME TypeOK, [Next]_vars PROVE TypeOK'
  OBVIOUS
<1>1. ASSUME NEW t \in Loops, NEW l \in Loops, NEW c \in Channels, addChannel(t, l, c)
      PROVE TypeOK'
  BY <1>1 DEF TypeOK, addChannel, taskVars
<1>2. ASSUME NEW t \in Loops, NEW l \in Loops, NEW c \in Channels, removeChannel(t, l, c)
      PROVE TypeOK'
  BY <1>2 DEF TypeOK, removeChannel, taskVars
<1>3. CASE UNCHANGED vars
  BY <1>3 DEF TypeOK, vars
<1>4. QED BY <1>1, <1>2, <1>3, CallTypeOK, LoopTypeOK DEF Next

(* The values of EventLoop's members stay of their types.                  *)
THEOREM EventLoopTypeOK == Spec => []TypeOK
  BY InitTypeOK, NextTypeOK, PTL DEF Spec
-----------------------------------------------------------------------------
(***************************************************************************)
(* The wakeups.                                                            *)
(***************************************************************************)

(* A step that changes neither the pending tasks, nor the descriptor, nor  *)
(* the mutex, and leaves a loop outside "dispatch" and "swap" only where   *)
(* it was outside before, keeps NoLostWakeup; the others set the           *)
(* descriptor, hold the mutex or empty the vector.                         *)
LEMMA NextNoLostWakeup == TypeOK /\ NoLostWakeup /\ [Next]_vars => NoLostWakeup'
<1> SUFFICES ASSUME TypeOK, NoLostWakeup, [Next]_vars PROVE NoLostWakeup'
  OBVIOUS
<1>1. ASSUME NEW t \in Threads, UserCode(t) \/ CallStep(t) PROVE NoLostWakeup'
  <2>1. ASSUME NEW l \in Loops, quitLoop(t, l) PROVE NoLostWakeup'
    BY <2>1 DEF NoLostWakeup, quitLoop, taskVars, removeVars
  <2>2. ASSUME NEW l \in Loops, NEW x \in Tasks, NEW b \in BOOLEAN, Enqueue(t, l, x, b)
        PROVE NoLostWakeup'
    BY <2>2, ThreadsAssumption DEF NoLostWakeup, Enqueue, TypeOK
  <2>3. ASSUME NEW l \in Loops, NEW x \in Tasks, RunInPlace(t, l, x) PROVE NoLostWakeup'
    BY <2>3 DEF NoLostWakeup, RunInPlace, loopVars
  <2>4. CASE WakeupAndUnlock(t)
    BY <2>4 DEF NoLostWakeup, WakeupAndUnlock, taskVars, removeVars, TypeOK
  <2>5. CASE FutureReady(t)
    BY <2>5 DEF NoLostWakeup, FutureReady, taskVars, removeVars
  <2>6. CASE QuitWakeup(t)
    BY <2>6 DEF NoLostWakeup, QuitWakeup, taskVars, removeVars, TypeOK
  <2>7. QED
    BY <1>1, <2>1, <2>2, <2>3, <2>4, <2>5, <2>6
    DEF UserCode, CallStep, queueInLoop, runInLoop
<1>2. ASSUME NEW l \in Loops, startLoop(l) \/ LoopStep(l) \/ Throw(l) \/ EraseChannel(l)
      PROVE  NoLostWakeup'
  <2>1. CASE startLoop(l) \/ ExitLoop(l) \/ EnterPoll(l) \/ EndPendingTasks(l)
    BY <2>1 DEF NoLostWakeup, startLoop, ExitLoop, EnterPoll, EndPendingTasks,
                taskVars, removeVars, TypeOK
  <2>2. CASE Poll(l) \/ PollTimeout(l) \/ DispatchWakeup(l) \/ EndDispatch(l)
    BY <2>2 DEF NoLostWakeup, Poll, PollTimeout, DispatchWakeup, EndDispatch,
                taskVars, removeVars, TypeOK
  <2>3. ASSUME NEW c \in Channels, Dispatch(l, c) PROVE NoLostWakeup'
    BY <2>3 DEF NoLostWakeup, Dispatch, taskVars, removeVars
  <2>4. CASE SwapPendingTasks(l)
    BY <2>4 DEF NoLostWakeup, SwapPendingTasks, TypeOK
  <2>5. CASE RunTask(l)
    BY <2>5 DEF NoLostWakeup, RunTask
  <2>6. CASE CallbackReturns(l) \/ Catch(l) \/ Throw(l) \/ EraseChannel(l)
    BY <2>6 DEF NoLostWakeup, CallbackReturns, Catch, Throw, EraseChannel, taskVars
  <2>7. CASE PollFails(l) \/ Escape(l)
    BY <2>7 DEF NoLostWakeup, PollFails, Escape, taskVars, TypeOK
  <2>8. QED BY <1>2, <2>1, <2>2, <2>3, <2>4, <2>5, <2>6, <2>7 DEF LoopStep
<1>3. ASSUME NEW t \in Loops, NEW l \in Loops, NEW c \in Channels,
             addChannel(t, l, c) \/ removeChannel(t, l, c)
      PROVE NoLostWakeup'
  BY <1>3 DEF NoLostWakeup, addChannel, removeChannel, taskVars
<1>4. CASE UNCHANGED vars
  BY <1>4 DEF NoLostWakeup, vars
<1>5. QED BY <1>1, <1>2, <1>3, <1>4 DEF Next

(* No pending task waits for epoll_wait to time out, whatever the          *)
(* interleaving of queueInLoop's push and wakeup with handleRead and       *)
(* doPendingTasks.                                                         *)
THEOREM EventLoopNoLostWakeup == Spec => []NoLostWakeup
<1>1. Init => NoLostWakeup
  BY DEF Init, NoLostWakeup
<1>2. QED BY <1>1, NextNoLostWakeup, EventLoopTypeOK, PTL DEF Spec
-----------------------------------------------------------------------------
(***************************************************************************)
(* The loop's control: what holds where in startLoop.                      *)
(***************************************************************************)
Control ==
    \A l \in Loops :
        /\ active[l] # {} => loopPc[l] = "dispatch"
        /\ pendingTasks[l] # <<>> => loopPc[l] \in {"run", "failed"}
        /\ loopPc[l] # "failed" => (mIsLoopingNow[l] <=> loopPc[l] \in {"poll", "dispatch"})
        /\ callback[l] \in Tasks => loopPc[l] = "run"
        /\ callback[l] \in Channels => loopPc[l] = "dispatch"

(* Every step keeps what the loop's control promises.                      *)
LEMMA NextControl == TypeOK /\ Control /\ [Next]_vars => Control'
<1> SUFFICES ASSUME TypeOK, Control, [Next]_vars PROVE Control'
  OBVIOUS
<1>1. ASSUME UNCHANGED <<loopPc, mIsLoopingNow, active, pendingTasks, callback>> PROVE Control'
  BY <1>1 DEF Control
<1>2. ASSUME NEW t \in Threads, UserCode(t) \/ CallStep(t) PROVE Control'
  BY <1>1, <1>2 DEF UserCode, CallStep, quitLoop, queueInLoop, runInLoop, Enqueue, RunInPlace,
                    WakeupAndUnlock, FutureReady, QuitWakeup, taskVars, loopVars
<1>3. ASSUME NEW l \in Loops, startLoop(l) \/ LoopStep(l) \/ Throw(l) \/ EraseChannel(l)
      PROVE  Control'
  <2>1. CASE startLoop(l)
    BY <2>1, ThreadsAssumption DEF Control, startLoop, InUserCode, taskVars, TypeOK
  <2>2. CASE ExitLoop(l) \/ EnterPoll(l)
    <3>1. CASE ExitLoop(l)
      BY <2>2, <3>1 DEF Control, ExitLoop, taskVars, TypeOK
    <3>2. CASE EnterPoll(l)
      BY <2>2, <3>2 DEF Control, EnterPoll, taskVars, TypeOK
    <3>3. QED BY <2>2, <3>1, <3>2
  <2>3. CASE Poll(l)
    <3>1. /\ loopPc[l] = "poll" /\ loopPc' = [loopPc EXCEPT ![l] = "dispatch"]
          /\ \A m \in Loops \ {l} : active'[m] = active[m]
          /\ UNCHANGED <<mIsLoopingNow, pendingTasks, callback>>
      BY <2>3 DEF Poll, taskVars, TypeOK
    <3>2. QED BY <3>1 DEF Control, TypeOK
  <2>4. CASE PollTimeout(l) \/ EndDispatch(l)
    <3>1. /\ loopPc[l] \in {"poll", "dispatch"} /\ loopPc'[l] = "swap" /\ mIsLoopingNow'[l] = FALSE
          /\ \A m \in Loops \ {l} : loopPc'[m] = loopPc[m] /\ mIsLoopingNow'[m] = mIsLoopingNow[m]
          /\ UNCHANGED <<active, pendingTasks, callback>>
      BY <2>4 DEF PollTimeout, EndDispatch, taskVars, TypeOK
    <3>2. callback[l] \notin Tasks \cup Channels /\ active[l] = {}
      BY <2>4, ThreadsAssumption DEF Control, PollTimeout, EndDispatch
    <3>3. QED BY <3>1, <3>2 DEF Control
  <2>5. CASE DispatchWakeup(l)
    BY <2>5 DEF Control, DispatchWakeup, taskVars, TypeOK
  <2>6. ASSUME NEW c \in Channels, Dispatch(l, c) PROVE Control'
    BY <2>6, ThreadsAssumption DEF Control, Dispatch, taskVars, TypeOK
  <2>7. CASE SwapPendingTasks(l)
    BY <2>7 DEF Control, SwapPendingTasks, TypeOK
  <2>8. CASE RunTask(l)
    <3>1. /\ loopPc[l] = "run"
          /\ callback'[l] \in Tasks
          /\ \A m \in Loops \ {l} : /\ pendingTasks'[m] = pendingTasks[m]
                                   /\ callback'[m] = callback[m]
          /\ UNCHANGED <<loopPc, mIsLoopingNow, active>>
      BY <2>8, HeadTailProperties DEF RunTask, TypeOK
    <3>2. callback'[l] \notin Channels
      BY <3>1, ThreadsAssumption
    <3>3. QED BY <3>1, <3>2 DEF Control
  <2>9. CASE EndPendingTasks(l)
    <3>1. /\ loopPc[l] = "run" /\ callback[l] = None /\ pendingTasks[l] = <<>>
          /\ loopPc'[l] = "check" /\ \A m \in Loops \ {l} : loopPc'[m] = loopPc[m]
          /\ UNCHANGED <<mIsLoopingNow, active, pendingTasks, callback>>
      BY <2>9 DEF EndPendingTasks, taskVars, TypeOK
    <3>2. None \notin Tasks \cup Channels
      BY ThreadsAssumption
    <3>3. QED BY <3>1, <3>2 DEF Control
  <2>10. CASE CallbackReturns(l)
    BY <2>10, ThreadsAssumption DEF Control, CallbackReturns, taskVars, TypeOK
  <2>11. CASE PollFails(l)
    BY <2>11 DEF Control, PollFails, taskVars, TypeOK
  <2>12. CASE Escape(l)
    <3>1. /\ callback'[l] = None /\ active'[l] = {} /\ loopPc'[l] = "failed"
          /\ \A m \in Loops \ {l} : /\ callback'[m] = callback[m] /\ active'[m] = active[m]
                                   /\ loopPc'[m] = loopPc[m]
          /\ UNCHANGED <<mIsLoopingNow, pendingTasks>>
      BY <2>12 DEF Escape, taskVars, TypeOK
    <3>2. None \notin Tasks \cup Channels
      BY ThreadsAssumption
    <3>3. QED BY <3>1, <3>2 DEF Control
  <2>13. CASE Catch(l) \/ Throw(l) \/ EraseChannel(l)
    BY <1>1, <2>13 DEF Catch, Throw, EraseChannel, taskVars
  <2>14. QED
    BY <1>3, <2>1, <2>2, <2>3, <2>4, <2>5, <2>6, <2>7, <2>8, <2>9, <2>10, <2>11, <2>12, <2>13
    DEF LoopStep
<1>4. ASSUME NEW t \in Loops, NEW l \in Loops, NEW c \in Channels,
             addChannel(t, l, c) \/ removeChannel(t, l, c)
      PROVE  Control'
  BY <1>1, <1>4 DEF addChannel, removeChannel, taskVars
<1>5. CASE UNCHANGED vars
  BY <1>1, <1>5 DEF vars
<1>6. QED BY <1>2, <1>3, <1>4, <1>5 DEF Next

(* The loop's control holds in every reachable state.                      *)
LEMMA EventLoopControl == Spec => []Control
<1>1. Init => Control
  BY ThreadsAssumption DEF Init, Control
<1>2. QED BY <1>1, NextControl, EventLoopTypeOK, PTL DEF Spec

(* Every thread removes channels of its own loop only.  removeChannel does *)
(* not ask for it: its assertion passes in the thread of any loop.         *)
OwnRemovals == \A t \in Loops : removing[t] # <<>> => removing[t][1] = t

(* A thread past removeChannel's assertion is still in the user code that  *)
(* made the call, and what it asserted of its own loop still holds.        *)
Removal ==
    \A l \in Loops :
        removing[l] # <<>> =>
            /\ loopPc[l] \in {"stopped", "failed"} \/ callback[l] # None
            /\ mIsLoopingNow[l] => unwinding[l]

(* Every step keeps Removal: while a removal is under way, its thread does *)
(* nothing else.                                                           *)
LEMMA NextRemoval ==
    ASSUME TypeOK, Control, OwnRemovals', Removal, [Next]_vars
    PROVE  Removal'
<1>1. ASSUME UNCHANGED <<loopPc, mIsLoopingNow, callback, removing, unwinding>> PROVE Removal'
  BY <1>1 DEF Removal
<1>2. ASSUME NEW t \in Threads, UserCode(t) \/ CallStep(t) PROVE Removal'
  BY <1>1, <1>2 DEF UserCode, CallStep, quitLoop, queueInLoop, runInLoop, Enqueue, RunInPlace,
                    WakeupAndUnlock, FutureReady, QuitWakeup, taskVars, removeVars, loopVars
<1>3. ASSUME NEW l \in Loops, startLoop(l) \/ LoopStep(l) \/ Throw(l) PROVE Removal'
  <2>1. removing[l] = <<>>
    <3>1. ASSUME removing[l] # <<>>
          PROVE  /\ loopPc[l] \in {"stopped", "failed", "dispatch", "run"}
                 /\ loopPc[l] \in {"dispatch", "run"} => callback[l] # None
      BY <3>1 DEF Removal, Control, TypeOK
    <3>2. CASE startLoop(l) \/ Throw(l) \/ CallbackReturns(l) \/ Catch(l) \/ Escape(l)
      BY <3>2 DEF startLoop, Throw, CallbackReturns, Catch, Escape, InUserCode
    <3>3. CASE ExitLoop(l) \/ EnterPoll(l) \/ Poll(l) \/ PollTimeout(l) \/ PollFails(l)
      BY <3>1, <3>3 DEF ExitLoop, EnterPoll, Poll, PollTimeout, PollFails
    <3>4. CASE \/ DispatchWakeup(l) \/ EndDispatch(l) \/ \E c \in Channels : Dispatch(l, c)
               \/ SwapPendingTasks(l) \/ RunTask(l) \/ EndPendingTasks(l)
      BY <3>1, <3>4 DEF DispatchWakeup, EndDispatch, Dispatch, SwapPendingTasks, RunTask,
                        EndPendingTasks
    <3>5. QED BY <1>3, <3>2, <3>3, <3>4 DEF LoopStep
  <2>2. /\ removing' = removing
        /\ \A m \in Loops \ {l} : /\ loopPc'[m] = loopPc[m]
                                  /\ mIsLoopingNow'[m] = mIsLoopingNow[m]
                                  /\ callback'[m] = callback[m]
                                  /\ unwinding'[m] = unwinding[m]
    <3>1. CASE startLoop(l) \/ ExitLoop(l) \/ EnterPoll(l) \/ Poll(l)
               \/ PollTimeout(l) \/ PollFails(l)
      BY <3>1 DEF startLoop, ExitLoop, EnterPoll, Poll, PollTimeout, PollFails, removeVars, TypeOK
    <3>2. CASE DispatchWakeup(l) \/ EndDispatch(l) \/ \E c \in Channels : Dispatch(l, c)
      BY <3>2 DEF DispatchWakeup, EndDispatch, Dispatch, removeVars, TypeOK
    <3>3. CASE SwapPendingTasks(l) \/ RunTask(l) \/ EndPendingTasks(l)
      BY <3>3 DEF SwapPendingTasks, RunTask, EndPendingTasks, removeVars, TypeOK
    <3>4. CASE CallbackReturns(l) \/ Throw(l) \/ Catch(l) \/ Escape(l)
      BY <3>4 DEF CallbackReturns, Throw, Catch, Escape, removeVars, TypeOK
    <3>5. QED BY <1>3, <3>1, <3>2, <3>3, <3>4 DEF LoopStep
  <2>3. QED BY <2>1, <2>2 DEF Removal
<1>4. ASSUME NEW l \in Loops, EraseChannel(l) PROVE Removal'
  BY <1>4 DEF Removal, EraseChannel, TypeOK
<1>5. ASSUME NEW t \in Loops, NEW l \in Loops, NEW c \in Channels, addChannel(t, l, c)
      PROVE  Removal'
  BY <1>1, <1>5 DEF addChannel
<1>6. ASSUME NEW t \in Loops, NEW l \in Loops, NEW c \in Channels, removeChannel(t, l, c)
      PROVE  Removal'
  <2>1. removing' = [removing EXCEPT ![t] = <<l, c>>]
        /\ UNCHANGED <<loopPc, mIsLoopingNow, callback, unwinding>>
    BY <1>6 DEF removeChannel
  <2>2. t = l
    BY <2>1 DEF OwnRemovals, TypeOK
  <2>3. /\ loopPc[t] \in {"stopped", "failed"} \/ callback[t] # None
        /\ mIsLoopingNow[t] => unwinding[t]
    BY <1>6, <2>2 DEF removeChannel, InUserCode
  <2>4. QED BY <2>1, <2>3 DEF Removal, TypeOK
<1>7. CASE UNCHANGED vars
  BY <1>1, <1>7 DEF vars
<1>8. QED BY <1>2, <1>3, <1>4, <1>5, <1>6, <1>7 DEF Next

(* Every step keeps DispatchIsSafe.  A channel leaves the set while        *)
(* nothing is dispatched, or in the unwinding of the callback being run.   *)
LEMMA NextDispatchIsSafe ==
    ASSUME TypeOK, Control, Control', OwnRemovals, Removal, DispatchIsSafe, [Next]_vars
    PROVE  DispatchIsSafe'
<1> DEFINE Safe(l) ==
        /\ \A c \in active[l] \ {Wakeup} : c \in mChannelSet[l] \/ unwoundIn[l][c] # None
        /\ callback[l] \in Channels =>
              callback[l] \in mChannelSet[l] \/ unwoundIn[l][callback[l]] = callback[l]
<1>1. \A l \in Loops : Safe(l)
  BY DEF DispatchIsSafe
<1>2. SUFFICES \A l \in Loops : Safe(l)'
  BY <1>2 DEF DispatchIsSafe, Control
<1>3. ASSUME NEW m \in Loops,
             UNCHANGED <<active[m], mChannelSet[m], callback[m]>>,
             \A c \in Channels : unwoundIn'[m][c] = unwoundIn[m][c]
      PROVE  Safe(m)'
  BY <1>1, <1>3 DEF TypeOK
<1>4. ASSUME UNCHANGED <<active, mChannelSet, callback, unwoundIn>> PROVE \A l \in Loops : Safe(l)'
  BY <1>1, <1>4
<1>5. ASSUME NEW t \in Threads, UserCode(t) \/ CallStep(t) PROVE \A l \in Loops : Safe(l)'
  <2>1. UNCHANGED <<active, mChannelSet, callback, unwoundIn>>
    BY <1>5 DEF UserCode, CallStep, quitLoop, queueInLoop, runInLoop, Enqueue, RunInPlace,
                WakeupAndUnlock, FutureReady, QuitWakeup, taskVars, removeVars, loopVars
  <2>2. QED BY <1>4, <2>1
<1>6. ASSUME NEW l \in Loops, startLoop(l) \/ LoopStep(l) \/ Throw(l)
      PROVE  \A m \in Loops : Safe(m)'
  <2>1. CASE startLoop(l) \/ ExitLoop(l) \/ EnterPoll(l) \/ PollTimeout(l) \/ PollFails(l)
             \/ EndDispatch(l) \/ EndPendingTasks(l) \/ Throw(l) \/ Catch(l) \/ SwapPendingTasks(l)
    <3>1. UNCHANGED <<active, mChannelSet, callback, unwoundIn>>
      BY <2>1 DEF startLoop, ExitLoop, EnterPoll, PollTimeout, PollFails, EndDispatch,
                  EndPendingTasks, Throw, Catch, SwapPendingTasks, removeVars
    <3>2. QED BY <1>4, <3>1
  <2>2. CASE Poll(l)
    <3>1. /\ active'[l] \subseteq mChannelSet[l] \cup {Wakeup}
          /\ \A m \in Loops \ {l} : active'[m] = active[m]
          /\ UNCHANGED <<mChannelSet, callback, unwoundIn>>
      BY <2>2 DEF Poll, removeVars, TypeOK
    <3>2. QED BY <1>1, <3>1
  <2>3. CASE DispatchWakeup(l)
    <3>1. /\ \A m \in Loops : active'[m] \subseteq active[m]
          /\ UNCHANGED <<mChannelSet, callback, unwoundIn>>
      BY <2>3 DEF DispatchWakeup, removeVars, TypeOK
    <3>2. QED BY <1>1, <3>1
  <2>4. ASSUME NEW c \in Channels, Dispatch(l, c) PROVE \A m \in Loops : Safe(m)'
    <3>1. /\ \A m \in Loops : active'[m] \subseteq active[m]
          /\ callback'[l] \in Channels => callback'[l] \in mChannelSet[l]
          /\ \A m \in Loops \ {l} : callback'[m] = callback[m]
          /\ UNCHANGED <<mChannelSet, unwoundIn>>
      BY <2>4, ThreadsAssumption DEF Dispatch, removeVars, TypeOK
    <3>2. QED BY <1>1, <3>1
  <2>5. CASE RunTask(l)
    <3>1. /\ callback'[l] \in Tasks
          /\ \A m \in Loops \ {l} : callback'[m] = callback[m]
          /\ UNCHANGED <<active, mChannelSet, unwoundIn>>
      BY <2>5, HeadTailProperties DEF RunTask, removeVars, TypeOK
    <3>2. QED BY <1>1, <3>1, ThreadsAssumption
  <2>6. CASE CallbackReturns(l) \/ Escape(l)
    <3>1. /\ callback'[l] = None
          /\ \A m \in Loops \ {l} : callback'[m] = callback[m]
          /\ \A m \in Loops : active'[m] \subseteq active[m]
          /\ UNCHANGED <<mChannelSet, unwoundIn>>
      BY <2>6 DEF CallbackReturns, Escape, removeVars, TypeOK
    <3>2. QED BY <1>1, <3>1, ThreadsAssumption
  <2>7. QED BY <1>6, <2>1, <2>2, <2>3, <2>4, <2>5, <2>6 DEF LoopStep
<1>7. ASSUME NEW l \in Loops, EraseChannel(l) PROVE \A m \in Loops : Safe(m)'
  <2>1. PICK c \in Channels : removing[l] = <<l, c>>
    BY <1>7 DEF EraseChannel, OwnRemovals, TypeOK
  <2>2. /\ mChannelSet' = [mChannelSet EXCEPT ![l] = @ \ {c}]
        /\ unwoundIn' = [unwoundIn EXCEPT ![l][c] = IF unwinding[l] THEN callback[l] ELSE None]
        /\ UNCHANGED <<active, callback>>
    BY <1>7, <2>1 DEF EraseChannel
  <2>3. mIsLoopingNow[l] /\ loopPc[l] = "dispatch" =>
            unwinding[l] /\ callback[l] # None
    BY <2>1 DEF Removal
  <2>4. active[l] # {} \/ callback[l] \in Channels
          => unwoundIn'[l][c] = callback[l] /\ callback[l] # None
    BY <2>2, <2>3 DEF Control, TypeOK
  <2>5. \A d \in Channels : d # c => unwoundIn'[l][d] = unwoundIn[l][d]
    BY <2>2 DEF TypeOK
  <2>6. \A d \in Channels \ {c} : d \in mChannelSet[l] <=> d \in mChannelSet'[l]
    BY <2>2 DEF TypeOK
  <2>7. Safe(l)'
    BY <1>1, <2>2, <2>4, <2>5, <2>6 DEF TypeOK
  <2>8. ASSUME NEW m \in Loops \ {l} PROVE Safe(m)'
    BY <1>3, <2>2, <2>8 DEF TypeOK
  <2>9. QED BY <2>7, <2>8
<1>8. ASSUME NEW t \in Loops, NEW l \in Loops, NEW c \in Channels, addChannel(t, l, c)
      PROVE  \A m \in Loops : Safe(m)'
  <2>1. /\ mChannelSet' = [mChannelSet EXCEPT ![l] = @ \cup {c}]
        /\ unwoundIn' = [unwoundIn EXCEPT ![l][c] = None]
        /\ UNCHANGED <<active, callback>>
    BY <1>8 DEF addChannel
  <2>2. \A d \in Channels : d # c => unwoundIn'[l][d] = unwoundIn[l][d]
    BY <2>1 DEF TypeOK
  <2>3. c \in mChannelSet'[l] /\ mChannelSet[l] \subseteq mChannelSet'[l]
    BY <2>1 DEF TypeOK
  <2>4. Safe(l)'
    BY <1>1, <2>1, <2>2, <2>3 DEF TypeOK
  <2>5. ASSUME NEW m \in Loops \ {l} PROVE Safe(m)'
    BY <1>3, <2>1, <2>5 DEF TypeOK
  <2>6. QED BY <2>4, <2>5
<1>9. ASSUME NEW t \in Loops, NEW l \in Loops, NEW c \in Channels, removeChannel(t, l, c)
      PROVE  \A m \in Loops : Safe(m)'
  BY <1>4, <1>9 DEF removeChannel
<1>10. CASE UNCHANGED vars
  BY <1>4, <1>10 DEF vars
<1> HIDE DEF Safe
<1>11. QED BY <1>5, <1>6, <1>7, <1>8, <1>9, <1>10 DEF Next

(* As long as every thread removes only channels of its own loop, and so   *)
(* with a single loop always: of the channels poll returned, those not     *)
(* dispatched yet are registered or were destroyed by an exception, the    *)
(* one whose handler runs is registered or was destroyed in that handler's *)
(* own unwinding, and a queued task runs where removeChannel's assertion   *)
(* holds.  EventLoop.cpp:103 and 131.                                      *)
THEOREM EventLoopDispatchIsSafe == Spec /\ []OwnRemovals => []DispatchIsSafe
<1>1. Init => Removal /\ DispatchIsSafe
  BY ThreadsAssumption DEF Init, Removal, DispatchIsSafe
<1>2. TypeOK /\ Control /\ OwnRemovals' /\ Removal /\ [Next]_vars => Removal'
  BY NextRemoval
<1>3. TypeOK /\ Control /\ Control' /\ OwnRemovals /\ Removal /\ DispatchIsSafe /\ [Next]_vars
        => DispatchIsSafe'
  BY NextDispatchIsSafe
<1>4. QED BY <1>1, <1>2, <1>3, EventLoopTypeOK, EventLoopControl, PTL DEF Spec

(* A process with one loop has no other thread to remove its channels.     *)
THEOREM EventLoopSingleLoopDispatch ==
    ASSUME \A l, m \in Loops : l = m
    PROVE  Spec => []DispatchIsSafe
<1>1. TypeOK => OwnRemovals
  BY DEF TypeOK, OwnRemovals
<1>2. QED BY <1>1, EventLoopTypeOK, EventLoopDispatchIsSafe, PTL
-----------------------------------------------------------------------------
(***************************************************************************)
(* The refinement.                                                         *)
(***************************************************************************)

(* Appending to the second of two sequences appends to their               *)
(* concatenation.                                                          *)
LEMMA ConcatAppend ==
    ASSUME NEW s \in Seq(Tasks), NEW p \in Seq(Tasks), NEW x \in Tasks
    PROVE  s \o Append(p, x) = Append(s \o p, x)
<1>1. /\ s \o p \in Seq(Tasks)
      /\ <<x>> \in Seq(Tasks)
  BY ConcatProperties
<1>2. /\ Append(p, x) = p \o <<x>>
      /\ Append(s \o p, x) = (s \o p) \o <<x>>
  BY <1>1, AppendIsConcat
<1>3. QED BY <1>1, <1>2, ConcatAssociative

(* The head and the tail of a concatenation are those of its first part,   *)
(* unless that is empty.                                                   *)
LEMMA ConcatHeadTail ==
    ASSUME NEW s \in Seq(Tasks), NEW p \in Seq(Tasks), s # <<>>
    PROVE  /\ s \o p # <<>>
           /\ Head(s \o p) = Head(s)
           /\ Tail(s \o p) = Tail(s) \o p
<1>1. /\ s \o p \in Seq(Tasks)
      /\ Len(s \o p) = Len(s) + Len(p)
      /\ \A i \in 1 .. Len(s) + Len(p) :
            (s \o p)[i] = IF i <= Len(s) THEN s[i] ELSE p[i - Len(s)]
  BY ConcatProperties
<1>2. Len(s) \in Nat \ {0} /\ Len(p) \in Nat
  BY LenProperties, EmptySeq
<1>3. s \o p # <<>>
  BY <1>1, <1>2, EmptySeq
<1>4. Head(s \o p) = Head(s)
  BY <1>1, <1>2
<1>5. /\ Tail(s \o p) \in Seq(Tasks)
      /\ Len(Tail(s \o p)) = Len(s) + Len(p) - 1
      /\ \A i \in 1 .. Len(Tail(s \o p)) : Tail(s \o p)[i] = (s \o p)[i + 1]
  BY <1>1, <1>3, HeadTailProperties
<1>6. /\ Tail(s) \in Seq(Tasks)
      /\ Len(Tail(s)) = Len(s) - 1
      /\ \A i \in 1 .. Len(Tail(s)) : Tail(s)[i] = s[i + 1]
  BY HeadTailProperties
<1>7. /\ Tail(s) \o p \in Seq(Tasks)
      /\ Len(Tail(s) \o p) = Len(s) - 1 + Len(p)
      /\ \A i \in 1 .. Len(s) - 1 + Len(p) :
            (Tail(s) \o p)[i] = IF i <= Len(s) - 1 THEN Tail(s)[i] ELSE p[i - (Len(s) - 1)]
  BY <1>6, ConcatProperties
<1>8. ASSUME NEW i \in 1 .. Len(Tail(s \o p))
      PROVE  Tail(s \o p)[i] = (Tail(s) \o p)[i]
  <2>1. i \in Nat /\ i >= 1 /\ i <= Len(s) + Len(p) - 1
    BY <1>2, <1>5
  <2>2. CASE i <= Len(s) - 1
    BY <1>1, <1>2, <1>5, <1>6, <1>7, <2>1, <2>2
  <2>3. CASE i > Len(s) - 1
    <3>1. Tail(s \o p)[i] = p[i + 1 - Len(s)]
      BY <1>1, <1>2, <1>5, <2>1, <2>3
    <3>2. (Tail(s) \o p)[i] = p[i - (Len(s) - 1)]
      BY <1>2, <1>7, <2>1, <2>3
    <3>3. i + 1 - Len(s) = i - (Len(s) - 1)
      BY <1>2, <2>1
    <3>4. QED BY <3>1, <3>2, <3>3
  <2>4. QED BY <1>2, <2>1, <2>2, <2>3
<1>9. Tail(s \o p) = Tail(s) \o p
  BY <1>2, <1>5, <1>7, <1>8, SeqEqual
<1>10. QED BY <1>3, <1>4, <1>9

queueBar == [l \in Loops |-> pendingTasks[l] \o mPendingTasks[l]]

TQP == INSTANCE TaskQueueProof WITH queue <- queueBar

(* Appending to mPendingTasks submits the task.                            *)
LEMMA EnqueueSubmits ==
    ASSUME TypeOK, NEW t \in Threads, NEW l \in Loops, NEW x \in Tasks, NEW b \in BOOLEAN,
           Enqueue(t, l, x, b)
    PROVE  TQ!Submit(l, x)
<1>1. /\ x \notin submitted /\ submitted' = submitted \cup {x} /\ ran' = ran
      /\ pendingTasks' = pendingTasks
      /\ mPendingTasks' = [mPendingTasks EXCEPT ![l] = Append(@, x)]
  BY DEF Enqueue
<1>2. pendingTasks[l] \o Append(mPendingTasks[l], x)
         = Append(pendingTasks[l] \o mPendingTasks[l], x)
  BY ConcatAppend DEF TypeOK
<1>3. [m \in Loops |-> pendingTasks'[m] \o mPendingTasks'[m]]
         = [queueBar EXCEPT ![l] = Append(@, x)]
  BY <1>1, <1>2 DEF TypeOK, queueBar
<1>4. QED BY <1>1, <1>3 DEF TQ!Submit, queueBar

(* Swapping the vectors does not change what is queued.                    *)
LEMMA SwapStutters ==
    ASSUME TypeOK, Control, NEW l \in Loops, SwapPendingTasks(l)
    PROVE  UNCHANGED <<queueBar, submitted, ran>>
<1>1. /\ loopPc[l] = "swap"
      /\ pendingTasks' = [pendingTasks EXCEPT ![l] = mPendingTasks[l]]
      /\ mPendingTasks' = [mPendingTasks EXCEPT ![l] = <<>>]
      /\ UNCHANGED <<submitted, ran>>
  BY DEF SwapPendingTasks
<1>2. pendingTasks[l] = <<>>
  BY <1>1 DEF Control
<1>3. mPendingTasks[l] \o <<>> = <<>> \o mPendingTasks[l]
  BY ConcatEmptySeq DEF TypeOK
<1>4. queueBar' = queueBar
  BY <1>1, <1>2, <1>3 DEF TypeOK, queueBar
<1>5. QED BY <1>1, <1>4

(* Running the next task of the local vector executes the head.            *)
LEMMA RunTaskExecutes ==
    ASSUME TypeOK, NEW l \in Loops, RunTask(l)
    PROVE  TQ!Execute(l)
<1>1. /\ pendingTasks[l] # <<>>
      /\ pendingTasks' = [pendingTasks EXCEPT ![l] = Tail(@)]
      /\ mPendingTasks' = mPendingTasks
      /\ submitted' = submitted
      /\ ran' = [ran EXCEPT ![Head(pendingTasks[l])] = Append(@, [loop |-> l, by |-> l])]
  BY DEF RunTask
<1>2. /\ queueBar[l] # <<>>
      /\ Head(queueBar[l]) = Head(pendingTasks[l])
      /\ Tail(queueBar[l]) = Tail(pendingTasks[l]) \o mPendingTasks[l]
  BY <1>1, ConcatHeadTail DEF TypeOK, queueBar
<1>3. queueBar' = [queueBar EXCEPT ![l] = Tail(@)]
  BY <1>1, <1>2 DEF TypeOK, queueBar
<1>4. QED BY <1>1, <1>2, <1>3 DEF TQ!Execute, queueBar

(* Every step of the loop is a step of the task queue, or none.            *)
LEMMA NextRefines ==
    ASSUME TypeOK, Control, [Next]_vars
    PROVE  [TQ!Next]_<<queueBar, submitted, ran>>
<1>1. ASSUME NEW t \in Threads, UserCode(t) \/ CallStep(t)
      PROVE  TQ!Next \/ UNCHANGED <<queueBar, submitted, ran>>
  <2>1. ASSUME NEW l \in Loops, NEW x \in Tasks, NEW b \in BOOLEAN, Enqueue(t, l, x, b)
        PROVE TQ!Next
    BY <2>1, EnqueueSubmits DEF TQ!Next
  <2>2. ASSUME NEW l \in Loops, NEW x \in Tasks, RunInPlace(t, l, x) PROVE TQ!Next
    <3>1. t \in Loops /\ TQ!InPlace(l, t, x)
      BY <2>2 DEF RunInPlace, isInLoopThread, TQ!InPlace
    <3>2. QED BY <3>1 DEF TQ!Next
  <2>3. ASSUME NEW l \in Loops, quitLoop(t, l) PROVE UNCHANGED <<queueBar, submitted, ran>>
    BY <2>3 DEF quitLoop, taskVars, removeVars, queueBar
  <2>4. CASE CallStep(t)
    BY <2>4 DEF CallStep, WakeupAndUnlock, FutureReady, QuitWakeup, taskVars, removeVars, queueBar
  <2>5. QED BY <1>1, <2>1, <2>2, <2>3, <2>4 DEF UserCode, queueInLoop, runInLoop
<1>2. ASSUME NEW l \in Loops, startLoop(l) \/ LoopStep(l) \/ Throw(l) \/ EraseChannel(l)
      PROVE  TQ!Next \/ UNCHANGED <<queueBar, submitted, ran>>
  <2>1. CASE RunTask(l)
    BY <2>1, RunTaskExecutes DEF TQ!Next
  <2>2. CASE SwapPendingTasks(l)
    BY <2>2, SwapStutters
  <2>3. ASSUME UNCHANGED taskVars PROVE UNCHANGED <<queueBar, submitted, ran>>
    BY <2>3 DEF taskVars, removeVars, queueBar
  <2>4. QED
    BY <1>2, <2>1, <2>2, <2>3
    DEF LoopStep, startLoop, ExitLoop, EnterPoll, Poll, PollTimeout, PollFails, DispatchWakeup,
        Dispatch, EndDispatch, EndPendingTasks, CallbackReturns, Throw, Catch, Escape, EraseChannel
<1>3. ASSUME NEW u \in Loops, NEW l \in Loops, NEW c \in Channels,
             addChannel(u, l, c) \/ removeChannel(u, l, c)
      PROVE  UNCHANGED <<queueBar, submitted, ran>>
  BY <1>3 DEF addChannel, removeChannel, taskVars, removeVars, queueBar
<1>4. CASE UNCHANGED vars
  BY <1>4 DEF vars, queueBar
<1>5. QED BY <1>1, <1>2, <1>3, <1>4 DEF Next

(* The loop implements the task queue: whatever the threads, no task is    *)
(* lost, run twice or overtaken on its way through the two vectors.        *)
THEOREM EventLoopRefinesTaskQueue == Spec => TaskQueueSpec
<1>1. Init => TQ!Init
  <2>1. <<>> \o <<>> = <<>>
    OBVIOUS
  <2>2. QED BY <2>1 DEF Init, TQ!Init
<1>2. TypeOK /\ Control /\ [Next]_vars => [TQ!Next]_(TQ!vars)
  BY NextRefines DEF TQ!vars, queueBar
<1>3. QED
  BY <1>1, <1>2, EventLoopTypeOK, EventLoopControl, PTL DEF Spec, TaskQueueSpec, TQ!Spec

(* The abstract specification and its steps are those TaskQueueProof is    *)
(* about.                                                                  *)
LEMMA QueueSteps == [TQ!Next]_(TQ!vars) <=> [TQP!Next]_(TQP!vars)
  BY DEF TQ!Next, TQP!Next, TQ!vars, TQP!vars, TQ!Submit, TQP!Submit, TQ!Execute, TQP!Execute,
         TQ!InPlace, TQP!InPlace, queueBar

LEMMA QueueSpecs == TaskQueueSpec <=> TQP!Spec
<1>1. TQ!Init <=> TQP!Init
  BY DEF TQ!Init, TQP!Init, queueBar
<1>2. QED BY <1>1, QueueSteps, PTL DEF TaskQueueSpec, TQ!Spec, TQP!Spec

(* Therefore a callback runs at most once, and is not queued any more once *)
(* it has run.                                                             *)
THEOREM EventLoopAtMostOnce == Spec => []TQ!AtMostOnce
<1>1. TQP!Spec => []TQP!AtMostOnce
  BY TQP!TaskQueueAtMostOnce
<1>2. TQ!AtMostOnce <=> TQP!AtMostOnce
  BY DEF TQ!AtMostOnce, TQP!AtMostOnce, TQ!Queued, TQP!Queued, queueBar
<1>3. QED BY <1>1, <1>2, QueueSpecs, EventLoopRefinesTaskQueue, PTL

LEMMA EventLoopQueueIInv == Spec => []TQP!IInv
  BY TQP!TaskQueueIInv, QueueSpecs, EventLoopRefinesTaskQueue, PTL
-----------------------------------------------------------------------------
(***************************************************************************)
(* Waiting for a callback.                                                 *)
(***************************************************************************)

(* A call that waits, or is about to, waits for a task that its loop keeps. *)
CallKept ==
    \A t \in Threads :
        /\ call[t].at = "wait" => call[t].task # None
        /\ call[t].task # None =>
              \E l \in Loops, x \in Tasks :
                 call[t].loop = l /\ call[t].task = x /\ TQP!Kept(l, x)

(* A kept task stays kept, whatever step is taken.                         *)
LEMMA StepKeeps ==
    ASSUME TypeOK, Control, TQP!IInv, [Next]_vars, NEW l \in Loops, NEW x \in Tasks, TQP!Kept(l, x)
    PROVE  TQP!Kept(l, x)'
<1>1. [TQ!Next]_(TQ!vars)
  BY NextRefines DEF TQ!vars, queueBar
<1>2. [TQP!Next]_(TQP!vars)
  BY <1>1, QueueSteps
<1>3. QED BY <1>2, TQP!NextKeeps

(* What a step of a thread does to the calls: only runInLoop begins one    *)
(* that has a task, and its wakeup leaves that task to wait for.           *)
LEMMA CallOfStep ==
    ASSUME TypeOK, [Next]_vars, NEW t \in Threads, call'[t] # call[t]
    PROVE  \/ call'[t].task = None /\ call'[t].at # "wait"
           \/ /\ call[t].task # None
              /\ call'[t].task = call[t].task /\ call'[t].loop = call[t].loop
           \/ \E u \in Threads, l \in Loops, x \in Tasks :
                 /\ Enqueue(u, l, x, TRUE)
                 /\ call'[t].loop = l /\ call'[t].task = x /\ call'[t].at = "wakeup"
<1> DEFINE Goal == \/ call'[t].task = None /\ call'[t].at # "wait"
                   \/ /\ call[t].task # None
                      /\ call'[t].task = call[t].task /\ call'[t].loop = call[t].loop
                   \/ \E u \in Threads, l \in Loops, x \in Tasks :
                         /\ Enqueue(u, l, x, TRUE)
                         /\ call'[t].loop = l /\ call'[t].task = x /\ call'[t].at = "wakeup"
<1>1. ASSUME NEW u \in Threads, NEW l \in Loops, NEW x \in Tasks, Enqueue(u, l, x, TRUE)
      PROVE  Goal
  <2>1. call' = [call EXCEPT ![u] = [at |-> "wakeup", loop |-> l, task |-> x]]
    BY <1>1 DEF Enqueue
  <2>2. call'[t] = [at |-> "wakeup", loop |-> l, task |-> x]
    BY <2>1 DEF TypeOK
  <2>3. call'[t].loop = l /\ call'[t].task = x /\ call'[t].at = "wakeup"
    BY <2>2
  <2>4. QED BY <1>1, <2>3, Zenon
<1>2. ASSUME NEW u \in Threads, NEW l \in Loops, NEW x \in Tasks, Enqueue(u, l, x, FALSE)
      PROVE  Goal
  <2>1. call' = [call EXCEPT ![u] = [at |-> "wakeup", loop |-> l, task |-> None]]
    BY <1>2 DEF Enqueue
  <2>2. call'[t] = [at |-> "wakeup", loop |-> l, task |-> None]
    BY <2>1 DEF TypeOK
  <2>3. QED BY <2>2
<1>3. ASSUME NEW u \in Threads, WakeupAndUnlock(u) PROVE Goal
  <2>1. u = t
    BY <1>3 DEF WakeupAndUnlock, TypeOK
  <2>2. call'[t] = IF call[t].task = None THEN NoCall ELSE [call[t] EXCEPT !.at = "wait"]
    BY <1>3, <2>1 DEF WakeupAndUnlock, TypeOK
  <2>3. call[t] \in [at : CallAt, loop : Loops \cup {None}, task : Tasks \cup {None}]
    BY DEF TypeOK
  <2>4. QED BY <2>2, <2>3 DEF NoCall
<1>4. ASSUME NEW u \in Threads, FutureReady(u) \/ QuitWakeup(u) PROVE Goal
  <2>1. call' = [call EXCEPT ![u] = NoCall]
    BY <1>4 DEF FutureReady, QuitWakeup
  <2>2. call'[t] = NoCall
    BY <2>1 DEF TypeOK
  <2>3. QED BY <2>2 DEF NoCall
<1>5. ASSUME NEW u \in Threads, NEW l \in Loops, quitLoop(u, l) PROVE Goal
  <2>1. call' = call \/ call' = [call EXCEPT ![u] = [at |-> "quitWakeup", loop |-> l, task |-> None]]
    BY <1>5 DEF quitLoop
  <2>2. call'[t] = [at |-> "quitWakeup", loop |-> l, task |-> None]
    BY <2>1 DEF TypeOK
  <2>3. QED BY <2>2
<1>6. ASSUME NEW u \in Threads, NEW l \in Loops, NEW x \in Tasks, RunInPlace(u, l, x) PROVE FALSE
  BY <1>6 DEF RunInPlace, loopVars
<1>7. ASSUME NEW l \in Loops, startLoop(l) \/ LoopStep(l) \/ Throw(l) \/ EraseChannel(l) PROVE FALSE
  BY <1>7 DEF startLoop, LoopStep, ExitLoop, EnterPoll, Poll, PollTimeout, PollFails, DispatchWakeup,
              Dispatch, EndDispatch, SwapPendingTasks, RunTask, EndPendingTasks, CallbackReturns,
              Throw, Catch, Escape, EraseChannel
<1>8. ASSUME NEW u \in Loops, NEW l \in Loops, NEW c \in Channels,
             addChannel(u, l, c) \/ removeChannel(u, l, c)
      PROVE  FALSE
  BY <1>8 DEF addChannel, removeChannel
<1>9. Next
  BY DEF vars
<1> HIDE DEF Goal
<1>10. ASSUME NEW u \in Threads, UserCode(u) \/ CallStep(u) PROVE Goal
  BY <1>1, <1>2, <1>3, <1>4, <1>5, <1>6, <1>10
  DEF UserCode, CallStep, queueInLoop, runInLoop
<1>11. Goal
  BY <1>7, <1>8, <1>9, <1>10 DEF Next
<1>12. QED BY <1>11 DEF Goal

LEMMA NextCallKept ==
    ASSUME TypeOK, Control, TQP!IInv, CallKept, [Next]_vars
    PROVE  CallKept'
<1> SUFFICES ASSUME NEW t \in Threads
             PROVE  /\ call'[t].at = "wait" => call'[t].task # None
                    /\ call'[t].task # None =>
                          \E l \in Loops, x \in Tasks :
                             call'[t].loop = l /\ call'[t].task = x /\ TQP!Kept(l, x)'
  BY DEF CallKept
<1>1. call[t].task # None =>
          \E l \in Loops, x \in Tasks :
             call[t].loop = l /\ call[t].task = x /\ TQP!Kept(l, x)'
  BY StepKeeps DEF CallKept
<1>2. CASE call'[t] = call[t]
  <2>1. call[t].at = "wait" => call[t].task # None
    BY DEF CallKept
  <2>2. QED BY <1>1, <1>2, <2>1
<1>3. CASE call'[t].task = None /\ call'[t].at # "wait"
  BY <1>3
<1>4. CASE /\ call[t].task # None
           /\ call'[t].task = call[t].task /\ call'[t].loop = call[t].loop
  BY <1>1, <1>4
<1>5. ASSUME NEW u \in Threads, NEW l \in Loops, NEW x \in Tasks, Enqueue(u, l, x, TRUE)
      PROVE  TQP!Kept(l, x)'
  <2>1. TQ!Submit(l, x)
    BY <1>5, EnqueueSubmits
  <2>2. TQP!Submit(l, x)
    BY <2>1 DEF TQ!Submit, TQP!Submit, queueBar
  <2>3. QED BY <2>2, TQP!SubmitKeeps
<1>6. CASE \E u \in Threads, l \in Loops, x \in Tasks :
              /\ Enqueue(u, l, x, TRUE)
              /\ call'[t].loop = l /\ call'[t].task = x /\ call'[t].at = "wakeup"
  BY <1>5, <1>6
<1>7. QED BY <1>2, <1>3, <1>4, <1>6, CallOfStep

LEMMA EventLoopCallKept == Spec => []CallKept
<1>1. Init => CallKept
  BY DEF Init, CallKept, NoCall
<1>2. TypeOK /\ Control /\ TQP!IInv /\ CallKept /\ [Next]_vars => CallKept'
  BY NextCallKept
<1>3. QED
  BY <1>1, <1>2, EventLoopTypeOK, EventLoopControl, EventLoopQueueIInv, PTL DEF Spec

(* A thread that waits in runInLoop (EventLoop.cpp:165-178) waits for a    *)
(* task its loop still has to run, or has run, once and in its own thread: *)
(* whatever the other threads and loops do, it does not wait in vain for a *)
(* task that was lost or that another loop took.                           *)
AwaitedTaskKept ==
    \A t \in Threads : call[t].at = "wait" =>
        LET l == call[t].loop
            x == call[t].task
        IN  \/ TQ!Queued(l, x) /\ ran[x] = <<>>
            \/ ran[x] = <<[loop |-> l, by |-> l]>>

THEOREM EventLoopAwaitedTaskKept == Spec => []AwaitedTaskKept
<1>1. CallKept => AwaitedTaskKept
  BY DEF CallKept, AwaitedTaskKept, TQP!Kept, TQP!Queued, TQ!Queued, queueBar
<1>2. QED BY <1>1, EventLoopCallKept, PTL

(* EventLoop.h:75 "runInLoop would wait for the callback function to       *)
(* complete": when it returns to a thread that owns no loop, the loop it   *)
(* was given to has run the callback, once, in its own thread, and no loop *)
(* is still inside it.  With several loops too, where a thread that owns   *)
(* one runs the callback itself.                                           *)
RunInLoopReturns ==
    [][\A t \in Threads :
          call[t].at = "wait" /\ call'[t] # call[t] =>
              /\ ran[call[t].task] = <<[loop |-> call[t].loop, by |-> call[t].loop]>>
              /\ \A l \in Loops : callback[l] # call[t].task]_vars

THEOREM EventLoopRunInLoopReturns == Spec => RunInLoopReturns
<1> DEFINE Step == \A t \in Threads :
                      call[t].at = "wait" /\ call'[t] # call[t] =>
                          /\ ran[call[t].task] = <<[loop |-> call[t].loop, by |-> call[t].loop]>>
                          /\ \A l \in Loops : callback[l] # call[t].task
<1>1. ASSUME TypeOK, AwaitedTaskKept, [Next]_vars PROVE Step
  <2>1. SUFFICES ASSUME NEW t \in Threads, call[t].at = "wait", call'[t] # call[t]
                 PROVE  /\ ran[call[t].task] = <<[loop |-> call[t].loop, by |-> call[t].loop]>>
                        /\ \A l \in Loops : callback[l] # call[t].task
    OBVIOUS
  <2>2. ASSUME NEW u \in Threads, UserCode(u) PROVE FALSE
    <3>1. \/ call' = call
          \/ call[u] = NoCall /\ \E next : call' = [call EXCEPT ![u] = next]
      BY <2>2 DEF UserCode, quitLoop, queueInLoop, runInLoop, RunInPlace, Enqueue, InUserCode, loopVars
    <3>2. PICK next : call[u] = NoCall /\ call' = [call EXCEPT ![u] = next]
      BY <2>1, <3>1
    <3>3. u # t
      BY <2>1, <3>2 DEF NoCall
    <3>4. QED BY <2>1, <3>2, <3>3 DEF TypeOK
  <2>3. ASSUME NEW u \in Threads, WakeupAndUnlock(u) \/ QuitWakeup(u) PROVE FALSE
    <3>1. PICK next : /\ call[u].at \in {"wakeup", "quitWakeup"}
                      /\ call' = [call EXCEPT ![u] = next]
      BY <2>3 DEF WakeupAndUnlock, QuitWakeup
    <3>2. u # t
      BY <2>1, <3>1
    <3>3. QED BY <2>1, <3>1, <3>2 DEF TypeOK
  <2>4. ASSUME NEW u \in Threads, FutureReady(u) PROVE Completed(call[t].task)
    BY <1>1, <2>1, <2>4 DEF FutureReady, TypeOK
  <2>5. ASSUME NEW l \in Loops, startLoop(l) \/ LoopStep(l) \/ Throw(l) \/ EraseChannel(l)
      PROVE  FALSE
    BY <2>1, <2>5
    DEF startLoop, LoopStep, ExitLoop, EnterPoll, Poll, PollTimeout, PollFails, DispatchWakeup,
        Dispatch, EndDispatch, SwapPendingTasks, RunTask, EndPendingTasks, CallbackReturns,
        Throw, Catch, Escape, EraseChannel
  <2>6. ASSUME NEW u \in Loops, NEW l \in Loops, NEW c \in Channels,
               addChannel(u, l, c) \/ removeChannel(u, l, c)
        PROVE  FALSE
    BY <2>1, <2>6 DEF addChannel, removeChannel
  <2>7. Completed(call[t].task)
    BY <1>1, <2>1, <2>2, <2>3, <2>4, <2>5, <2>6 DEF Next, CallStep, vars
  <2>8. QED BY <1>1, <2>1, <2>7 DEF AwaitedTaskKept, Completed
<1> HIDE DEF Step
<1>2. TypeOK /\ AwaitedTaskKept /\ [Next]_vars => [Step]_vars
  BY <1>1
<1>3. Spec => [][Step]_vars
  BY <1>2, EventLoopTypeOK, EventLoopAwaitedTaskKept, PTL DEF Spec
<1>4. QED BY <1>3 DEF RunInLoopReturns, Step
-----------------------------------------------------------------------------
(***************************************************************************)
(* Quitting.                                                               *)
(***************************************************************************)

(* With one loop in the process, the only thread that quits it without a   *)
(* wakeup is its own, which is not in epoll_wait then.                     *)
LEMMA NextQuitWakesPoll ==
    ASSUME \A l, m \in Loops : l = m, TypeOK, Control, QuitWakesPoll, [Next]_vars
    PROVE  QuitWakesPoll'
<1>1. ASSUME NEW t \in Threads, UserCode(t) \/ CallStep(t) PROVE QuitWakesPoll'
  <2>1. ASSUME NEW l \in Loops, quitLoop(t, l) PROVE QuitWakesPoll'
    <3>1. CASE isInLoopThread(t)
      <4>1. t = l /\ loopPc[l] # "poll"
        BY <2>1, <3>1, ThreadsAssumption DEF isInLoopThread, quitLoop, InUserCode, Control, TypeOK
      <4>2. QED BY <2>1, <4>1 DEF QuitWakesPoll, quitLoop
    <3>2. CASE ~isInLoopThread(t)
      <4>1. call'[t].at = "quitWakeup" /\ call'[t].loop = l
        BY <2>1, <3>2 DEF quitLoop, TypeOK
      <4>2. \A m \in Loops : m = l
        OBVIOUS
      <4>3. QED BY <4>1, <4>2 DEF QuitWakesPoll
    <3>3. QED BY <3>1, <3>2
  <2>2. ASSUME NEW l \in Loops, NEW x \in Tasks, NEW b \in BOOLEAN, Enqueue(t, l, x, b)
        PROVE QuitWakesPoll'
    BY <2>2 DEF QuitWakesPoll, Enqueue, InUserCode, NoCall, TypeOK
  <2>3. ASSUME NEW l \in Loops, NEW x \in Tasks, RunInPlace(t, l, x) PROVE QuitWakesPoll'
    BY <2>3 DEF QuitWakesPoll, RunInPlace, loopVars
  <2>4. CASE WakeupAndUnlock(t)
    BY <2>4 DEF QuitWakesPoll, WakeupAndUnlock, NoCall, taskVars, removeVars, TypeOK
  <2>5. CASE FutureReady(t)
    BY <2>5 DEF QuitWakesPoll, FutureReady, NoCall, taskVars, removeVars, TypeOK
  <2>6. CASE QuitWakeup(t)
    BY <2>6 DEF QuitWakesPoll, QuitWakeup, NoCall, taskVars, removeVars, TypeOK
  <2>7. QED
    BY <1>1, <2>1, <2>2, <2>3, <2>4, <2>5, <2>6
    DEF UserCode, CallStep, queueInLoop, runInLoop
<1>2. ASSUME NEW l \in Loops, startLoop(l) \/ LoopStep(l) \/ Throw(l) \/ EraseChannel(l)
      PROVE  QuitWakesPoll'
  <2>1. CASE startLoop(l) \/ ExitLoop(l) \/ EnterPoll(l) \/ EndPendingTasks(l)
    BY <2>1 DEF QuitWakesPoll, startLoop, ExitLoop, EnterPoll, EndPendingTasks,
                taskVars, removeVars, TypeOK
  <2>2. CASE Poll(l) \/ PollTimeout(l) \/ DispatchWakeup(l) \/ EndDispatch(l)
    BY <2>2 DEF QuitWakesPoll, Poll, PollTimeout, DispatchWakeup, EndDispatch,
                taskVars, removeVars, TypeOK
  <2>3. CASE \E c \in Channels : Dispatch(l, c)
    BY <2>3 DEF QuitWakesPoll, Dispatch
  <2>4. CASE SwapPendingTasks(l) \/ RunTask(l)
    BY <2>4 DEF QuitWakesPoll, SwapPendingTasks, RunTask, TypeOK
  <2>5. CASE CallbackReturns(l) \/ Catch(l) \/ Throw(l) \/ EraseChannel(l)
    BY <2>5 DEF QuitWakesPoll, CallbackReturns, Catch, Throw, EraseChannel
  <2>6. CASE PollFails(l) \/ Escape(l)
    BY <2>6 DEF QuitWakesPoll, PollFails, Escape, TypeOK
  <2>7. QED BY <1>2, <2>1, <2>2, <2>3, <2>4, <2>5, <2>6 DEF LoopStep
<1>3. ASSUME NEW u \in Loops, NEW l \in Loops, NEW c \in Channels,
             addChannel(u, l, c) \/ removeChannel(u, l, c)
      PROVE QuitWakesPoll'
  BY <1>3 DEF QuitWakesPoll, addChannel, removeChannel
<1>4. CASE UNCHANGED vars
  BY <1>4 DEF QuitWakesPoll, vars
<1>5. QED BY <1>1, <1>2, <1>3, <1>4 DEF Next

(* A process with one loop never leaves it in epoll_wait when told to      *)
(* quit.  With a second loop it does: isInLoopThread holds in that loop's  *)
(* thread too, so that quitLoop sends no wakeup.                           *)
THEOREM EventLoopQuitWakesPoll ==
    ASSUME \A l, m \in Loops : l = m
    PROVE  Spec => []QuitWakesPoll
<1>1. Init => QuitWakesPoll
  BY DEF Init, QuitWakesPoll
<1>2. TypeOK /\ Control /\ QuitWakesPoll /\ [Next]_vars => QuitWakesPoll'
  BY NextQuitWakesPoll
<1>3. QED BY <1>1, <1>2, EventLoopTypeOK, EventLoopControl, PTL DEF Spec
=============================================================================
