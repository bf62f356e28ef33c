--------------------------- MODULE TcpClientProof ---------------------------
(***************************************************************************)
(* The client implements its diagram, always has something to wait for,    *)
(* does not reconnect by itself after a disconnect, and fails only for a   *)
(* cause, for any number of calls and retries.  IInv says which tasks      *)
(* wait; Causes, proved from it, how many of each and in what order.       *)
(***************************************************************************)
EXTENDS TcpClient, FiniteSetTheorems, TLAPS

(* A task of that name is in the vector.                                   *)
In(task, tasks) == \E i \in 1 .. Len(tasks) : tasks[i] = task

Waits(task) == In(task, mPendingTasks) \/ In(task, pendingTasks)

Types ==
    /\ loopPc \in {"poll", "dispatch", "run"}
    /\ revents \in {"none", "in", "err"}
    /\ armed \in Nat /\ expired \in 0 .. armed
    /\ mPendingTasks \in Seq(Task) /\ pendingTasks \in Seq(Task)
    /\ mState \in {"Disconnect", "Connecting", "Connected", "ForceDisconnected"}
    /\ connState \in {"null", "DisConnected", "Connected", "HalfClosed"}
    /\ connects \in Nat

(* Events and swapped tasks exist only where the loop uses them.           *)
Looping ==
    /\ revents # "none" => loopPc = "dispatch" /\ connState # "null"
    /\ loopPc # "run" => pendingTasks = <<>>

(* What user code was told of the connection, and who still refers to it.  *)
Told ==
    /\ connState \in {"Connected", "HalfClosed"} => view = "connected"
    /\ connState = "DisConnected" => view = "disconnected"
    /\ connState = "null" => connSocket = "null" /\ ~Waits("shutdown")

Attempts == armed > 0 \/ Waits("addTimer") \/ Waits("connected")

(* What the client waits for.                                              *)
Awaits ==
    /\ mState = "Connecting" => Attempts
    /\ mState = "Disconnect" /\ connects > 0 => armed > 0 \/ Waits("addTimer")
    /\ mState = "Connected" =>
          connState # "null" /\ (connState = "DisConnected" => Waits("disconnect"))

(* A disconnect that met no attempt leaves none.                           *)
Final == mState = "ForceDisconnected" /\ ~overlapped => ~Attempts

IInv == Types /\ Looping /\ Told /\ (failure = "none" => Awaits /\ Final)
-----------------------------------------------------------------------------
(***************************************************************************)
(* Vectors of tasks.                                                       *)
(***************************************************************************)
LEMMA InNone == \A task : ~In(task, <<>>)
  BY DEF In

LEMMA InOne ==
  ASSUME NEW first \in Task
  PROVE  <<first>> \in Seq(Task) /\ \A task : In(task, <<first>>) <=> task = first
  BY DEF In

LEMMA InConcat ==
  ASSUME NEW tasks \in Seq(Task), NEW more \in Seq(Task), NEW task
  PROVE  /\ tasks \o more \in Seq(Task)
         /\ In(task, tasks \o more) <=> In(task, tasks) \/ In(task, more)
<1> DEFINE all == tasks \o more
<1>1. all \in Seq(Task) /\ Len(all) = Len(tasks) + Len(more)
  OBVIOUS
<1>2. \A i \in 1 .. Len(tasks) : all[i] = tasks[i]
  OBVIOUS
<1>3. \A i \in 1 .. Len(more) : all[Len(tasks) + i] = more[i]
  OBVIOUS
<1>4. \A i \in 1 .. Len(all) :
          i \in 1 .. Len(tasks) \/ (i - Len(tasks) \in 1 .. Len(more)
                                    /\ all[i] = more[i - Len(tasks)])
  BY <1>1
<1>5. Len(tasks) \in Nat /\ Len(more) \in Nat
  OBVIOUS
<1>6. ASSUME In(task, all) PROVE In(task, tasks) \/ In(task, more)
  BY <1>6, <1>2, <1>4 DEF In
<1>7. ASSUME In(task, tasks) PROVE In(task, all)
  BY <1>7, <1>1, <1>2, <1>5 DEF In
<1>8. ASSUME In(task, more) PROVE In(task, all)
  <2>1. PICK i \in 1 .. Len(more) : more[i] = task
    BY <1>8 DEF In
  <2>2. Len(tasks) + i \in 1 .. Len(all) /\ all[Len(tasks) + i] = task
    BY <2>1, <1>1, <1>3, <1>5
  <2> QED  BY <2>2 DEF In
<1> QED  BY <1>1, <1>6, <1>7, <1>8

LEMMA InTail ==
  ASSUME NEW tasks \in Seq(Task), tasks # <<>>, NEW task
  PROVE  /\ Head(tasks) \in Task /\ Tail(tasks) \in Seq(Task)
         /\ In(task, tasks) <=> task = Head(tasks) \/ In(task, Tail(tasks))
<1>1. /\ Head(tasks) = tasks[1] /\ Len(tasks) \in Nat \ {0}
      /\ Tail(tasks) \in Seq(Task) /\ Len(Tail(tasks)) = Len(tasks) - 1
      /\ Head(tasks) \in Task
  OBVIOUS
<1>2. \A i \in 1 .. Len(tasks) - 1 : Tail(tasks)[i] = tasks[i + 1]
  OBVIOUS
<1>3. ASSUME In(task, tasks) PROVE task = Head(tasks) \/ In(task, Tail(tasks))
  <2>1. PICK i \in 1 .. Len(tasks) : tasks[i] = task
    BY <1>3 DEF In
  <2>2. CASE i = 1
    BY <2>1, <2>2, <1>1
  <2>3. CASE i # 1
    <3>1. i - 1 \in 1 .. Len(tasks) - 1 /\ Tail(tasks)[i - 1] = task
      BY <2>1, <2>3, <1>1, <1>2
    <3> QED  BY <3>1, <1>1 DEF In
  <2> QED  BY <2>2, <2>3
<1>4. ASSUME In(task, Tail(tasks)) PROVE In(task, tasks)
  <2>1. PICK i \in 1 .. Len(tasks) - 1 : Tail(tasks)[i] = task
    BY <1>4, <1>1 DEF In
  <2>2. i + 1 \in 1 .. Len(tasks) /\ tasks[i + 1] = task
    BY <2>1, <1>1, <1>2
  <2> QED  BY <2>2 DEF In
<1>5. task = Head(tasks) => In(task, tasks)
  BY <1>1 DEF In
<1> QED  BY <1>1, <1>3, <1>4, <1>5

(* No task refers to a connection that was released.                       *)
LEMMA InDangling ==
  ASSUME NEW tasks \in Seq(Task)
  PROVE  /\ Dangling(tasks) \in Seq(Task)
         /\ ~In("shutdown", Dangling(tasks))
         /\ \A task \in Task \ {"shutdown", "shutdownFreed"} :
               In(task, Dangling(tasks)) <=> In(task, tasks)
<1> DEFINE dangling == Dangling(tasks)
<1>1. dangling \in Seq(Task) /\ Len(dangling) = Len(tasks)
  BY DEF Dangling, Task
<1>2. \A i \in 1 .. Len(tasks) :
          dangling[i] = IF tasks[i] = "shutdown" THEN "shutdownFreed" ELSE tasks[i]
  BY DEF Dangling
<1> HIDE DEF dangling
<1>3. ~In("shutdown", dangling)
  BY <1>1, <1>2 DEF In
<1>4. ASSUME NEW task \in Task \ {"shutdown", "shutdownFreed"}
      PROVE  In(task, dangling) <=> In(task, tasks)
  BY <1>1, <1>2 DEF In
<1> QED  BY <1>1, <1>3, <1>4 DEF dangling
-----------------------------------------------------------------------------
(***************************************************************************)
(* What a call of connect, or a retry timer, does to the queue.            *)
(***************************************************************************)
LEMMA Queueing ==
  ASSUME Types, NEW tasks \in Seq(Task), Queue(tasks)
  PROVE  /\ mPendingTasks' \in Seq(Task)
         /\ \A task : In(task, mPendingTasks') <=> In(task, mPendingTasks) \/ In(task, tasks)
BY InConcat DEF Types, Queue

(* An attempt that was begun leaves its timer or its task, or has failed.  *)
LEMMA AttemptBegun ==
  ASSUME Types, NEW later \in Seq(Task), TransConnecting(later), failure = "none"
  PROVE  /\ mPendingTasks' \in Seq(Task)
         /\ \A task : In(task, mPendingTasks) => In(task, mPendingTasks')
         /\ In("shutdown", mPendingTasks')
               => In("shutdown", mPendingTasks) \/ In("shutdown", later)
         /\ mState = "Connected" => mState' = "Connected" /\ failure' = "none"
         /\ mState # "Connected" =>
               /\ mState' = "Connecting"
               /\ failure' = "none" => In("addTimer", mPendingTasks')
                                       \/ In("connected", mPendingTasks')
<1>1. ASSUME NEW first \in Task
      PROVE  <<first>> \o later \in Seq(Task)
             /\ \A task : In(task, <<first>> \o later) <=> task = first \/ In(task, later)
  BY <1>1, InOne, InConcat
<1>2. {"addTimer", "connected"} \subseteq Task
  BY DEF Task
<1>3. CASE ~Allowed("Connecting")
  <2>1. mState = "Connected"
    BY <1>3 DEF Allowed
  <2> QED  BY <1>3, <2>1, Queueing DEF TransConnecting
<1>4. CASE Allowed("Connecting")
  <2>1. mState # "Connected" /\ mState' = "Connecting" /\ doConnecting(later)
    BY <1>4 DEF Allowed, TransConnecting
  <2>2. CASE Queue(<<"connected">> \o later)
    BY <2>1, <2>2, <1>1, <1>2, Queueing
  <2>3. CASE retry(later)
    <3>1. CASE Queue(<<"addTimer">> \o later)
      BY <2>1, <3>1, <1>1, <1>2, Queueing
    <3>2. CASE failure' = "gaveUp" /\ UNCHANGED mPendingTasks
      BY <2>1, <3>2 DEF Types
    <3> QED  BY <2>3, <3>1, <3>2 DEF retry
  <2> QED  BY <2>1, <2>2, <2>3 DEF doConnecting
<1> QED  BY <1>3, <1>4
-----------------------------------------------------------------------------
(***************************************************************************)
(* The invariant.                                                          *)
(***************************************************************************)
LEMMA Initially == Init => IInv
<1> SUFFICES ASSUME Init PROVE IInv
  OBVIOUS
<1>1. \A task : ~Waits(task)
  BY InNone DEF Init, Waits
<1>2. Types
  BY DEF Init, Types
<1> QED  BY <1>1, <1>2 DEF Init, IInv, Looping, Told, Awaits, Final

LEMMA KernelStep ==
  ASSUME IInv, SocketChanges PROVE IInv'
<1>1. connSocket = "null" => connSocket' = "null"
  BY DEF SocketChanges, Progress
<1> QED  BY <1>1 DEF SocketChanges, IInv, Types, Looping, Told, Awaits, Final, Attempts, Waits,
             loopVars, timerVars, callVars

LEMMA ConnectStep ==
  ASSUME IInv, failure = "none", connect PROVE IInv'
<1>1. <<>> \in Seq(Task) /\ TransConnecting(<<>>)
  BY DEF connect
<1>2. UNCHANGED <<loopPc, revents, expired, pendingTasks, armed, connState, connSocket, view>>
      /\ connects' = connects + 1
  BY DEF connect, loopVars, timerVars, connVars
<1>3. Types'
  <2>1. mPendingTasks' \in Seq(Task) /\ mState' \in {"Connecting", "Connected"}
    BY <1>1, AttemptBegun DEF IInv
  <2> QED  BY <1>2, <2>1 DEF IInv, Types
<1>4. Looping' /\ Told'
  <2>1. In("shutdown", mPendingTasks') => In("shutdown", mPendingTasks)
    BY <1>1, AttemptBegun, InNone DEF IInv
  <2> QED  BY <1>2, <2>1 DEF IInv, Looping, Told, Waits
<1>5. failure' = "none" => Awaits' /\ Final'
  BY <1>1, <1>2, AttemptBegun DEF IInv, Types, Awaits, Final, Attempts, Waits
<1> QED  BY <1>3, <1>4, <1>5 DEF IInv

LEMMA DisconnectStep ==
  ASSUME IInv, disconnect PROVE IInv'
<1>1. "force" \in Task
  BY DEF Task
<1>2. /\ mPendingTasks' \in Seq(Task)
      /\ \A task : task # "force" => (In(task, mPendingTasks') <=> In(task, mPendingTasks))
  <2>1. CASE Queue(<<>>)
    <3>1. <<>> \in Seq(Task)
      OBVIOUS
    <3> QED  BY <2>1, <3>1, Queueing, InNone DEF IInv
  <2>2. CASE Queue(<<"force">>)
    BY <1>1, <2>2, Queueing, InOne DEF IInv
  <2> QED  BY <2>1, <2>2 DEF disconnect
<1>3. UNCHANGED <<loopPc, revents, expired, pendingTasks, armed, mState, connState, connSocket,
                  view, connects, overlapped, failure>>
  BY DEF disconnect, loopVars, timerVars, connVars
<1> QED  BY <1>2, <1>3 DEF IInv, Types, Looping, Told, Awaits, Final, Attempts, Waits

LEMMA PollStep ==
  ASSUME IInv, Poll PROVE IInv'
<1>1. connState = "null" => revents' = "none"
  BY DEF Poll, IInv, Told
<1>2. expired' \in 0 .. armed /\ revents' \in {"none", "in", "err"} /\ loopPc' = "dispatch"
  BY DEF Poll
<1>3. UNCHANGED <<mPendingTasks, pendingTasks, armed, mState, connState, connSocket, view,
                  connects, overlapped, failure>>
  BY DEF Poll, timerVars, connVars, callVars
<1>4. pendingTasks = <<>>
  BY DEF Poll, IInv, Looping
<1> QED  BY <1>1, <1>2, <1>3, <1>4 DEF IInv, Types, Looping, Told, Awaits, Final, Attempts, Waits

LEMMA TimerStep ==
  ASSUME IInv, failure = "none", HandleTimer PROVE IInv'
<1>1. <<"removeTimer">> \in Seq(Task) /\ ~In("shutdown", <<"removeTimer">>)
  <2>1. "removeTimer" \in Task /\ "shutdown" # "removeTimer"
    BY DEF Task
  <2> QED  BY <2>1, InOne
<1>2. TransConnecting(<<"removeTimer">>)
  BY DEF HandleTimer
<1>3. /\ UNCHANGED <<loopPc, revents, pendingTasks, connState, connSocket, view, connects, overlapped>>
      /\ armed' \in Nat /\ expired' \in 0 .. armed'
  BY DEF HandleTimer, connVars, callVars, IInv, Types
<1>4. Types'
  <2>1. mPendingTasks' \in Seq(Task) /\ mState' \in {"Connecting", "Connected"}
    BY <1>1, <1>2, AttemptBegun DEF IInv
  <2> QED  BY <1>3, <2>1 DEF IInv, Types
<1>5. Looping' /\ Told'
  <2>1. In("shutdown", mPendingTasks') => In("shutdown", mPendingTasks)
    BY <1>1, <1>2, AttemptBegun DEF IInv
  <2> QED  BY <1>3, <2>1 DEF IInv, Looping, Told, Waits
<1>6. failure' = "none" => Awaits' /\ Final'
  BY <1>1, <1>2, <1>3, AttemptBegun DEF IInv, Types, Awaits, Final, Attempts, Waits
<1> QED  BY <1>4, <1>5, <1>6 DEF IInv

LEMMA EventStep ==
  ASSUME IInv, failure = "none", HandleEvent PROVE IInv'
<1>1. UNCHANGED <<loopPc, expired, pendingTasks, armed, mState, connects, overlapped>>
      /\ revents' = "none"
  BY DEF HandleEvent, timerVars, callVars
<1>2. connState # "null"
  BY DEF HandleEvent, IInv, Looping
<1>3. CASE handleError /\ UNCHANGED <<mPendingTasks, connState, view, failure>>
  BY <1>1, <1>2, <1>3 DEF IInv, Types, Looping, Told, Awaits, Final, Attempts, Waits
<1>4. CASE handleRead
  <2>1. CASE failure' = "handleRead" /\ UNCHANGED <<mPendingTasks, connVars>>
    BY <1>1, <1>2, <2>1 DEF IInv, Types, Looping, Told, Waits, connVars
  <2>2. CASE /\ connState' = "DisConnected" /\ view' = "disconnected"
             /\ Queue(<<"disconnect">>)
             /\ UNCHANGED failure
    <3>1. /\ mPendingTasks' \in Seq(Task)
          /\ \A task : In(task, mPendingTasks') <=> In(task, mPendingTasks) \/ task = "disconnect"
      BY <2>2, Queueing, InOne DEF IInv, Task
    <3> QED  BY <1>1, <1>2, <2>2, <3>1
             DEF IInv, Types, Looping, Told, Awaits, Final, Attempts, Waits
  <2> QED  BY <1>4, <2>1, <2>2 DEF handleRead, CloseCallback
<1> QED  BY <1>3, <1>4 DEF HandleEvent

LEMMA SwapStep ==
  ASSUME IInv, SwapPendingTasks PROVE IInv'
<1>1. pendingTasks = <<>> /\ pendingTasks' = mPendingTasks /\ mPendingTasks' = <<>>
  BY DEF SwapPendingTasks, IInv, Looping
<1>2. \A task : Waits(task)' <=> Waits(task)
  BY <1>1, InNone DEF Waits
<1>3. /\ UNCHANGED <<revents, expired, armed, mState, connState, connSocket, view, connects,
                     overlapped, failure>>
      /\ loopPc' = "run" /\ revents = "none"
  BY DEF SwapPendingTasks, timerVars, connVars, callVars
<1>4. Types'
  BY <1>1, <1>3 DEF IInv, Types
<1> QED  BY <1>2, <1>3, <1>4 DEF IInv, Looping, Told, Awaits, Final, Attempts

LEMMA EndStep ==
  ASSUME IInv, EndPendingTasks PROVE IInv'
<1>1. /\ UNCHANGED <<revents, expired, mPendingTasks, pendingTasks, armed, mState, connState,
                     connSocket, view, connects, overlapped, failure>>
      /\ loopPc = "run" /\ loopPc' = "poll" /\ pendingTasks = <<>>
  BY DEF EndPendingTasks, timerVars, connVars, callVars
<1> QED  BY <1>1 DEF IInv, Types, Looping, Told, Awaits, Final, Attempts, Waits
-----------------------------------------------------------------------------
(***************************************************************************)
(* Tasks.                                                                  *)
(***************************************************************************)
LEMMA QueuedIsWaiting ==
  ASSUME Types, NEW task PROVE Queued(task) <=> Waits(task)
<1>1. /\ mPendingTasks \in Seq(Task) /\ pendingTasks \in Seq(Task)
      /\ mPendingTasks \o pendingTasks \in Seq(Task)
  BY InConcat DEF Types
<1>2. Queued(task) <=> In(task, mPendingTasks \o pendingTasks)
  BY <1>1 DEF Queued, Contains, In
<1> QED  BY <1>1, <1>2, InConcat DEF Waits

LEMMA AttemptingIsAttempts == Types => (Attempting <=> Attempts)
BY QueuedIsWaiting DEF Attempting, Attempts

(* The task that runs, and those left.                                     *)
LEMMA Running ==
  ASSUME IInv, RunTask
  PROVE  /\ loopPc = "run" /\ revents = "none" /\ pendingTasks # <<>>
         /\ Head(pendingTasks) \in Task /\ Tail(pendingTasks) \in Seq(Task)
         /\ \A task : In(task, pendingTasks)
                         <=> task = Head(pendingTasks) \/ In(task, Tail(pendingTasks))
         /\ UNCHANGED <<loopPc, revents, expired, connects>>
         /\ overlapped' = (overlapped \/ (Head(pendingTasks) = "force" /\ Attempting))
<1>1. loopPc = "run" /\ revents = "none" /\ pendingTasks # <<>>
  BY DEF RunTask, IInv, Looping
<1>2. pendingTasks \in Seq(Task)
  BY DEF IInv, Types
<1> QED  BY <1>1, <1>2, InTail DEF RunTask

LEMMA FailedTask ==
  ASSUME IInv, RunTask, failure' # "none", UNCHANGED timerVars, UNCHANGED connVars,
         UNCHANGED <<mPendingTasks, mState>>,
         pendingTasks' = pendingTasks \/ pendingTasks' = Tail(pendingTasks)
  PROVE  IInv'
<1>1. Types' /\ Looping'
  BY Running DEF IInv, Types, Looping, timerVars, connVars
<1>2. Told'
  BY Running DEF IInv, Told, Waits, connVars
<1> QED  BY <1>1, <1>2 DEF IInv

LEMMA RefusedTask ==
  ASSUME IInv, failure = "none", RunTask, UNCHANGED timerVars, UNCHANGED connVars,
         UNCHANGED <<mPendingTasks, mState, failure>>, pendingTasks' = Tail(pendingTasks),
         NEW newState \in {"Connected", "Disconnect", "ForceDisconnected"}, ~Allowed(newState),
         Head(pendingTasks) = CASE newState = "Connected"         -> "connected"
                                [] newState = "Disconnect"        -> "disconnect"
                                [] newState = "ForceDisconnected" -> "force"
  PROVE  IInv'
<1>1. Types' /\ Looping'
  BY Running DEF IInv, Types, Looping, timerVars, connVars
<1>2. Told'
  BY Running DEF IInv, Told, Waits, connVars
<1>3. Awaits'
  BY Running DEF IInv, Types, Awaits, Attempts, Waits, Allowed, timerVars, connVars
<1>4. Final'
  BY Running DEF IInv, Types, Final, Attempts, Waits, Allowed, timerVars, connVars
<1> QED  BY <1>1, <1>2, <1>3, <1>4 DEF IInv

LEMMA ConnectedTask ==
  ASSUME IInv, failure = "none", RunTask, UNCHANGED timerVars,
         Allowed("Connected"), doConnected
  PROVE  IInv'
<1>1. CASE Fails("badSocket") \/ Fails("socketError")
  BY <1>1, FailedTask DEF Fails
<1>2. CASE /\ mState' = "Connected" /\ connState' = "Connected" /\ view' = "connected"
           /\ mPendingTasks' = Dangling(mPendingTasks)
           /\ pendingTasks' = Dangling(Tail(pendingTasks))
  <2>1. mPendingTasks' \in Seq(Task) /\ pendingTasks' \in Seq(Task)
    BY <1>2, Running, InDangling DEF IInv, Types
  <2>2. Types' /\ Looping'
    BY <1>2, <2>1, Running DEF IInv, Types, Looping, timerVars
  <2>3. Told' /\ Awaits' /\ Final'
    BY <1>2 DEF Told, Awaits, Final
  <2> QED  BY <2>2, <2>3 DEF IInv
<1> QED  BY <1>1, <1>2 DEF doConnected

LEMMA DisconnectedTask ==
  ASSUME IInv, failure = "none", RunTask, UNCHANGED timerVars, doDisconnected
  PROVE  IInv'
<1>1. CASE Fails("destroyConnection")
  BY <1>1, FailedTask DEF Fails
<1>2. CASE /\ mState' = "Disconnect" /\ connState' = "null" /\ connSocket' = "null"
           /\ mPendingTasks' = Append(Dangling(mPendingTasks), "addTimer")
           /\ pendingTasks' = Dangling(Tail(pendingTasks))
  <2>1. /\ Dangling(mPendingTasks) \in Seq(Task) /\ pendingTasks' \in Seq(Task)
        /\ ~In("shutdown", Dangling(mPendingTasks)) /\ ~In("shutdown", pendingTasks')
    BY <1>2, Running, InDangling DEF IInv, Types
  <2>2. "addTimer" \in Task /\ "shutdown" # "addTimer"
    BY DEF Task
  <2>3. mPendingTasks' = Dangling(mPendingTasks) \o <<"addTimer">>
    BY <1>2, <2>1, <2>2
  <2>4. /\ mPendingTasks' \in Seq(Task)
        /\ ~In("shutdown", mPendingTasks') /\ In("addTimer", mPendingTasks')
    BY <2>1, <2>2, <2>3, InOne, InConcat
  <2>5. Types' /\ Looping'
    BY <1>2, <2>1, <2>4, Running DEF IInv, Types, Looping, timerVars
  <2>6. Told' /\ Awaits' /\ Final'
    BY <1>2, <2>1, <2>4 DEF Told, Awaits, Final, Waits
  <2> QED  BY <2>5, <2>6 DEF IInv
<1> QED  BY <1>1, <1>2 DEF doDisconnected

LEMMA ForceTask ==
  ASSUME IInv, failure = "none", RunTask, UNCHANGED timerVars,
         Head(pendingTasks) = "force", doForceDisconnected
  PROVE  IInv'
<1>1. /\ mState' = "ForceDisconnected" /\ Queue(<<"shutdownConnection">>)
      /\ pendingTasks' = Tail(pendingTasks) /\ UNCHANGED connVars /\ UNCHANGED failure
  BY DEF doForceDisconnected
<1>2. "shutdownConnection" \in Task
  BY DEF Task
<1>3. /\ mPendingTasks' \in Seq(Task)
      /\ \A task : In(task, mPendingTasks')
                      <=> In(task, mPendingTasks) \/ task = "shutdownConnection"
  BY <1>1, <1>2, Queueing, InOne DEF IInv
<1>4. Types' /\ Looping'
  BY <1>1, <1>3, Running DEF IInv, Types, Looping, timerVars, connVars
<1>5. Told'
  BY <1>1, <1>3, Running DEF IInv, Told, Waits, connVars
<1>6. Awaits'
  BY <1>1 DEF Awaits
<1>7. Final'
  <2>1. ~overlapped' => ~Attempts
    BY Running, AttemptingIsAttempts DEF IInv
  <2> QED  BY <1>1, <1>3, <2>1, Running DEF Final, Attempts, Waits, timerVars
<1> QED  BY <1>1, <1>4, <1>5, <1>6, <1>7 DEF IInv

LEMMA ShutdownConnectionTask ==
  ASSUME IInv, failure = "none", RunTask, UNCHANGED mState, pendingTasks' = Tail(pendingTasks),
         Head(pendingTasks) = "shutdownConnection", ShutdownConnection
  PROVE  IInv'
<1>1. CASE failure' = "nullConnection" /\ UNCHANGED mPendingTasks
  BY <1>1, FailedTask DEF ShutdownConnection
<1>2. CASE connState # "null" /\ Queue(<<"shutdown">>) /\ UNCHANGED failure
  <2>1. "shutdown" \in Task
    BY DEF Task
  <2>2. /\ mPendingTasks' \in Seq(Task)
        /\ \A task : In(task, mPendingTasks') <=> In(task, mPendingTasks) \/ task = "shutdown"
    BY <1>2, <2>1, Queueing, InOne DEF IInv
  <2>3. UNCHANGED timerVars /\ UNCHANGED connVars
    BY DEF ShutdownConnection
  <2>4. Types' /\ Looping'
    BY <2>2, <2>3, Running DEF IInv, Types, Looping, timerVars, connVars
  <2>5. Told'
    BY <1>2, <2>3 DEF IInv, Told, connVars
  <2>6. Awaits'
    BY <1>2, <2>2, <2>3, Running DEF IInv, Awaits, Attempts, Waits, timerVars, connVars
  <2>7. Final'
    BY <1>2, <2>2, <2>3, Running DEF IInv, Final, Attempts, Waits, timerVars
  <2> QED  BY <1>2, <2>4, <2>5, <2>6, <2>7 DEF IInv
<1> QED  BY <1>1, <1>2 DEF ShutdownConnection

LEMMA ShutdownTask ==
  ASSUME IInv, failure = "none", RunTask, UNCHANGED mState, pendingTasks' = Tail(pendingTasks),
         Head(pendingTasks) = "shutdown", Shutdown
  PROVE  IInv'
<1>1. connState # "null"
  BY Running DEF IInv, Told, Waits
<1>2. /\ \/ connState' = connState
         \/ connState # "DisConnected" /\ connState' = "HalfClosed"
      /\ UNCHANGED <<mPendingTasks, view, failure>> /\ UNCHANGED timerVars
  BY DEF Shutdown, timerVars
<1>3. Types' /\ Looping'
  BY <1>2, Running DEF IInv, Types, Looping, timerVars
<1>4. Told'
  BY <1>1, <1>2 DEF IInv, Types, Told
<1>5. Awaits' /\ Final'
  BY <1>1, <1>2, Running DEF IInv, Types, Awaits, Final, Attempts, Waits, timerVars
<1> QED  BY <1>2, <1>3, <1>4, <1>5 DEF IInv

LEMMA TimersTask ==
  ASSUME IInv, failure = "none", RunTask, UNCHANGED mState, pendingTasks' = Tail(pendingTasks),
         Head(pendingTasks) \in {"addTimer", "removeTimer"}, UpdateTimers(Head(pendingTasks))
  PROVE  IInv'
<1>1. /\ armed' = IF Head(pendingTasks) = "addTimer" THEN armed + 1 ELSE armed
      /\ UNCHANGED <<mPendingTasks, failure>> /\ UNCHANGED connVars
  BY DEF UpdateTimers
<1>2. Types' /\ Looping'
  BY <1>1, Running DEF IInv, Types, Looping, connVars
<1>3. Told'
  BY <1>1, Running DEF IInv, Told, Waits, connVars
<1>4. Awaits'
  BY <1>1, Running DEF IInv, Types, Awaits, Attempts, Waits, connVars
<1>5. Final'
  BY <1>1, Running DEF IInv, Types, Final, Attempts, Waits
<1> QED  BY <1>1, <1>2, <1>3, <1>4, <1>5 DEF IInv

LEMMA TransStateTask ==
  ASSUME IInv, failure = "none", RunTask,
         NEW newState \in {"Connected", "Disconnect", "ForceDisconnected"}, TransState(newState),
         Head(pendingTasks) = CASE newState = "Connected"         -> "connected"
                                [] newState = "Disconnect"        -> "disconnect"
                                [] newState = "ForceDisconnected" -> "force"
  PROVE  IInv'
<1>1. UNCHANGED timerVars
  BY DEF TransState
<1>2. CASE ~Allowed(newState)
  <2>1. pendingTasks' = Tail(pendingTasks) /\ UNCHANGED connVars
        /\ UNCHANGED <<mPendingTasks, mState, failure>>
    BY <1>2 DEF TransState, connVars
  <2> QED  BY <1>1, <1>2, <2>1, RefusedTask
<1>3. CASE Allowed(newState)
  <2>1. CASE newState = "Connected"
    BY <1>1, <1>3, <2>1, ConnectedTask DEF TransState
  <2>2. CASE newState = "Disconnect"
    BY <1>1, <1>3, <2>2, DisconnectedTask DEF TransState
  <2>3. CASE newState = "ForceDisconnected"
    BY <1>1, <1>3, <2>3, ForceTask DEF TransState
  <2> QED  BY <2>1, <2>2, <2>3
<1> QED  BY <1>2, <1>3

LEMMA RunStep ==
  ASSUME IInv, failure = "none", RunTask PROVE IInv'
<1> DEFINE first == Head(pendingTasks)
<1>1. first \in Task
  BY Running
<1>2. CASE first = "connected"
  BY <1>2, TransStateTask DEF RunTask
<1>3. CASE first = "disconnect"
  BY <1>3, TransStateTask DEF RunTask
<1>4. CASE first = "force"
  BY <1>4, TransStateTask DEF RunTask
<1>5. CASE first \in Task \ {"connected", "disconnect", "force"}
  <2>1. OtherTask(first)
    BY <1>5 DEF RunTask
  <2>2. pendingTasks' = Tail(pendingTasks) /\ UNCHANGED mState
    BY <2>1 DEF OtherTask
  <2>3. CASE first = "shutdownConnection"
    BY <2>1, <2>2, <2>3, ShutdownConnectionTask DEF OtherTask
  <2>4. CASE first = "shutdown"
    BY <2>1, <2>2, <2>4, ShutdownTask DEF OtherTask
  <2>5. CASE first = "shutdownFreed"
    BY <2>1, <2>2, <2>5, FailedTask DEF OtherTask
  <2>6. CASE first \in {"addTimer", "removeTimer"}
    BY <2>1, <2>2, <2>6, TimersTask DEF OtherTask
  <2> QED  BY <1>5, <2>3, <2>4, <2>5, <2>6 DEF Task
<1> QED  BY <1>1, <1>2, <1>3, <1>4, <1>5
-----------------------------------------------------------------------------
(***************************************************************************)
(* Theorems.                                                               *)
(***************************************************************************)
LEMMA Inductive == IInv /\ [Next]_vars => IInv'
<1> SUFFICES ASSUME IInv, [Next]_vars PROVE IInv'
  OBVIOUS
<1>1. CASE UNCHANGED vars
  BY <1>1 DEF vars, loopVars, timerVars, connVars, callVars, IInv, Types, Looping, Told, Awaits,
       Final, Attempts, Waits
<1>2. CASE Next
  <2>1. failure = "none"
    BY <1>2 DEF Next
  <2> QED  BY <1>2, <2>1, KernelStep, ConnectStep, DisconnectStep, PollStep, TimerStep, EventStep,
                SwapStep, EndStep, RunStep DEF Next, Loop
<1> QED  BY <1>1, <1>2

LEMMA Invariant == Spec => []IInv
BY Initially, Inductive, PTL DEF Spec

(* The client always has a task, a timer or a connection to wait for       *)
(* (TcpClient.cpp:84-128,237-249).                                         *)
THEOREM AlwaysAwaits == Spec => []NeverStuck
<1>1. IInv => NeverStuck
  BY QueuedIsWaiting, AttemptingIsAttempts DEF IInv, Awaits, Attempts, NeverStuck
<1> QED  BY <1>1, Invariant, PTL

(* Only connect leaves a disconnected client's state, unless a call met an *)
(* attempt under way (TcpClient.cpp:100-126,241).                          *)
THEOREM DisconnectedStays == Spec => DisconnectIsFinal
<1> DEFINE Leaves == mState = "ForceDisconnected" /\ mState' # mState /\ ~overlapped
<1>1. IInv /\ [Next]_vars => [Leaves => connects' > connects]_vars
  <2> SUFFICES ASSUME IInv, Next, Leaves PROVE connects' > connects
    OBVIOUS
  <2>1. ~Attempts
    BY DEF IInv, Final, Next
  <2>2. CASE connect
    BY <2>2 DEF connect, IInv, Types
  <2>3. CASE HandleTimer
    BY <2>1, <2>3 DEF HandleTimer, IInv, Types, Attempts
  <2>4. CASE RunTask
    <3>1. ~TransState("Connected") /\ ~TransState("Disconnect") /\ ~TransState("ForceDisconnected")
      BY DEF TransState, Allowed
    <3> QED  BY <2>4, <3>1 DEF RunTask, OtherTask
  <2>5. CASE SocketChanges \/ disconnect \/ Poll \/ HandleEvent \/ SwapPendingTasks \/ EndPendingTasks
    BY <2>5 DEF SocketChanges, disconnect, Poll, HandleEvent, SwapPendingTasks, EndPendingTasks
  <2> QED  BY <2>2, <2>3, <2>4, <2>5 DEF Next, Loop
<1> QED  BY <1>1, Invariant, PTL DEF Spec, DisconnectIsFinal

(* What a step does to the state and to what user code was told: an edge   *)
(* of the diagram, a departure from it, or nothing.                        *)
LEMMA DiagramStep ==
  ASSUME IInv, Next
  PROVE  \/ Diagram!Edge \/ Diagram!reconnect \/ Diagram!strayRetry
         \/ UNCHANGED <<mState, view>>
<1>1. ASSUME NEW later, TransConnecting(later), UNCHANGED view,
             mState = "ForceDisconnected" => connects' > connects \/ overlapped
      PROVE  Diagram!connect \/ Diagram!reconnect \/ Diagram!strayRetry \/ UNCHANGED <<mState, view>>
  BY <1>1 DEF TransConnecting, Allowed, Diagram!connect, Diagram!reconnect, Diagram!strayRetry,
              IInv, Types
<1>2. CASE connect \/ HandleTimer
  <2>1. CASE connect
    BY <1>1, <2>1 DEF connect, connVars, IInv, Types, Diagram!Edge
  <2>2. CASE HandleTimer
    <3>1. Attempts
      BY <2>2 DEF HandleTimer, IInv, Types, Attempts
    <3>2. mState = "ForceDisconnected" => overlapped
      BY <3>1 DEF IInv, Final, Next
    <3> QED  BY <1>1, <2>2, <3>2 DEF HandleTimer, connVars, Diagram!Edge
  <2> QED  BY <1>2, <2>1, <2>2
<1>3. CASE HandleEvent
  <2>1. CASE handleRead /\ connState # "DisConnected"
    <3>1. revents \in {"in", "err"}
      BY <1>3 DEF HandleEvent
    <3>2. view = "connected"
      BY <2>1, <3>1 DEF IInv, Types, Looping, Told
    <3> QED  BY <1>3, <2>1, <3>2 DEF HandleEvent, handleRead, Diagram!TellClosed, Diagram!Edge
  <2>2. CASE ~(handleRead /\ connState # "DisConnected")
    BY <1>3, <2>2 DEF HandleEvent, handleRead, connVars
  <2> QED  BY <2>1, <2>2
<1>4. CASE RunTask
  <2>1. CASE TransState("Connected")
    BY <2>1 DEF TransState, Allowed, doConnected, Fails, connVars, Diagram!handleWrite, Diagram!Edge
  <2>2. CASE TransState("Disconnect")
    BY <2>2 DEF TransState, Allowed, doDisconnected, Fails, connVars, IInv, Told,
                Diagram!handleClose, Diagram!Edge
  <2>3. CASE TransState("ForceDisconnected")
    BY <2>3 DEF TransState, Allowed, doForceDisconnected, connVars, Diagram!disconnect, Diagram!Edge
  <2>4. CASE OtherTask(Head(pendingTasks))
    BY <2>4 DEF OtherTask, ShutdownConnection, Shutdown, UpdateTimers, connVars
  <2> QED  BY <1>4, <2>1, <2>2, <2>3, <2>4 DEF RunTask
<1>5. CASE SocketChanges \/ disconnect \/ Poll \/ SwapPendingTasks \/ EndPendingTasks
  BY <1>5 DEF SocketChanges, disconnect, Poll, SwapPendingTasks, EndPendingTasks, connVars
<1> QED  BY <1>2, <1>3, <1>4, <1>5 DEF Next, Loop

(* The client implements the diagram of TcpClient.h:15-37 with its two     *)
(* departures, a connect after a disconnect and a retry timer that was not *)
(* cancelled.                                                              *)
THEOREM Refinement == Spec => ClientDiagramSpec
<1>1. Init => Diagram!Init
  BY DEF Init, Diagram!Init
<1>2. IInv /\ [Next]_vars => [Diagram!Edge \/ Diagram!reconnect \/ Diagram!strayRetry]_<<mState, view>>
  BY DiagramStep DEF vars, connVars
<1> QED  BY <1>1, <1>2, Invariant, PTL DEF Spec, ClientDiagramSpec, Diagram!Spec

(* Neither is taken by a client that user code leaves alone once it is     *)
(* disconnected, and whose disconnect met no attempt under way: that       *)
(* client implements the diagram as TcpClient.h:15-37 draws it.            *)
LeftAlone == [][mState = "ForceDisconnected" => ~overlapped /\ connects' = connects]_vars

THEOREM DiagramWhenLeftAlone == Spec /\ LeftAlone => Diagram!DiagramSpec
<1> DEFINE Alone == mState = "ForceDisconnected" => ~overlapped /\ connects' = connects
<1>1. Init => Diagram!Init
  BY DEF Init, Diagram!Init
<1>2. IInv /\ [Next]_vars /\ [Alone]_vars => [Diagram!Edge]_<<mState, view>>
  <2> SUFFICES ASSUME IInv, Next, Alone PROVE Diagram!Edge \/ UNCHANGED <<mState, view>>
    BY DEF vars, connVars
  <2>1. ~Diagram!strayRetry
    BY DEF Diagram!strayRetry
  <2>2. ~Diagram!reconnect
    BY DEF Diagram!reconnect, IInv, Types
  <2> QED  BY <2>1, <2>2, DiagramStep
<1> HIDE DEF Alone
<1>3. LeftAlone <=> [][Alone]_vars
  BY DEF LeftAlone, Alone
<1> QED  BY <1>1, <1>2, <1>3, Invariant, PTL DEF Spec, Diagram!DiagramSpec
-----------------------------------------------------------------------------
(***************************************************************************)
(* How often a task is queued.                                             *)
(***************************************************************************)
Places(task, tasks) == {i \in 1 .. Len(tasks) : tasks[i] = task}

Count(task, tasks) == Cardinality(Places(task, tasks))

LEMMA CountNat ==
  ASSUME NEW tasks \in Seq(Task), NEW task
  PROVE  /\ IsFiniteSet(Places(task, tasks)) /\ Count(task, tasks) \in Nat
         /\ In(task, tasks) <=> Count(task, tasks) > 0
<1>1. IsFiniteSet(1 .. Len(tasks))
  BY FS_Interval
<1>2. Places(task, tasks) \subseteq 1 .. Len(tasks)
  BY DEF Places
<1>3. IsFiniteSet(Places(task, tasks))
  BY <1>1, <1>2, FS_Subset
<1>4. Count(task, tasks) \in Nat /\ (Count(task, tasks) = 0 <=> Places(task, tasks) = {})
  BY <1>3, FS_CardinalityType, FS_EmptySet DEF Count
<1>5. In(task, tasks) <=> Places(task, tasks) # {}
  BY DEF In, Places
<1> QED  BY <1>3, <1>4, <1>5

LEMMA CountNone == \A task : Count(task, <<>>) = 0
<1>1. \A task : Places(task, <<>>) = {}
  BY DEF Places
<1> QED  BY <1>1, FS_EmptySet DEF Count

LEMMA CountAppend ==
  ASSUME NEW tasks \in Seq(Task), NEW last \in Task, NEW task
  PROVE  /\ Append(tasks, last) \in Seq(Task)
         /\ Count(task, Append(tasks, last))
               = Count(task, tasks) + (IF last = task THEN 1 ELSE 0)
<1> DEFINE all == Append(tasks, last)  n == Len(tasks) + 1
<1>1. all \in Seq(Task) /\ Len(all) = n /\ all[n] = last /\ Len(tasks) \in Nat
  OBVIOUS
<1>2. \A i \in 1 .. Len(tasks) : all[i] = tasks[i]
  OBVIOUS
<1>3. IsFiniteSet(Places(task, tasks)) /\ Count(task, tasks) \in Nat
  BY CountNat
<1>4. n \notin Places(task, tasks)
  BY <1>1 DEF Places
<1> HIDE DEF all
<1>5. CASE last = task
  <2>1. Places(task, all) = Places(task, tasks) \cup {n}
    BY <1>1, <1>2, <1>5 DEF Places
  <2>2. Cardinality(Places(task, tasks) \cup {n}) = Cardinality(Places(task, tasks)) + 1
    BY <1>3, <1>4, FS_AddElement
  <2> QED  BY <1>1, <2>1, <2>2, <1>5 DEF Count, all
<1>6. CASE last # task
  <2>1. Places(task, all) = Places(task, tasks)
    BY <1>1, <1>2, <1>6 DEF Places
  <2> QED  BY <1>1, <2>1, <1>3, <1>6 DEF Count, all
<1> QED  BY <1>5, <1>6

LEMMA CountTail ==
  ASSUME NEW tasks \in Seq(Task), tasks # <<>>, NEW task
  PROVE  Count(task, tasks)
            = Count(task, Tail(tasks)) + (IF Head(tasks) = task THEN 1 ELSE 0)
<1> DEFINE tail == Tail(tasks)
           after == Places(task, tasks) \ {1}
           shift == [i \in Places(task, tail) |-> i + 1]
<1>1. /\ Head(tasks) = tasks[1] /\ Len(tasks) \in Nat \ {0}
      /\ tail \in Seq(Task) /\ Len(tail) = Len(tasks) - 1
      /\ \A i \in 1 .. Len(tasks) - 1 : tail[i] = tasks[i + 1]
  OBVIOUS
<1> HIDE DEF tail
<1>2. IsFiniteSet(Places(task, tasks)) /\ IsFiniteSet(Places(task, tail))
      /\ Count(task, tail) \in Nat /\ Count(task, tasks) \in Nat
  BY <1>1, CountNat
<1>3. shift \in Bijection(Places(task, tail), after)
  <2>1. shift \in [Places(task, tail) -> after]
    BY <1>1 DEF Places
  <2>2. \A i, j \in Places(task, tail) : shift[i] = shift[j] => i = j
    BY DEF Places
  <2>3. \A j \in after : \E i \in Places(task, tail) : shift[i] = j
    <3>1. SUFFICES ASSUME NEW j \in after PROVE \E i \in Places(task, tail) : shift[i] = j
      OBVIOUS
    <3>2. j - 1 \in 1 .. Len(tasks) - 1 /\ tasks[j - 1 + 1] = task /\ j - 1 + 1 = j
      BY <1>1 DEF Places
    <3>3. j - 1 \in Places(task, tail)
      BY <1>1, <3>2 DEF Places
    <3> QED  BY <3>2, <3>3
  <2> HIDE DEF shift, after
  <2>4. shift \in Injection(Places(task, tail), after)
    BY <2>1, <2>2 DEF Injection, IsInjective
  <2>5. shift \in Surjection(Places(task, tail), after)
    BY <2>1, <2>3 DEF Surjection
  <2> QED  BY <2>4, <2>5 DEF Bijection
<1>4. Cardinality(after) = Count(task, tail)
  BY <1>2, <1>3, FS_Bijection DEF ExistsBijection, Count
<1>5. Cardinality(after) = IF 1 \in Places(task, tasks) THEN Count(task, tasks) - 1
                           ELSE Count(task, tasks)
  BY <1>2, FS_RemoveElement DEF Count
<1>6. 1 \in Places(task, tasks) <=> Head(tasks) = task
  BY <1>1 DEF Places
<1> QED  BY <1>2, <1>4, <1>5, <1>6 DEF tail

LEMMA CountDangling ==
  ASSUME NEW tasks \in Seq(Task), NEW task \in Task \ {"shutdown", "shutdownFreed"}
  PROVE  Count(task, Dangling(tasks)) = Count(task, tasks)
<1> DEFINE dangling == Dangling(tasks)
<1>1. dangling \in Seq(Task) /\ Len(dangling) = Len(tasks)
  BY DEF Dangling, Task
<1>2. \A i \in 1 .. Len(tasks) :
          dangling[i] = IF tasks[i] = "shutdown" THEN "shutdownFreed" ELSE tasks[i]
  BY DEF Dangling
<1> HIDE DEF dangling
<1>3. Places(task, dangling) = Places(task, tasks)
  BY <1>1, <1>2 DEF Places
<1> QED  BY <1>3 DEF Count, dangling
LEMMA CountOne ==
  ASSUME NEW first \in Task
  PROVE  \A task : Count(task, <<first>>) = IF first = task THEN 1 ELSE 0
<1>1. <<>> \in Seq(Task) /\ <<first>> = Append(<<>>, first)
  OBVIOUS
<1>2. ASSUME NEW task
      PROVE  Count(task, Append(<<>>, first))
                = Count(task, <<>>) + (IF first = task THEN 1 ELSE 0)
  BY <1>1, CountAppend
<1>3. ASSUME NEW task PROVE Count(task, <<first>>) = 0 + (IF first = task THEN 1 ELSE 0)
  BY <1>1, <1>2, CountNone, Zenon
<1> QED  BY <1>3

(* Nothing but shutdownConnection's task changes when its connection is    *)
(* released.                                                               *)
LEMMA FreedOnlyShutdown ==
  ASSUME NEW tasks \in Seq(Task), In("shutdownFreed", Dangling(tasks))
  PROVE  In("shutdown", tasks) \/ In("shutdownFreed", tasks)
BY DEF In, Dangling
-----------------------------------------------------------------------------
(***************************************************************************)
(* The order of disconnecting and connecting again.                        *)
(***************************************************************************)
Attempt == {"addTimer", "connected"}

(* doForceDisconnected's task was queued before any attempt to connect.    *)
Before(tasks) ==
    \A i, j \in 1 .. Len(tasks) :
        tasks[i] = "shutdownConnection" /\ tasks[j] \in Attempt => i < j

LEMMA BeforeNone == Before(<<>>)
  BY DEF Before

LEMMA BeforeAppend ==
  ASSUME NEW tasks \in Seq(Task), Before(tasks), NEW last \in Task,
         last = "shutdownConnection" => \A task \in Attempt : ~In(task, tasks)
  PROVE  Before(Append(tasks, last))
<1> DEFINE all == Append(tasks, last)  n == Len(tasks) + 1
<1>1. Len(all) = n /\ all[n] = last /\ Len(tasks) \in Nat
  OBVIOUS
<1>2. \A i \in 1 .. Len(tasks) : all[i] = tasks[i]
  OBVIOUS
<1> HIDE DEF all
<1>3. SUFFICES ASSUME NEW i \in 1 .. Len(all), NEW j \in 1 .. Len(all),
                      all[i] = "shutdownConnection", all[j] \in Attempt
               PROVE  i < j
  BY DEF Before, all
<1>4. i # j
  BY <1>3 DEF Attempt
<1>5. CASE i \in 1 .. Len(tasks) /\ j \in 1 .. Len(tasks)
  BY <1>2, <1>3, <1>5 DEF Before
<1>6. CASE i = n /\ j \in 1 .. Len(tasks)
  BY <1>1, <1>2, <1>3, <1>6 DEF In
<1>7. CASE j = n
  BY <1>1, <1>4, <1>7
<1> QED  BY <1>1, <1>4, <1>5, <1>6, <1>7

LEMMA BeforeTail ==
  ASSUME NEW tasks \in Seq(Task), tasks # <<>>, Before(tasks)
  PROVE  Before(Tail(tasks))
<1>1. /\ Len(tasks) \in Nat \ {0} /\ Len(Tail(tasks)) = Len(tasks) - 1
      /\ \A i \in 1 .. Len(tasks) - 1 : Tail(tasks)[i] = tasks[i + 1]
  OBVIOUS
<1> DEFINE tail == Tail(tasks)
<1> HIDE DEF tail
<1>2. SUFFICES ASSUME NEW i \in 1 .. Len(tail), NEW j \in 1 .. Len(tail),
                      tail[i] = "shutdownConnection", tail[j] \in Attempt
               PROVE  i < j
  BY DEF Before, tail
<1>3. /\ i + 1 \in 1 .. Len(tasks) /\ j + 1 \in 1 .. Len(tasks)
      /\ tasks[i + 1] = "shutdownConnection" /\ tasks[j + 1] \in Attempt
  BY <1>1, <1>2 DEF tail
<1>4. i + 1 < j + 1
  BY <1>3 DEF Before
<1> QED  BY <1>1, <1>2, <1>4 DEF tail

LEMMA BeforeHead ==
  ASSUME NEW tasks \in Seq(Task), tasks # <<>>, Before(tasks), Head(tasks) \in Attempt
  PROVE  ~In("shutdownConnection", tasks)
<1>1. 1 \in 1 .. Len(tasks) /\ Head(tasks) = tasks[1] /\ Len(tasks) \in Nat
  OBVIOUS
<1> QED  BY <1>1 DEF Before, In
-----------------------------------------------------------------------------
(***************************************************************************)
(* What each way to fail takes: how often a task waits.                    *)
(***************************************************************************)
Waiting(task) == Count(task, mPendingTasks) + Count(task, pendingTasks)

Bounded ==
    /\ mConnSocket \in SocketState \cup {"null"}
    /\ connSocket \in SocketState \cup {"null"}
    /\ retries \in 0 .. MaxRetries
    /\ view \in {"none", "connected", "disconnected"}
    /\ connects \in 0 .. MaxConnects /\ disconnects \in 0 .. MaxDisconnects
    /\ overlapped \in BOOLEAN
    /\ failure \in Failure

(* Every timer that is removed has fired.                                  *)
Timers == fired \in Nat /\ Waiting("removeTimer") <= fired

(* One attempt at a time, and its task finds the socket it connects.       *)
OneAttempt ==
    /\ armed + Waiting("addTimer") + Waiting("connected")
           <= IF mState \in {"Connected", "ForceDisconnected"} THEN 0 ELSE 1
    /\ Waits("connected") => mConnSocket # "null"

(* doForceDisconnected's task comes before any attempt to connect again,   *)
(* and finds the connection.                                               *)
ShutdownFirst ==
    Waits("shutdownConnection") =>
    /\ connState # "null" /\ mState \in {"ForceDisconnected", "Connecting"} /\ armed = 0
    /\ Before(mPendingTasks) /\ Before(pendingTasks)
    /\ In("shutdownConnection", mPendingTasks) => \A task \in Attempt : ~In(task, pendingTasks)

(* What only a disconnect queues.                                          *)
Alone ==
    \A task \in {"force", "shutdownConnection", "shutdown", "shutdownFreed"} : ~Waits(task)

(* A client left alone: its connection is closed once, by the peer, and    *)
(* destroyed once.                                                         *)
Undisturbed ==
    /\ mState # "ForceDisconnected"
    /\ connState # "null" <=> mState = "Connected"
    /\ connState # "HalfClosed"
    /\ Waiting("disconnect") = IF connState = "DisConnected" THEN 1 ELSE 0
    /\ connState = "DisConnected" => revents = "none" /\ loopPc # "poll"
    /\ loopPc = "run" => ~In("disconnect", mPendingTasks)

Causes ==
    /\ Bounded /\ Timers /\ FailureCauses
    /\ disconnects = 0 => Alone
    /\ failure = "none" /\ ~overlapped => OneAttempt /\ ShutdownFirst
    /\ failure = "none" /\ disconnects = 0 => Undisturbed

Counted(tasks) ==
    \A task : Count(task, tasks) \in Nat /\ (In(task, tasks) <=> Count(task, tasks) > 0)

LEMMA Counting ==
  ASSUME NEW tasks \in Seq(Task) PROVE Counted(tasks)
BY CountNat DEF Counted

LEMMA QueueOne ==
  ASSUME Types, NEW first \in Task, Queue(<<first>>)
  PROVE  /\ mPendingTasks' \in Seq(Task) /\ mPendingTasks' = Append(mPendingTasks, first)
         /\ \A task : Count(task, mPendingTasks')
                         = Count(task, mPendingTasks) + (IF first = task THEN 1 ELSE 0)
<1>1. mPendingTasks \in Seq(Task) /\ mPendingTasks' = Append(mPendingTasks, first)
  BY DEF Types, Queue
<1> QED  BY <1>1, CountAppend

LEMMA QueueTwo ==
  ASSUME Types, NEW first \in Task, NEW second \in Task, Queue(<<first>> \o <<second>>)
  PROVE  /\ mPendingTasks' \in Seq(Task)
         /\ mPendingTasks' = Append(Append(mPendingTasks, first), second)
         /\ \A task : Count(task, mPendingTasks') = Count(task, mPendingTasks)
                         + (IF first = task THEN 1 ELSE 0) + (IF second = task THEN 1 ELSE 0)
<1>1. /\ mPendingTasks \in Seq(Task)
      /\ mPendingTasks' = Append(Append(mPendingTasks, first), second)
  BY DEF Types, Queue
<1>2. Append(mPendingTasks, first) \in Seq(Task)
  BY <1>1
<1>3. \A task : Count(task, Append(mPendingTasks, first))
                   = Count(task, mPendingTasks) + (IF first = task THEN 1 ELSE 0)
  BY <1>1, CountAppend
<1>4. \A task : Count(task, mPendingTasks')
                   = Count(task, Append(mPendingTasks, first)) + (IF second = task THEN 1 ELSE 0)
  BY <1>1, <1>2, CountAppend
<1>5. mPendingTasks' \in Seq(Task)
  BY <1>1, <1>2
<1> QED  BY <1>1, <1>3, <1>4, <1>5

(* One attempt begins, or none; a timer that fired is removed.             *)
Begins(begun, ends) ==
    /\ mPendingTasks' \in Seq(Task)
    /\ \A task \in Task : Count(task, mPendingTasks') = Count(task, mPendingTasks)
           + (IF begun = task THEN 1 ELSE 0) + (IF ends = task THEN 1 ELSE 0)
    /\ Before(mPendingTasks) => Before(mPendingTasks')
    /\ mState' = IF mState = "Connected" THEN "Connected" ELSE "Connecting"
    /\ mState = "Connected" => begun = "none"
    /\ begun = "connected" => mConnSocket' # "null"
    /\ begun = "none" => mConnSocket' = mConnSocket \/ failure' # "none"
    /\ mConnSocket' \in SocketState \cup {"null"}
    /\ retries' \in 0 .. MaxRetries
    /\ failure' \in {"none", "gaveUp"}

LEMMA AttemptCounts ==
  ASSUME Types, Bounded, failure = "none",
         NEW ends \in {"none", "removeTimer"},
         NEW later, later = IF ends = "none" THEN <<>> ELSE <<ends>>,
         TransConnecting(later)
  PROVE  \E begun \in Attempt \cup {"none"}, ended \in {"none", ends} : Begins(begun, ended)
<1>1. {"addTimer", "connected", "removeTimer"} \subseteq Task /\ "none" \notin Task
  BY DEF Task
<1>2. mPendingTasks \in Seq(Task) /\ mState # "none"
  BY DEF Types
<1>3. ASSUME UNCHANGED mPendingTasks
      PROVE  \A task \in Task : Count(task, mPendingTasks') = Count(task, mPendingTasks)
                + (IF "none" = task THEN 1 ELSE 0) + (IF "none" = task THEN 1 ELSE 0)
  BY <1>1, <1>2, <1>3, Counting DEF Counted
<1>4. ASSUME NEW begun \in Attempt, Queue(<<begun>> \o later)
      PROVE  /\ mPendingTasks' \in Seq(Task)
             /\ \A task \in Task : Count(task, mPendingTasks') = Count(task, mPendingTasks)
                   + (IF begun = task THEN 1 ELSE 0) + (IF ends = task THEN 1 ELSE 0)
             /\ Before(mPendingTasks) => Before(mPendingTasks')
  <2>1. begun \in Task /\ begun # "shutdownConnection"
    BY <1>1 DEF Attempt
  <2>2. CASE ends = "none"
    <3>1. Queue(<<begun>>)
      BY <1>4, <2>2 DEF Queue
    <3>2. Before(mPendingTasks) => Before(mPendingTasks')
      BY <3>1, <2>1, <1>2, QueueOne, BeforeAppend
    <3>3. \A task \in Task : Count(task, mPendingTasks')
                                = Count(task, mPendingTasks) + (IF begun = task THEN 1 ELSE 0)
      BY <3>1, <2>1, QueueOne
    <3>4. \A task \in Task : Count(task, mPendingTasks) \in Nat
      BY <1>2, Counting DEF Counted
    <3> QED  BY <3>1, <3>2, <3>3, <3>4, <2>1, <2>2, <1>1, QueueOne
  <2>3. CASE ends = "removeTimer"
    <3>1. Queue(<<begun>> \o <<ends>>) /\ ends \in Task /\ ends # "shutdownConnection"
      BY <1>1, <1>4, <2>3
    <3>2. Append(mPendingTasks, begun) \in Seq(Task)
      BY <1>2, <2>1
    <3>3. Before(mPendingTasks) => Before(mPendingTasks')
      BY <3>1, <3>2, <2>1, <1>2, QueueTwo, BeforeAppend
    <3> QED  BY <3>1, <3>3, <2>1, QueueTwo
  <2> QED  BY <2>2, <2>3
<1>5. CASE ~Allowed("Connecting")
  <2>1. mState = "Connected" /\ Queue(later) /\ UNCHANGED <<mState, mConnSocket, retries, failure>>
    BY <1>5 DEF Allowed, TransConnecting
  <2>2. CASE ends = "none"
    <3>1. UNCHANGED mPendingTasks
      BY <2>1, <2>2, <1>2 DEF Queue
    <3>2. Begins("none", "none")
      BY <1>2, <1>3, <2>1, <3>1 DEF Begins, Bounded
    <3> QED  BY <3>2
  <2>3. CASE ends = "removeTimer"
    <3>1. Queue(<<ends>>) /\ ends \in Task /\ ends # "shutdownConnection"
      BY <1>1, <2>1, <2>3
    <3>2. Before(mPendingTasks) => Before(mPendingTasks')
      BY <3>1, <1>2, QueueOne, BeforeAppend
    <3>3. /\ mPendingTasks' \in Seq(Task)
          /\ \A task \in Task : Count(task, mPendingTasks')
                = Count(task, mPendingTasks) + (IF ends = task THEN 1 ELSE 0)
          /\ \A task \in Task : Count(task, mPendingTasks) \in Nat
      BY <3>1, <1>2, QueueOne, Counting DEF Counted
    <3>4. Begins("none", ends)
      BY <1>1, <2>1, <3>2, <3>3 DEF Begins, Bounded
    <3> QED  BY <3>4
  <2> QED  BY <2>2, <2>3
<1>6. CASE Allowed("Connecting")
  <2>1. mState # "Connected" /\ mState' = "Connecting" /\ doConnecting(later)
    BY <1>6 DEF Allowed, TransConnecting
  <2>2. CASE /\ mConnSocket' \in {"connecting", "established"}
             /\ Queue(<<"connected">> \o later) /\ UNCHANGED <<retries, failure>>
    <3>1. Begins("connected", ends)
      BY <1>4, <2>1, <2>2 DEF Begins, Bounded, SocketState, Attempt
    <3> QED  BY <3>1 DEF Attempt
  <2>3. CASE mConnSocket' \in {"null", "dead"} /\ retry(later)
    <3>1. CASE /\ retries < MaxRetries /\ retries' = retries + 1
               /\ Queue(<<"addTimer">> \o later) /\ UNCHANGED failure
      <4>1. retries' \in 0 .. MaxRetries
        BY <3>1, ClientAssumption DEF Bounded
      <4>2. Begins("addTimer", ends)
        BY <1>4, <2>1, <2>3, <3>1, <4>1 DEF Begins, SocketState, Attempt
      <4> QED  BY <4>2 DEF Attempt
    <3>2. CASE failure' = "gaveUp" /\ UNCHANGED <<retries, mPendingTasks>>
      <4>1. Begins("none", "none")
        BY <1>2, <1>3, <2>1, <2>3, <3>2 DEF Begins, Bounded, SocketState
      <4> QED  BY <4>1
    <3> QED  BY <2>3, <3>1, <3>2 DEF retry
  <2> QED  BY <2>1, <2>2, <2>3 DEF doConnecting
<1> QED  BY <1>5, <1>6
-----------------------------------------------------------------------------
LEMMA CausesInitially == Init => Causes
<1> SUFFICES ASSUME Init PROVE Causes
  OBVIOUS
<1>1. \A task : ~Waits(task) /\ Waiting(task) = 0
  BY InNone, CountNone DEF Init, Waits, Waiting
<1>2. ~In("disconnect", <<>>)
  BY InNone
<1>3. Bounded
  <2>1. 0 \in 0 .. MaxRetries /\ 0 \in 0 .. MaxConnects /\ 0 \in 0 .. MaxDisconnects
    BY ClientAssumption
  <2> QED  BY <2>1 DEF Init, Bounded, Failure
<1> QED  BY <1>1, <1>2, <1>3 DEF Init, Causes, Timers, OneAttempt, ShutdownFirst, Alone, Undisturbed,
             FailureCauses

LEMMA TasksCounted ==
  ASSUME Types PROVE Counted(mPendingTasks) /\ Counted(pendingTasks)
BY Counting DEF Types

LEMMA KernelCauses ==
  ASSUME IInv, Causes, failure = "none", SocketChanges PROVE Causes'
<1>1. mConnSocket' \in SocketState \cup {"null"} /\ connSocket' \in SocketState \cup {"null"}
      /\ (mConnSocket # "null" => mConnSocket' # "null")
  BY DEF SocketChanges, Progress, SocketState, Causes, Bounded
<1> QED  BY <1>1 DEF SocketChanges, Causes, Bounded, Timers, OneAttempt, ShutdownFirst, Alone,
             Undisturbed, FailureCauses, Waits, Waiting, loopVars, timerVars, callVars

LEMMA ConnectCauses ==
  ASSUME IInv, Causes, failure = "none", connect PROVE Causes'
<1>1. UNCHANGED <<loopPc, revents, expired, pendingTasks, armed, fired, connState, connSocket, view,
                  disconnects>>
      /\ connects' = connects + 1 /\ connects < MaxConnects
      /\ overlapped' = (overlapped \/ Attempting)
  BY DEF connect, loopVars, timerVars, connVars
<1>2. PICK begun \in Attempt \cup {"none"} : Begins(begun, "none")
  BY AttemptCounts DEF connect, IInv, Causes
<1>3. Counted(mPendingTasks) /\ Counted(pendingTasks) /\ Counted(mPendingTasks')
  BY <1>2, TasksCounted, Counting DEF IInv, Begins
<1>4. \A task \in Task : Count(task, mPendingTasks')
                            = Count(task, mPendingTasks) + (IF begun = task THEN 1 ELSE 0)
  <2> SUFFICES ASSUME NEW task \in Task
               PROVE  Count(task, mPendingTasks')
                          = Count(task, mPendingTasks) + (IF begun = task THEN 1 ELSE 0)
    OBVIOUS
  <2>1. Count(task, mPendingTasks) \in Nat
    BY <1>3 DEF Counted
  <2>2. "none" # task
    BY DEF Task
  <2>3. Count(task, mPendingTasks') = Count(task, mPendingTasks)
            + (IF begun = task THEN 1 ELSE 0) + (IF "none" = task THEN 1 ELSE 0)
    BY <1>2 DEF Begins
  <2> QED  BY <2>1, <2>2, <2>3
<1>5. \A task \in Task \ Attempt : Waiting(task)' = Waiting(task) /\ (Waits(task)' <=> Waits(task))
                                   /\ (In(task, mPendingTasks') <=> In(task, mPendingTasks))
  BY <1>1, <1>2, <1>3, <1>4 DEF Waiting, Waits, Counted, Task, Attempt
<1>6. Bounded'
  BY <1>1, <1>2, ClientAssumption DEF Causes, Bounded, Begins, Failure
<1>7. Timers' /\ FailureCauses' /\ (disconnects' = 0 => Alone')
  BY <1>1, <1>2, <1>5 DEF Causes, Timers, FailureCauses, Alone, Begins, Task, Attempt
<1>8. ASSUME failure' = "none", ~overlapped' PROVE OneAttempt' /\ ShutdownFirst'
  <2>1. ~Attempts /\ ~overlapped
    BY <1>1, <1>8, AttemptingIsAttempts DEF IInv
  <2>2. armed = 0 /\ Waiting("addTimer") = 0 /\ Waiting("connected") = 0
    BY <2>1, <1>3 DEF IInv, Types, Attempts, Waits, Waiting, Counted
  <2>3. Waiting("addTimer")' + Waiting("connected")' <= 1
        /\ (begun = "none" => Waiting("addTimer")' + Waiting("connected")' = 0)
        /\ (Waits("connected")' => begun = "connected")
    BY <2>2, <1>1, <1>2, <1>3, <1>4 DEF Waits, Waiting, Counted, Task, Attempt
  <2>4. OneAttempt'
    BY <2>2, <2>3, <1>1, <1>2, <1>3 DEF OneAttempt, Begins, Waiting, Counted
  <2>5. ShutdownFirst'
    BY <2>1, <1>1, <1>2, <1>5 DEF ShutdownFirst, Causes, Begins, Task, Attempt
  <2> QED  BY <2>4, <2>5
<1>9. ASSUME failure' = "none", disconnects' = 0 PROVE Undisturbed'
  BY <1>1, <1>2, <1>5, <1>9 DEF Causes, Undisturbed, Begins, Task, Attempt
<1> QED  BY <1>6, <1>7, <1>8, <1>9 DEF Causes

LEMMA DisconnectCauses ==
  ASSUME IInv, Causes, failure = "none", disconnect PROVE Causes'
<1>1. UNCHANGED <<loopPc, revents, expired, pendingTasks, armed, fired, mState, mConnSocket,
                  connState, connSocket, view, retries, connects, overlapped, failure>>
      /\ disconnects' = disconnects + 1 /\ disconnects < MaxDisconnects
  BY DEF disconnect, loopVars, timerVars, connVars
<1>2. /\ mPendingTasks' \in Seq(Task)
      /\ \A task \in Task \ {"force"} : Count(task, mPendingTasks') = Count(task, mPendingTasks)
      /\ Before(mPendingTasks) => Before(mPendingTasks')
  <2>1. mPendingTasks \in Seq(Task) /\ "force" \in Task
    BY DEF IInv, Types, Task
  <2>2. CASE Queue(<<>>)
    BY <2>1, <2>2 DEF Queue
  <2>3. CASE Queue(<<"force">>)
    <3>1. Before(mPendingTasks) => Before(mPendingTasks')
      BY <2>1, <2>3, QueueOne, BeforeAppend DEF IInv
    <3>2. mPendingTasks' \in Seq(Task) /\ Counted(mPendingTasks)
          /\ \A task \in Task : Count(task, mPendingTasks')
                = Count(task, mPendingTasks) + (IF "force" = task THEN 1 ELSE 0)
      BY <2>1, <2>3, QueueOne, Counting DEF IInv
    <3> QED  BY <3>1, <3>2 DEF Counted
  <2> QED  BY <2>2, <2>3 DEF disconnect
<1>3. Counted(mPendingTasks) /\ Counted(mPendingTasks')
  BY <1>2, TasksCounted, Counting DEF IInv
<1>4. \A task \in Task \ {"force"} :
          Waiting(task)' = Waiting(task) /\ (Waits(task)' <=> Waits(task))
          /\ (In(task, mPendingTasks') <=> In(task, mPendingTasks))
  BY <1>1, <1>2, <1>3 DEF Waiting, Waits, Counted
<1>5. disconnects' \in 0 .. MaxDisconnects /\ disconnects' # 0
  BY <1>1, ClientAssumption DEF Causes, Bounded
<1>6. Bounded' /\ Timers' /\ FailureCauses'
  BY <1>1, <1>4, <1>5 DEF Causes, Bounded, Timers, FailureCauses, Task
<1>7. ASSUME failure' = "none", ~overlapped' PROVE OneAttempt' /\ ShutdownFirst'
  BY <1>1, <1>2, <1>4, <1>7 DEF Causes, OneAttempt, ShutdownFirst, Task, Attempt
<1> QED  BY <1>5, <1>6, <1>7 DEF Causes

LEMMA PollCauses ==
  ASSUME IInv, Causes, failure = "none", Poll PROVE Causes'
<1>1. /\ UNCHANGED <<mPendingTasks, pendingTasks, armed, fired, mState, mConnSocket, connState,
                     connSocket, view, retries, connects, disconnects, overlapped, failure>>
      /\ loopPc = "poll" /\ loopPc' = "dispatch"
  BY DEF Poll, timerVars, connVars, callVars
<1> QED  BY <1>1 DEF Causes, Bounded, Timers, OneAttempt, ShutdownFirst, Alone, Undisturbed,
             FailureCauses, Waits, Waiting

LEMMA TimerCauses ==
  ASSUME IInv, Causes, failure = "none", HandleTimer PROVE Causes'
<1>1. /\ UNCHANGED <<loopPc, revents, pendingTasks, connState, connSocket, view, connects,
                     disconnects, overlapped>>
      /\ armed' = armed - 1 /\ fired' = fired + 1 /\ armed > 0
      /\ loopPc = "dispatch"
  BY DEF HandleTimer, connVars, callVars, IInv, Types
<1>2. PICK begun \in Attempt \cup {"none"}, ended \in {"none", "removeTimer"} : Begins(begun, ended)
  BY AttemptCounts DEF HandleTimer, IInv, Causes
<1>3. Counted(mPendingTasks) /\ Counted(pendingTasks) /\ Counted(mPendingTasks')
  BY <1>2, TasksCounted, Counting DEF IInv, Begins
<1>4. \A task \in Task \ Attempt : Count(task, mPendingTasks')
          = Count(task, mPendingTasks) + (IF ended = task THEN 1 ELSE 0)
  <2>1. \A task \in Task \ Attempt : begun # task /\ Count(task, mPendingTasks) \in Nat
    BY <1>3 DEF Counted, Task
  <2> QED  BY <1>2, <2>1 DEF Begins
<1>5. \A task \in Task \ (Attempt \cup {"removeTimer"}) :
          Waiting(task)' = Waiting(task) /\ (Waits(task)' <=> Waits(task))
          /\ (In(task, mPendingTasks') <=> In(task, mPendingTasks))
  <2>1. \A task \in Task \ (Attempt \cup {"removeTimer"}) :
            ended # task /\ Count(task, mPendingTasks) \in Nat
    BY <1>3 DEF Counted, Task
  <2>2. \A task \in Task \ (Attempt \cup {"removeTimer"}) :
            Count(task, mPendingTasks') = Count(task, mPendingTasks)
    BY <1>4, <2>1
  <2> QED  BY <1>1, <1>3, <2>2 DEF Waiting, Waits, Counted
<1>6. Bounded'
  BY <1>1, <1>2 DEF Causes, Bounded, Begins, Failure
<1>7. Timers'
  <2>1. "removeTimer" \in Task \ Attempt
    BY DEF Attempt, Task
  <2>2. Waiting("removeTimer")' <= Waiting("removeTimer") + 1 /\ Waiting("removeTimer") \in Nat
        /\ Waiting("removeTimer")' \in Nat
    BY <2>1, <1>1, <1>3, <1>4 DEF Waiting, Counted
  <2> QED  BY <1>1, <2>2 DEF Causes, Timers
<1>8. FailureCauses' /\ (disconnects' = 0 => Alone')
  BY <1>1, <1>2, <1>5 DEF Causes, FailureCauses, Alone, Begins, Task, Attempt
<1>9. ASSUME failure' = "none", ~overlapped' PROVE OneAttempt' /\ ShutdownFirst'
  <2>1. OneAttempt /\ ShutdownFirst
    BY <1>1, <1>9 DEF Causes
  <2>2. armed = 1 /\ Waiting("addTimer") = 0 /\ Waiting("connected") = 0
        /\ mState \notin {"Connected", "ForceDisconnected"}
    BY <2>1, <1>1, <1>3 DEF OneAttempt, Waiting, Counted, IInv, Types
  <2>3. Waiting("addTimer")' + Waiting("connected")' <= 1
        /\ Waiting("addTimer")' \in Nat /\ Waiting("connected")' \in Nat
        /\ (Waits("connected")' => begun = "connected")
    <3>1. \A task \in Attempt :
              /\ Count(task, mPendingTasks) = 0 /\ Count(task, pendingTasks) = 0
              /\ Count(task, mPendingTasks') \in Nat
      BY <2>2, <1>3 DEF Waiting, Counted, Attempt
    <3>2. \A task \in Attempt : Count(task, mPendingTasks') = IF begun = task THEN 1 ELSE 0
      <4>1. \A task \in Attempt : task \in Task /\ ended # task
        BY DEF Attempt, Task
      <4>2. \A task \in Task : Count(task, mPendingTasks') = Count(task, mPendingTasks)
                + (IF begun = task THEN 1 ELSE 0) + (IF ended = task THEN 1 ELSE 0)
        BY <1>2 DEF Begins
      <4> QED  BY <3>1, <4>1, <4>2
    <3>3. \A task \in Attempt : Waiting(task)' = (IF begun = task THEN 1 ELSE 0)
                                /\ (Waits(task)' => begun = task)
      BY <1>1, <1>3, <3>1, <3>2 DEF Waiting, Waits, Counted
    <3> QED  BY <3>3 DEF Attempt
  <2>4. OneAttempt'
    BY <2>2, <2>3, <1>1, <1>2 DEF OneAttempt, Begins, IInv, Types
  <2>5. ShutdownFirst'
    BY <2>1, <2>2, <1>1, <1>5 DEF ShutdownFirst, Task, Attempt
  <2> QED  BY <2>4, <2>5
<1>10. ASSUME failure' = "none", disconnects' = 0 PROVE Undisturbed'
  BY <1>1, <1>2, <1>5, <1>10 DEF Causes, Undisturbed, Begins, Task, Attempt
<1> QED  BY <1>6, <1>7, <1>8, <1>9, <1>10 DEF Causes

LEMMA EventCauses ==
  ASSUME IInv, Causes, failure = "none", HandleEvent PROVE Causes'
<1>1. /\ UNCHANGED <<loopPc, expired, pendingTasks, armed, fired, mState, mConnSocket, retries,
                     connects, disconnects, overlapped>>
      /\ loopPc = "dispatch" /\ pendingTasks = <<>> /\ revents' = "none"
  BY DEF HandleEvent, timerVars, callVars, IInv, Looping
<1>2. connSocket' \in SocketState \cup {"null"}
  BY DEF HandleEvent, handleError, handleRead, connVars, Causes, Bounded, SocketState
<1>3. CASE handleError /\ UNCHANGED <<mPendingTasks, connState, view, failure>>
  BY <1>1, <1>2, <1>3 DEF Causes, Bounded, Timers, OneAttempt, ShutdownFirst, Alone, Undisturbed,
                          FailureCauses, Waits, Waiting
<1>4. CASE revents = "in" /\ handleRead
  <2>1. connState # "null"
    BY <1>4 DEF IInv, Looping
  <2>2. CASE failure' = "handleRead" /\ connState = "DisConnected"
             /\ UNCHANGED <<mPendingTasks, connVars>>
    <3>1. disconnects > 0
      BY <1>4, <2>2 DEF Causes, Bounded, Undisturbed
    <3> QED  BY <1>1, <1>2, <2>2, <3>1 DEF Causes, Bounded, Timers, FailureCauses, Alone, Waits,
                                          Waiting, connVars, Failure
  <2>3. CASE /\ connState # "DisConnected" /\ connState' = "DisConnected"
             /\ view' = "disconnected" /\ Queue(<<"disconnect">>) /\ UNCHANGED failure
    <3>1. "disconnect" \in Task
      BY DEF Task
    <3>2. /\ mPendingTasks' \in Seq(Task)
          /\ \A task : Count(task, mPendingTasks')
                = Count(task, mPendingTasks) + (IF "disconnect" = task THEN 1 ELSE 0)
      BY <2>3, <3>1, QueueOne DEF IInv
    <3>3. Before(mPendingTasks) => Before(mPendingTasks')
      BY <2>3, <3>1, QueueOne, BeforeAppend DEF IInv, Types
    <3>4. Counted(mPendingTasks) /\ Counted(mPendingTasks') /\ Counted(pendingTasks)
      BY <3>2, TasksCounted, Counting DEF IInv
    <3>5. \A task \in Task \ {"disconnect"} : Count(task, mPendingTasks') = Count(task, mPendingTasks)
      BY <3>2, <3>4 DEF Counted
    <3>6. \A task \in Task \ {"disconnect"} :
              Waiting(task)' = Waiting(task) /\ (Waits(task)' <=> Waits(task))
              /\ (In(task, mPendingTasks') <=> In(task, mPendingTasks))
      BY <1>1, <3>4, <3>5 DEF Waiting, Waits, Counted
    <3>7. Waiting("disconnect")' = Waiting("disconnect") + 1
      BY <1>1, <3>2, <3>4 DEF Waiting, Counted
    <3>8. Bounded' /\ Timers' /\ FailureCauses' /\ (disconnects' = 0 => Alone')
      BY <1>1, <1>2, <2>3, <3>6 DEF Causes, Bounded, Timers, FailureCauses, Alone, Task
    <3>9. ASSUME ~overlapped' PROVE OneAttempt' /\ ShutdownFirst'
      BY <1>1, <2>1, <2>3, <3>3, <3>6, <3>9 DEF Causes, OneAttempt, ShutdownFirst, Task, Attempt
    <3>10. ASSUME disconnects' = 0 PROVE Undisturbed'
      BY <1>1, <2>1, <2>3, <3>7, <3>10 DEF Causes, Undisturbed
    <3> QED  BY <3>8, <3>9, <3>10 DEF Causes
  <2> QED  BY <1>4, <2>2, <2>3 DEF handleRead, CloseCallback
<1> QED  BY <1>3, <1>4 DEF HandleEvent

LEMMA SwapCauses ==
  ASSUME IInv, Causes, failure = "none", SwapPendingTasks PROVE Causes'
<1>1. /\ pendingTasks = <<>> /\ pendingTasks' = mPendingTasks /\ mPendingTasks' = <<>>
      /\ loopPc' = "run" /\ revents = "none"
      /\ UNCHANGED <<revents, expired, armed, fired, mState, mConnSocket, connState, connSocket,
                     view, retries, connects, disconnects, overlapped, failure>>
  BY DEF SwapPendingTasks, IInv, Looping, timerVars, connVars, callVars
<1>2. Counted(mPendingTasks)
  BY TasksCounted DEF IInv
<1>3. \A task : Waiting(task)' = Waiting(task) /\ (Waits(task)' <=> Waits(task))
                /\ ~In(task, mPendingTasks')
  BY <1>1, <1>2, InNone, CountNone DEF Waits, Waiting, Counted
<1>4. Bounded' /\ Timers' /\ FailureCauses' /\ (disconnects' = 0 => Alone')
  BY <1>1, <1>3 DEF Causes, Bounded, Timers, FailureCauses, Alone
<1>5. ASSUME ~overlapped' PROVE OneAttempt' /\ ShutdownFirst'
  BY <1>1, <1>3, <1>5, BeforeNone DEF Causes, OneAttempt, ShutdownFirst
<1>6. ASSUME disconnects' = 0 PROVE Undisturbed'
  BY <1>1, <1>3, <1>6 DEF Causes, Undisturbed
<1> QED  BY <1>4, <1>5, <1>6 DEF Causes

LEMMA EndCauses ==
  ASSUME IInv, Causes, failure = "none", EndPendingTasks PROVE Causes'
<1>1. /\ pendingTasks = <<>> /\ loopPc = "run" /\ loopPc' = "poll"
      /\ UNCHANGED <<mPendingTasks, pendingTasks, revents, armed, fired, mState, mConnSocket,
                     connState, connSocket, view, retries, connects, disconnects, overlapped, failure>>
  BY DEF EndPendingTasks, timerVars, connVars, callVars
<1>2. Bounded' /\ Timers' /\ FailureCauses' /\ (disconnects' = 0 => Alone')
  BY <1>1 DEF Causes, Bounded, Timers, FailureCauses, Alone, Waits, Waiting
<1>3. ASSUME ~overlapped' PROVE OneAttempt' /\ ShutdownFirst'
  BY <1>1, <1>3 DEF Causes, OneAttempt, ShutdownFirst, Waits, Waiting
<1>4. ASSUME disconnects' = 0 PROVE Undisturbed'
  <2>1. ~In("disconnect", mPendingTasks) /\ Undisturbed
    BY <1>1, <1>4 DEF Causes, Undisturbed
  <2>2. Waiting("disconnect") = 0
    BY <1>1, <2>1, TasksCounted, CountNone DEF Waiting, Counted, IInv
  <2>3. connState # "DisConnected"
    BY <2>1, <2>2 DEF Undisturbed
  <2> QED  BY <1>1, <2>1, <2>3 DEF Undisturbed, Waiting
<1> QED  BY <1>2, <1>3, <1>4 DEF Causes

(* What is left of the tasks when the first runs.                          *)
LEMMA RunningCounts ==
  ASSUME IInv, RunTask
  PROVE  /\ pendingTasks \in Seq(Task) /\ pendingTasks # <<>>
         /\ Counted(mPendingTasks) /\ Counted(pendingTasks) /\ Counted(Tail(pendingTasks))
         /\ \A task : Count(task, pendingTasks)
                = Count(task, Tail(pendingTasks)) + (IF Head(pendingTasks) = task THEN 1 ELSE 0)
         /\ Before(pendingTasks) => Before(Tail(pendingTasks))
         /\ UNCHANGED <<loopPc, revents, connects, disconnects>>
         /\ overlapped => overlapped'
<1>1. pendingTasks \in Seq(Task) /\ pendingTasks # <<>>
  BY Running DEF IInv, Types
<1> QED  BY <1>1, Running, TasksCounted, Counting, CountTail, BeforeTail DEF IInv, RunTask

(* A task that only leaves the queue.                                      *)
LEMMA LeftCounts ==
  ASSUME IInv, RunTask, pendingTasks' \in {pendingTasks, Tail(pendingTasks)},
         UNCHANGED mPendingTasks
  PROVE  \A task : /\ Waiting(task)' \in Nat /\ Waiting(task)' <= Waiting(task)
                   /\ Waits(task)' => Waits(task)
                   /\ In(task, pendingTasks') => In(task, pendingTasks)
<1>1. ASSUME NEW task
      PROVE  /\ Count(task, pendingTasks') \in Nat
             /\ Count(task, pendingTasks') <= Count(task, pendingTasks)
             /\ In(task, pendingTasks') => In(task, pendingTasks)
  <2>1. CASE pendingTasks' = pendingTasks
    BY <2>1, RunningCounts DEF Counted
  <2>2. CASE pendingTasks' = Tail(pendingTasks)
    BY <2>2, RunningCounts DEF Counted
  <2> QED  BY <2>1, <2>2
<1>2. \A task : Count(task, mPendingTasks) \in Nat /\ Count(task, pendingTasks) \in Nat
  BY RunningCounts DEF Counted
<1> QED  BY <1>1, <1>2 DEF Waiting, Waits

LEMMA FailedCauses ==
  ASSUME IInv, Causes, RunTask, pendingTasks' \in {pendingTasks, Tail(pendingTasks)},
         UNCHANGED <<mPendingTasks, timerVars, connVars, mConnSocket, retries>>,
         failure' \in Failure \ {"none"}, FailureCauses'
  PROVE  Causes'
<1>1. overlapped' \in BOOLEAN
  BY DEF RunTask
<1>2. Bounded'
  BY <1>1, RunningCounts DEF Causes, Bounded, connVars
<1>3. Timers' /\ (disconnects' = 0 => Alone')
  <2>1. Waiting("removeTimer") \in Nat
    BY RunningCounts DEF Waiting, Counted
  <2> QED  BY <2>1, LeftCounts, RunningCounts DEF Causes, Timers, Alone, timerVars
<1> QED  BY <1>2, <1>3 DEF Causes

LEMMA RefusedCauses ==
  ASSUME IInv, Causes, failure = "none", RunTask, pendingTasks' = Tail(pendingTasks),
         UNCHANGED <<mPendingTasks, timerVars, connVars, mState, mConnSocket, retries, failure>>,
         Head(pendingTasks) = "disconnect" => mState # "Connected"
  PROVE  Causes'
<1>1. overlapped' \in BOOLEAN
  BY DEF RunTask
<1>2. Bounded' /\ FailureCauses'
  BY <1>1, RunningCounts DEF Causes, Bounded, FailureCauses, connVars
<1>3. \A task : Waiting(task) \in Nat
  BY RunningCounts DEF Waiting, Counted
<1>4. Timers' /\ (disconnects' = 0 => Alone')
  BY <1>3, LeftCounts, RunningCounts DEF Causes, Timers, Alone, timerVars
<1>5. ASSUME ~overlapped' PROVE OneAttempt' /\ ShutdownFirst'
  <2>1. OneAttempt /\ ShutdownFirst
    BY <1>5, RunningCounts DEF Causes
  <2>2. OneAttempt'
    BY <2>1, <1>3, LeftCounts DEF OneAttempt, timerVars, IInv, Types
  <2>3. ShutdownFirst'
    BY <2>1, LeftCounts, RunningCounts DEF ShutdownFirst, connVars, timerVars
  <2> QED  BY <2>2, <2>3
<1>6. ASSUME disconnects' = 0 PROVE Undisturbed'
  <2>1. Undisturbed
    BY <1>6, RunningCounts DEF Causes
  <2>2. Head(pendingTasks) # "disconnect"
    <3>1. Head(pendingTasks) = "disconnect" => Waiting("disconnect") > 0
      BY RunningCounts DEF Waiting, Counted
    <3> QED  BY <3>1, <2>1 DEF Undisturbed
  <2>3. Waiting("disconnect")' = Waiting("disconnect")
    BY <2>2, RunningCounts DEF Waiting, Counted
  <2> QED  BY <2>1, <2>3, RunningCounts DEF Undisturbed, connVars
<1> QED  BY <1>2, <1>4, <1>5, <1>6 DEF Causes

LEMMA ConnectedCauses ==
  ASSUME IInv, Causes, failure = "none", RunTask, UNCHANGED timerVars,
         Head(pendingTasks) = "connected", mState = "Connecting", doConnected
  PROVE  Causes'
<1>1. Waits("connected") /\ Waiting("connected") > 0
  BY RunningCounts, Running DEF Waits, Waiting, Counted
<1>2. CASE mConnSocket = "null" /\ Fails("badSocket")
  <2>1. overlapped'
    BY <1>1, <1>2, RunningCounts DEF Causes, OneAttempt
  <2>2. FailureCauses'
    BY <1>2, <2>1 DEF Fails, FailureCauses
  <2> QED  BY <1>2, <2>2, FailedCauses DEF Fails, Failure
<1>3. CASE Fails("socketError")
  BY <1>3, FailedCauses DEF Fails, Failure, FailureCauses
<1>4. CASE /\ mConnSocket \notin {"null", "failed"}
           /\ mState' = "Connected" /\ connSocket' = mConnSocket /\ mConnSocket' = "null"
           /\ connState' = "Connected" /\ view' = "connected" /\ retries' = 0
           /\ mPendingTasks' = Dangling(mPendingTasks)
           /\ pendingTasks' = Dangling(Tail(pendingTasks))
           /\ UNCHANGED failure
  <2>1. mPendingTasks \in Seq(Task) /\ Tail(pendingTasks) \in Seq(Task)
    BY Running DEF IInv, Types
  <2>2. /\ Counted(mPendingTasks') /\ Counted(pendingTasks')
        /\ \A task \in Task \ {"shutdown", "shutdownFreed"} :
              /\ Count(task, mPendingTasks') = Count(task, mPendingTasks)
              /\ Count(task, pendingTasks') = Count(task, Tail(pendingTasks))
    BY <1>4, <2>1, InDangling, CountDangling, Counting
  <2>3. \A task \in Task \ {"shutdown", "shutdownFreed", "connected"} :
            /\ Waiting(task)' = Waiting(task) /\ (Waits(task)' <=> Waits(task))
            /\ In(task, mPendingTasks') <=> In(task, mPendingTasks)
    BY <2>2, RunningCounts DEF Waiting, Waits, Counted
  <2>4. Waiting("connected")' = Waiting("connected") - 1
    BY <2>2, RunningCounts DEF Waiting, Counted, Task
  <2>5. Bounded'
    <3>1. overlapped' \in BOOLEAN /\ 0 \in 0 .. MaxRetries
      BY ClientAssumption DEF RunTask
    <3> QED  BY <1>4, <3>1, RunningCounts DEF Causes, Bounded
  <2>6. Timers' /\ FailureCauses'
    BY <1>4, <2>3, RunningCounts DEF Causes, Timers, FailureCauses, timerVars, Task
  <2>7. ASSUME disconnects' = 0 PROVE Alone'
    <3>1. Alone
      BY <2>7, RunningCounts DEF Causes
    <3>2. ~Waits("shutdown")' /\ ~Waits("shutdownFreed")'
      BY <3>1, <1>4, <2>1, Running, InDangling, FreedOnlyShutdown DEF Alone, Waits
    <3> QED  BY <3>1, <3>2, <2>3 DEF Alone, Task
  <2>8. ASSUME ~overlapped' PROVE OneAttempt' /\ ShutdownFirst'
    <3>1. OneAttempt /\ ShutdownFirst
      BY <2>8, RunningCounts DEF Causes
    <3>2. armed = 0 /\ Waiting("addTimer") = 0 /\ Waiting("connected") = 1
      BY <3>1, <1>1, RunningCounts DEF OneAttempt, Waiting, Counted, IInv, Types
    <3>3. Waiting("addTimer")' = 0 /\ Waiting("connected")' = 0 /\ ~Waits("connected")'
      BY <3>2, <2>2, <2>3, <2>4 DEF Waiting, Waits, Counted, Task
    <3>4. OneAttempt'
      BY <3>2, <3>3, <1>4 DEF OneAttempt, timerVars
    <3>5. ~Waits("shutdownConnection")
      <4>1. In("connected", pendingTasks) /\ "connected" \in Attempt
        BY Running DEF Attempt
      <4>2. Before(pendingTasks) => ~In("shutdownConnection", pendingTasks)
        BY <4>1, RunningCounts, BeforeHead
      <4> QED  BY <3>1, <4>1, <4>2 DEF ShutdownFirst, Waits
    <3>6. ShutdownFirst'
      BY <3>5, <2>3 DEF ShutdownFirst, Task
    <3> QED  BY <3>4, <3>6
  <2>9. ASSUME disconnects' = 0 PROVE Undisturbed'
    <3>1. Undisturbed
      BY <2>9, RunningCounts DEF Causes
    <3>2. Waiting("disconnect")' = 0
      BY <3>1, <2>3 DEF Undisturbed, Task
    <3>3. ~In("disconnect", mPendingTasks')
      BY <3>2, <2>2 DEF Waiting, Counted
    <3> QED  BY <1>4, <3>2, <3>3 DEF Undisturbed
  <2> QED  BY <2>5, <2>6, <2>7, <2>8, <2>9 DEF Causes
<1> QED  BY <1>2, <1>3, <1>4 DEF doConnected

LEMMA DisconnectedCauses ==
  ASSUME IInv, Causes, failure = "none", RunTask, UNCHANGED timerVars,
         Head(pendingTasks) = "disconnect", mState = "Connected", doDisconnected
  PROVE  Causes'
<1>1. Waiting("disconnect") > 0
  BY RunningCounts DEF Waiting, Counted
<1>2. CASE connState # "DisConnected" /\ Fails("destroyConnection")
  <2>1. disconnects # 0
    BY <1>1, <1>2 DEF Causes, Undisturbed
  <2>2. FailureCauses'
    BY <1>2, <2>1, RunningCounts DEF Fails, FailureCauses, Causes, Bounded
  <2> QED  BY <1>2, <2>2, FailedCauses DEF Fails, Failure
<1>3. CASE /\ connState = "DisConnected"
           /\ mState' = "Disconnect" /\ connState' = "null" /\ connSocket' = "null" /\ retries' = 1
           /\ mPendingTasks' = Append(Dangling(mPendingTasks), "addTimer")
           /\ pendingTasks' = Dangling(Tail(pendingTasks))
           /\ UNCHANGED <<mConnSocket, view, failure>>
  <2>1. /\ mPendingTasks \in Seq(Task) /\ Tail(pendingTasks) \in Seq(Task)
        /\ Dangling(mPendingTasks) \in Seq(Task) /\ "addTimer" \in Task
    BY Running, InDangling DEF IInv, Types, Task
  <2>2. /\ Counted(mPendingTasks') /\ Counted(pendingTasks')
        /\ \A task \in Task \ {"shutdown", "shutdownFreed"} :
              /\ Count(task, mPendingTasks')
                    = Count(task, mPendingTasks) + (IF "addTimer" = task THEN 1 ELSE 0)
              /\ Count(task, pendingTasks') = Count(task, Tail(pendingTasks))
    <3>1. mPendingTasks' \in Seq(Task) /\ pendingTasks' \in Seq(Task)
      BY <1>3, <2>1, InDangling, CountAppend
    <3>2. \A task : Count(task, mPendingTasks') = Count(task, Dangling(mPendingTasks))
                       + (IF "addTimer" = task THEN 1 ELSE 0)
      BY <1>3, <2>1, CountAppend
    <3>3. \A task \in Task \ {"shutdown", "shutdownFreed"} :
              /\ Count(task, Dangling(mPendingTasks)) = Count(task, mPendingTasks)
              /\ Count(task, pendingTasks') = Count(task, Tail(pendingTasks))
      BY <1>3, <2>1, CountDangling
    <3> QED  BY <3>1, <3>2, <3>3, Counting
  <2>3. \A task \in Task \ {"shutdown", "shutdownFreed", "disconnect", "addTimer"} :
            Waiting(task)' = Waiting(task) /\ (Waits(task)' <=> Waits(task))
    <3>1. \A task \in Task \ {"shutdown", "shutdownFreed", "disconnect", "addTimer"} :
              /\ Count(task, mPendingTasks') = Count(task, mPendingTasks)
              /\ Count(task, pendingTasks') = Count(task, pendingTasks)
      BY <2>2, RunningCounts DEF Counted
    <3> QED  BY <3>1, <2>2, RunningCounts DEF Waiting, Waits, Counted
  <2>4. /\ Waiting("disconnect")' = Waiting("disconnect") - 1
        /\ Waiting("addTimer")' = Waiting("addTimer") + 1
        /\ In("disconnect", mPendingTasks') <=> In("disconnect", mPendingTasks)
    <3>1. {"disconnect", "addTimer"} \subseteq Task \ {"shutdown", "shutdownFreed"}
      BY DEF Task
    <3>2. /\ Count("disconnect", mPendingTasks') = Count("disconnect", mPendingTasks)
          /\ Count("disconnect", pendingTasks') = Count("disconnect", pendingTasks) - 1
          /\ Count("addTimer", mPendingTasks') = Count("addTimer", mPendingTasks) + 1
          /\ Count("addTimer", pendingTasks') = Count("addTimer", pendingTasks)
      BY <2>2, <3>1, RunningCounts DEF Counted
    <3>3. \A task : Count(task, mPendingTasks) \in Nat /\ Count(task, pendingTasks) \in Nat
      BY RunningCounts DEF Counted
    <3>4. In("disconnect", mPendingTasks') <=> In("disconnect", mPendingTasks)
      BY <2>2, <3>2, RunningCounts DEF Counted
    <3> QED  BY <3>2, <3>3, <3>4 DEF Waiting
  <2>5. Bounded'
    <3>1. overlapped' \in BOOLEAN /\ 1 \in 0 .. MaxRetries
      BY ClientAssumption DEF RunTask
    <3> QED  BY <1>3, <3>1, RunningCounts DEF Causes, Bounded
  <2>6. Timers' /\ FailureCauses'
    BY <1>3, <2>3, RunningCounts DEF Causes, Timers, FailureCauses, timerVars, Task
  <2>7. ASSUME disconnects' = 0 PROVE Alone'
    <3>1. Alone
      BY <2>7, RunningCounts DEF Causes
    <3>2. Count("shutdownFreed", Dangling(mPendingTasks)) = 0
          /\ Count("shutdown", Dangling(mPendingTasks)) = 0
      BY <3>1, <2>1, InDangling, FreedOnlyShutdown, Counting DEF Alone, Waits, Counted
    <3>3. ~In("shutdown", mPendingTasks') /\ ~In("shutdownFreed", mPendingTasks')
      BY <3>2, <1>3, <2>1, <2>2, CountAppend DEF Counted
    <3>4. ~In("shutdown", pendingTasks') /\ ~In("shutdownFreed", pendingTasks')
      BY <3>1, <1>3, <2>1, Running, InDangling, FreedOnlyShutdown DEF Alone, Waits
    <3> QED  BY <3>1, <3>3, <3>4, <2>3 DEF Alone, Task, Waits
  <2>8. ASSUME ~overlapped' PROVE OneAttempt' /\ ShutdownFirst'
    <3>1. OneAttempt /\ ShutdownFirst
      BY <2>8, RunningCounts DEF Causes
    <3>2. armed = 0 /\ Waiting("addTimer") = 0 /\ Waiting("connected") = 0
      BY <3>1, RunningCounts DEF OneAttempt, Waiting, Counted, IInv, Types
    <3>3. OneAttempt'
      BY <3>2, <2>3, <2>4, <1>3, <2>2 DEF OneAttempt, timerVars, Task, Waits, Waiting, Counted
    <3>4. ShutdownFirst'
      BY <3>1, <2>3 DEF ShutdownFirst, Task
    <3> QED  BY <3>3, <3>4
  <2>9. ASSUME disconnects' = 0 PROVE Undisturbed'
    <3>1. Undisturbed
      BY <2>9, RunningCounts DEF Causes
    <3> QED  BY <1>3, <3>1, <2>4, RunningCounts DEF Undisturbed
  <2> QED  BY <2>5, <2>6, <2>7, <2>8, <2>9 DEF Causes
<1> QED  BY <1>2, <1>3 DEF doDisconnected

(* A task that queues another, of the kind only a disconnect does.         *)
LEMMA QueuesCounts ==
  ASSUME IInv, RunTask, pendingTasks' = Tail(pendingTasks),
         NEW queued \in {"shutdownConnection", "shutdown"}, Queue(<<queued>>)
  PROVE  /\ mPendingTasks' \in Seq(Task) /\ Counted(mPendingTasks')
         /\ mPendingTasks' = Append(mPendingTasks, queued)
         /\ \A task \in Task \ {queued} :
               /\ Waiting(task)' \in Nat /\ Waiting(task)' <= Waiting(task)
               /\ Waits(task)' => Waits(task)
               /\ In(task, mPendingTasks') <=> In(task, mPendingTasks)
<1>1. queued \in Task
  BY DEF Task
<1>2. /\ mPendingTasks' \in Seq(Task) /\ mPendingTasks' = Append(mPendingTasks, queued)
      /\ \A task : Count(task, mPendingTasks')
            = Count(task, mPendingTasks) + (IF queued = task THEN 1 ELSE 0)
  BY <1>1, QueueOne DEF IInv
<1>3. Counted(mPendingTasks')
  BY <1>2, Counting
<1>4. \A task \in Task \ {queued} : Count(task, mPendingTasks') = Count(task, mPendingTasks)
  BY <1>2, RunningCounts DEF Counted
<1> QED  BY <1>2, <1>3, <1>4, RunningCounts DEF Waiting, Waits, Counted

LEMMA ForceCauses ==
  ASSUME IInv, Causes, failure = "none", RunTask, UNCHANGED timerVars,
         Head(pendingTasks) = "force", mState \in {"Connecting", "Connected"}, doForceDisconnected
  PROVE  Causes'
<1>1. /\ mState' = "ForceDisconnected" /\ Queue(<<"shutdownConnection">>)
      /\ pendingTasks' = Tail(pendingTasks)
      /\ UNCHANGED <<mConnSocket, connVars, retries, failure>>
  BY DEF doForceDisconnected
<1>2. disconnects # 0
  BY Running DEF Causes, Alone, Waits
<1>3. Bounded'
  <2>1. overlapped' \in BOOLEAN
    BY DEF RunTask
  <2> QED  BY <1>1, <2>1, RunningCounts DEF Causes, Bounded, connVars
<1>4. Timers' /\ FailureCauses'
  <2>1. "removeTimer" \in Task \ {"shutdownConnection"} /\ Waiting("removeTimer") \in Nat
    BY RunningCounts DEF Waiting, Counted, Task
  <2> QED  BY <1>1, <2>1, QueuesCounts DEF Causes, Timers, FailureCauses, timerVars
<1>5. ASSUME ~overlapped' PROVE OneAttempt' /\ ShutdownFirst'
  <2>1. ~Attempts /\ ~overlapped /\ mState = "Connected"
    BY <1>5, Running, AttemptingIsAttempts DEF IInv, Awaits
  <2>2. armed = 0 /\ \A task \in Attempt : ~Waits(task) /\ Waiting(task) = 0
    BY <2>1, RunningCounts DEF Attempts, Attempt, Waits, Waiting, Counted, IInv, Types
  <2>3. Attempt \subseteq Task \ {"shutdownConnection"}
    BY DEF Attempt, Task
  <2>4. \A task \in Attempt : ~Waits(task)' /\ Waiting(task)' = 0
    BY <2>2, <2>3, <1>1, QueuesCounts
  <2>5. OneAttempt'
    BY <2>2, <2>4, <1>1 DEF OneAttempt, Attempt, timerVars
  <2>6. connState # "null" /\ ~Waits("shutdownConnection")
    BY <2>1, <1>5, RunningCounts DEF IInv, Awaits, Causes, ShutdownFirst
  <2>7. Before(mPendingTasks') /\ Before(pendingTasks')
    <3>1. "shutdownConnection" \in Task /\ mPendingTasks \in Seq(Task)
      BY DEF Task, IInv, Types
    <3>2. Before(mPendingTasks) /\ Before(pendingTasks)
      BY <2>6 DEF Before, Waits, In
    <3> QED  BY <3>1, <3>2, <2>2, <1>1, QueuesCounts, BeforeAppend, RunningCounts DEF Waits
  <2>8. ShutdownFirst'
    BY <2>2, <2>4, <2>6, <2>7, <1>1 DEF ShutdownFirst, Waits, connVars, timerVars
  <2> QED  BY <2>5, <2>8
<1> QED  BY <1>1, <1>2, <1>3, <1>4, <1>5, RunningCounts DEF Causes

LEMMA ShutdownConnectionCauses ==
  ASSUME IInv, Causes, failure = "none", RunTask, UNCHANGED <<mState, mConnSocket, retries>>,
         pendingTasks' = Tail(pendingTasks),
         Head(pendingTasks) = "shutdownConnection", ShutdownConnection
  PROVE  Causes'
<1>1. Waits("shutdownConnection") /\ disconnects # 0
  BY Running DEF Causes, Alone, Waits
<1>2. UNCHANGED timerVars /\ UNCHANGED connVars
  BY DEF ShutdownConnection
<1>3. CASE connState = "null" /\ failure' = "nullConnection" /\ UNCHANGED mPendingTasks
  <2>1. overlapped'
    BY <1>1, <1>3, RunningCounts DEF Causes, ShutdownFirst
  <2>2. FailureCauses'
    BY <1>1, <1>3, <2>1, RunningCounts DEF FailureCauses, Causes, Bounded
  <2> QED  BY <1>2, <1>3, <2>2, FailedCauses DEF Failure
<1>4. CASE Queue(<<"shutdown">>) /\ UNCHANGED failure
  <2>1. Bounded'
    <3>1. overlapped' \in BOOLEAN
      BY DEF RunTask
    <3> QED  BY <1>2, <1>4, <3>1, RunningCounts DEF Causes, Bounded, connVars
  <2>2. Timers' /\ FailureCauses'
    <3>1. "removeTimer" \in Task \ {"shutdown"} /\ Waiting("removeTimer") \in Nat
      BY RunningCounts DEF Waiting, Counted, Task
    <3> QED  BY <1>2, <1>4, <3>1, QueuesCounts DEF Causes, Timers, FailureCauses, timerVars
  <2>3. ASSUME ~overlapped' PROVE OneAttempt' /\ ShutdownFirst'
    <3>1. OneAttempt /\ ShutdownFirst
      BY <2>3, RunningCounts DEF Causes
    <3>2. {"addTimer", "connected", "shutdownConnection"} \subseteq Task \ {"shutdown"}
          /\ \A task : Waiting(task) \in Nat
      BY RunningCounts DEF Task, Waiting, Counted
    <3>3. OneAttempt'
      <4>1. /\ Waiting("addTimer")' \in Nat /\ Waiting("addTimer")' <= Waiting("addTimer")
            /\ Waiting("connected")' \in Nat /\ Waiting("connected")' <= Waiting("connected")
            /\ Waits("connected")' => Waits("connected")
        BY <3>2, <1>4, QueuesCounts
      <4>2. armed' = armed /\ armed \in Nat /\ mState' = mState /\ mConnSocket' = mConnSocket
        BY <1>2 DEF timerVars, IInv, Types
      <4> QED  BY <3>1, <3>2, <4>1, <4>2 DEF OneAttempt
    <3>4. Before(mPendingTasks) => Before(mPendingTasks')
      <4>1. "shutdown" \in Task /\ mPendingTasks \in Seq(Task)
        BY DEF Task, IInv, Types
      <4> QED  BY <4>1, <1>4, QueuesCounts, BeforeAppend
    <3>5. \A task : In(task, pendingTasks') => In(task, pendingTasks)
      BY Running
    <3>6. ShutdownFirst'
      BY <3>1, <3>2, <3>4, <3>5, <1>1, <1>2, <1>4, QueuesCounts, RunningCounts
         DEF ShutdownFirst, connVars, timerVars
    <3> QED  BY <3>3, <3>6
  <2> QED  BY <1>1, <1>4, <2>1, <2>2, <2>3, RunningCounts DEF Causes
<1> QED  BY <1>3, <1>4 DEF ShutdownConnection

LEMMA ShutdownCauses ==
  ASSUME IInv, Causes, failure = "none", RunTask, UNCHANGED <<mState, mConnSocket, retries>>,
         pendingTasks' = Tail(pendingTasks), Head(pendingTasks) = "shutdown", Shutdown
  PROVE  Causes'
<1>1. disconnects # 0 /\ connState # "null"
  BY Running DEF Causes, Alone, Waits, IInv, Told
<1>2. /\ UNCHANGED <<mPendingTasks, view, failure>> /\ UNCHANGED timerVars
      /\ connState' \in {connState, "HalfClosed"}
  BY DEF Shutdown, timerVars
<1>3. Bounded'
  <2>1. overlapped' \in BOOLEAN
    BY DEF RunTask
  <2>2. connSocket' \in SocketState \cup {"null"}
    BY DEF Shutdown, ShutDown, Causes, Bounded, SocketState
  <2> QED  BY <1>2, <2>1, <2>2, RunningCounts DEF Causes, Bounded
<1>4. \A task : Waiting(task) \in Nat
  BY RunningCounts DEF Waiting, Counted
<1>5. Timers' /\ FailureCauses'
  BY <1>2, <1>4, LeftCounts DEF Causes, Timers, FailureCauses, timerVars
<1>6. ASSUME ~overlapped' PROVE OneAttempt' /\ ShutdownFirst'
  <2>1. OneAttempt /\ ShutdownFirst
    BY <1>6, RunningCounts DEF Causes
  <2>2. OneAttempt'
    BY <2>1, <1>2, <1>4, LeftCounts DEF OneAttempt, timerVars, IInv, Types
  <2>3. ShutdownFirst'
    BY <2>1, <1>1, <1>2, LeftCounts, RunningCounts DEF ShutdownFirst, timerVars
  <2> QED  BY <2>2, <2>3
<1> QED  BY <1>1, <1>2, <1>3, <1>5, <1>6, RunningCounts DEF Causes

LEMMA TimersCauses ==
  ASSUME IInv, Causes, failure = "none", RunTask, UNCHANGED <<mState, mConnSocket, retries>>,
         pendingTasks' = Tail(pendingTasks),
         Head(pendingTasks) \in {"addTimer", "removeTimer"}, UpdateTimers(Head(pendingTasks))
  PROVE  Causes'
<1> DEFINE first == Head(pendingTasks)
<1>1. /\ armed' = IF first = "addTimer" THEN armed + 1 ELSE armed
      /\ fired' = IF first = "removeTimer" THEN fired - 1 ELSE fired
      /\ UNCHANGED <<mPendingTasks, failure>> /\ UNCHANGED connVars
  BY DEF UpdateTimers
<1>2. Bounded'
  <2>1. overlapped' \in BOOLEAN
    BY DEF RunTask
  <2> QED  BY <1>1, <2>1, RunningCounts DEF Causes, Bounded, connVars
<1>3. \A task : /\ Waiting(task) \in Nat
                /\ Waiting(task)' = Waiting(task) - (IF first = task THEN 1 ELSE 0)
  <2>1. \A task : Count(task, mPendingTasks') = Count(task, mPendingTasks)
    BY <1>1
  <2> QED  BY <2>1, RunningCounts DEF Waiting, Counted
<1>4. \A task : Waits(task)' => Waits(task)
  BY <1>1, LeftCounts
<1>5. Timers'
  <2>1. Waiting("removeTimer") <= fired /\ fired \in Nat
    BY DEF Causes, Timers
  <2>2. Waiting("removeTimer") \in Nat
        /\ (first = "removeTimer" => Waiting("removeTimer") > 0)
    <3>1. Count("removeTimer", Tail(pendingTasks)) \in Nat /\ Count("removeTimer", mPendingTasks) \in Nat
      BY RunningCounts DEF Counted
    <3> QED  BY <3>1, <1>3, RunningCounts DEF Waiting
  <2>3. Waiting("removeTimer")' = Waiting("removeTimer") - (IF first = "removeTimer" THEN 1 ELSE 0)
    BY <1>3
  <2> QED  BY <1>1, <2>1, <2>2, <2>3 DEF Timers
<1>6. FailureCauses' /\ (disconnects' = 0 => Alone')
  BY <1>1, <1>4, RunningCounts DEF Causes, FailureCauses, Alone
<1>7. ASSUME ~overlapped' PROVE OneAttempt' /\ ShutdownFirst'
  <2>1. OneAttempt /\ ShutdownFirst
    BY <1>7, RunningCounts DEF Causes
  <2>2. armed' + Waiting("addTimer")' + Waiting("connected")'
           = armed + Waiting("addTimer") + Waiting("connected")
    <3>1. Waiting("addTimer")' = Waiting("addTimer") - (IF first = "addTimer" THEN 1 ELSE 0)
          /\ Waiting("connected")' = Waiting("connected") - (IF first = "connected" THEN 1 ELSE 0)
          /\ Waiting("addTimer") \in Nat /\ Waiting("connected") \in Nat
      BY <1>3
    <3> QED  BY <1>1, <3>1 DEF IInv, Types
  <2>3. OneAttempt'
    BY <2>1, <2>2, <1>4 DEF OneAttempt
  <2>4. first = "addTimer" => ~Waits("shutdownConnection")
    <3>1. ASSUME first = "addTimer" PROVE ~Waits("shutdownConnection")
      <4>1. In("addTimer", pendingTasks) /\ "addTimer" \in Attempt
        BY <3>1, Running DEF Attempt
      <4>2. Before(pendingTasks) => ~In("shutdownConnection", pendingTasks)
        BY <3>1, <4>1, RunningCounts, BeforeHead
      <4> QED  BY <2>1, <4>1, <4>2 DEF ShutdownFirst, Waits
    <3> QED  BY <3>1
  <2>5. ShutdownFirst'
    BY <2>1, <2>4, <1>1, <1>4, LeftCounts, RunningCounts DEF ShutdownFirst, connVars
  <2> QED  BY <2>3, <2>5
<1>8. ASSUME disconnects' = 0 PROVE Undisturbed'
  <2>1. Undisturbed
    BY <1>1, <1>8, RunningCounts DEF Causes
  <2>2. Waiting("disconnect")' = Waiting("disconnect")
    BY <1>3
  <2> QED  BY <1>1, <2>1, <2>2, RunningCounts DEF Undisturbed, connVars
<1> QED  BY <1>1, <1>2, <1>5, <1>6, <1>7, <1>8 DEF Causes

LEMMA TransStateCauses ==
  ASSUME IInv, Causes, failure = "none", RunTask,
         NEW newState \in {"Connected", "Disconnect", "ForceDisconnected"}, TransState(newState),
         Head(pendingTasks) = CASE newState = "Connected"         -> "connected"
                                [] newState = "Disconnect"        -> "disconnect"
                                [] newState = "ForceDisconnected" -> "force"
  PROVE  Causes'
<1>1. UNCHANGED timerVars
  BY DEF TransState
<1>2. CASE ~Allowed(newState)
  <2>1. pendingTasks' = Tail(pendingTasks)
        /\ UNCHANGED <<mPendingTasks, mState, mConnSocket, connVars, retries, failure>>
    BY <1>2 DEF TransState
  <2>2. Head(pendingTasks) = "disconnect" => mState # "Connected"
    BY <1>2 DEF Allowed
  <2> QED  BY <1>1, <2>1, <2>2, RefusedCauses
<1>3. CASE Allowed(newState)
  <2>1. CASE newState = "Connected"
    BY <1>1, <1>3, <2>1, ConnectedCauses DEF TransState, Allowed
  <2>2. CASE newState = "Disconnect"
    BY <1>1, <1>3, <2>2, DisconnectedCauses DEF TransState, Allowed
  <2>3. CASE newState = "ForceDisconnected"
    BY <1>1, <1>3, <2>3, ForceCauses DEF TransState, Allowed
  <2> QED  BY <2>1, <2>2, <2>3
<1> QED  BY <1>2, <1>3

LEMMA RunCauses ==
  ASSUME IInv, Causes, failure = "none", RunTask PROVE Causes'
<1> DEFINE first == Head(pendingTasks)
<1>1. first \in Task
  BY Running
<1>2. CASE first = "connected"
  BY <1>2, TransStateCauses DEF RunTask
<1>3. CASE first = "disconnect"
  BY <1>3, TransStateCauses DEF RunTask
<1>4. CASE first = "force"
  BY <1>4, TransStateCauses DEF RunTask
<1>5. CASE first \in Task \ {"connected", "disconnect", "force"}
  <2>1. OtherTask(first)
    BY <1>5 DEF RunTask
  <2>2. pendingTasks' = Tail(pendingTasks) /\ UNCHANGED <<mState, mConnSocket, retries>>
    BY <2>1 DEF OtherTask
  <2>3. CASE first = "shutdownConnection"
    BY <2>1, <2>2, <2>3, ShutdownConnectionCauses DEF OtherTask
  <2>4. CASE first = "shutdown"
    BY <2>1, <2>2, <2>4, ShutdownCauses DEF OtherTask
  <2>5. CASE first = "shutdownFreed"
    <3>1. failure' = "shutdownFreed" /\ UNCHANGED <<mPendingTasks, timerVars, connVars>>
      BY <2>1, <2>5 DEF OtherTask
    <3>2. disconnects # 0
      BY <2>5, Running DEF Causes, Alone, Waits
    <3>3. FailureCauses'
      BY <3>1, <3>2, RunningCounts DEF FailureCauses, Causes, Bounded
    <3> QED  BY <2>2, <3>1, <3>3, FailedCauses DEF Failure
  <2>6. CASE first \in {"addTimer", "removeTimer"}
    BY <2>1, <2>2, <2>6, TimersCauses DEF OtherTask
  <2> QED  BY <1>5, <2>3, <2>4, <2>5, <2>6 DEF Task
<1> QED  BY <1>1, <1>2, <1>3, <1>4, <1>5

LEMMA CausesInductive == IInv /\ Causes /\ [Next]_vars => Causes'
<1> SUFFICES ASSUME IInv, Causes, [Next]_vars PROVE Causes'
  OBVIOUS
<1>1. CASE UNCHANGED vars
  BY <1>1 DEF vars, loopVars, timerVars, connVars, callVars, Causes, Bounded, Timers, OneAttempt,
       ShutdownFirst, Alone, Undisturbed, FailureCauses, Waits, Waiting
<1>2. CASE Next
  <2>1. failure = "none"
    BY <1>2 DEF Next
  <2> QED  BY <1>2, <2>1, KernelCauses, ConnectCauses, DisconnectCauses, PollCauses, TimerCauses,
                EventCauses, SwapCauses, EndCauses, RunCauses DEF Next, Loop
<1> QED  BY <1>1, <1>2

LEMMA CausesInvariant == Spec => []Causes
BY CausesInitially, CausesInductive, Invariant, PTL DEF Spec

(* Type correctness: the tasks, the timers and the state machine stay in   *)
(* their domains; removeTimer never removes more timers than fired.        *)
THEOREM ClientTypeOK == Spec => []TypeOK
<1>1. IInv /\ Causes => TypeOK
  BY DEF IInv, Types, Causes, Bounded, Timers, TypeOK
<1> QED  BY <1>1, Invariant, CausesInvariant, PTL

(* What each way the process ends takes: a client that connects once and   *)
(* never disconnects ends only by giving up or by the error of a connect   *)
(* announced too early (TcpClient.cpp:167-171,182-183,232).                *)
THEOREM FailuresHaveCauses == Spec => []FailureCauses
<1>1. Causes => FailureCauses
  BY DEF Causes
<1> QED  BY <1>1, CausesInvariant, PTL
=============================================================================
