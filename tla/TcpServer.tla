------------------------------ MODULE TcpServer ------------------------------
(***************************************************************************)
(* A tcp::TcpServer and its net::EventLoopPool: the thread of the main     *)
(* loop, which accepts clients and sets their connections up, the threads  *)
(* of the pool, each with a loop of its own that handles the connections   *)
(* given to it, and the clients.                                           *)
(*                                                                         *)
(* isInLoopThread is true in every thread that owns some loop, so          *)
(* runInLoop of a loop of the pool runs its task in the thread of the main *)
(* loop: connections are set up there, step by step, while the loop they   *)
(* belong to polls (EventLoop.tla models isInLoopThread itself).           *)
(*                                                                         *)
(* What is sent is left out; "data" stands for bytes not read yet.         *)
(***************************************************************************)
EXTENDS Integers, Sequences, FiniteSets, SequencesExt

CONSTANTS NumLoops,            \* the loops of the pool, if there is one
          NumClients,
          MAX_CONNECTION_NUMS

ASSUME ServerAssumption ==
    /\ NumLoops \in Nat
    /\ NumClients \in Nat
    /\ MAX_CONNECTION_NUMS \in Nat \ {0}

VARIABLES
    mSubThreads,      \* the loops the pool has threads for: none, or Loops
    mainPc, newConn,  \* the main thread, and the connection it sets up
    threadPc,         \* the threads of the pool
    mSubLoops, mSubLoopStates, mIndex, mIsExit,
    backlog,          \* clients that wait for accept, in order
    peer,             \* what a client has done that was not read yet, or "closed"
                      \* once the server has closed its socket
    mState, channel, loopOf,   \* of each connection; its channel in the epoller
    mConnectionSet,
    mPendingTasks,    \* per loop: the connections it is to destroy
    told,             \* history: what user code was told of a connection
    failure           \* how the process ended

Loops == 1 .. NumLoops       \* in the order they register
main == 0                    \* the main loop
Clients == 1 .. NumClients   \* in the order they arrive

poolVars == <<threadPc, mSubLoops, mSubLoopStates, mIndex, mIsExit>>
clientVars == <<backlog, peer>>
connVars == <<mState, channel, loopOf>>
vars == <<mSubThreads, mainPc, newConn, poolVars, clientVars, connVars, mConnectionSet,
          mPendingTasks, told, failure>>

Loop == Loops \cup {main}

(* The steps of createNewConnectionInSubLoop, and those of ~TcpServer.     *)
SetUp == {"add", "insertChannel", "enableRead", "connect", "tell", "insert"}
TearDown == {"stopped", "pool", "join", "joined"}

TypeOK ==
    /\ mSubThreads \in {{}, Loops}
    /\ mainPc \in {"poll", "tasks"} \cup SetUp \cup TearDown
    /\ newConn \in Clients \cup {0}
    /\ newConn # 0 <=> mainPc \in SetUp
    /\ threadPc \in [Loops -> {"start", "wait", "check", "startLoop", "poll", "tasks", "leaving", "done"}]
    /\ mSubLoops \in Seq(mSubThreads)
    /\ mSubLoopStates \in [ToSet(mSubLoops) -> {"Initialized", "Running", "Exit"}]
    /\ mIndex \in 0 .. NumClients
    /\ mIsExit \in [Loops -> BOOLEAN]
    /\ backlog \in Seq(Clients)
    /\ peer \in [Clients -> {"away", "quiet", "data", "fin", "reset", "closed"}]
    /\ mState \in [Clients -> {"none", "DisConnected", "Connected"}]
    /\ channel \in [Clients -> {"none", "added", "mapped", "reading"}]
    /\ loopOf \in [Clients -> Loop \cup {-1}]
    /\ mConnectionSet \subseteq Clients
    /\ mPendingTasks \in [Loop -> SUBSET Clients]
    /\ told \in [Clients -> Seq({"connected", "message", "disconnected"})]
    /\ failure \in {"none", "noLoop", "accept", "fdNotExisted", "handleRead", "handleClose",
                    "removeChannel", "freedSet"}

Init ==
    /\ mSubThreads \in {{}, Loops}
    /\ mainPc = "poll" /\ newConn = 0
    /\ threadPc = [l \in Loops |-> "start"]
    /\ mSubLoops = <<>> /\ mSubLoopStates = <<>> /\ mIndex = 0
    /\ mIsExit = [l \in Loops |-> TRUE]
    /\ backlog = <<>> /\ peer = [c \in Clients |-> "away"]
    /\ mState = [c \in Clients |-> "none"]
    /\ channel = [c \in Clients |-> "none"]
    /\ loopOf = [c \in Clients |-> -1]
    /\ mConnectionSet = {}
    /\ mPendingTasks = [l \in Loop |-> {}]
    /\ told = [c \in Clients |-> <<>>]
    /\ failure = "none"

Fails(where) ==
    /\ failure' = where
    /\ UNCHANGED <<mSubThreads, mainPc, newConn, poolVars, clientVars, connVars, mConnectionSet,
                   mPendingTasks, told>>
-----------------------------------------------------------------------------
(***************************************************************************)
(* Clients: connect, send, close and reset.  A client may do so before it  *)
(* is accepted.                                                            *)
(***************************************************************************)
Moves(from, to) ==
    \/ from = "quiet" /\ to \in {"data", "fin", "reset"}
    \/ from = "data" /\ to = "reset"

PeerMoves(c) ==
    /\ \/ /\ peer[c] = "away" /\ \A d \in 1 .. c - 1 : peer[d] # "away"
          /\ peer' = [peer EXCEPT ![c] = "quiet"]
          /\ backlog' = Append(backlog, c)
       \/ /\ \E to \in {"data", "fin", "reset"} :
                Moves(peer[c], to) /\ peer' = [peer EXCEPT ![c] = to]
          /\ UNCHANGED backlog
    /\ UNCHANGED <<mSubThreads, mainPc, newConn, poolVars, connVars, mConnectionSet, mPendingTasks,
                   told, failure>>
-----------------------------------------------------------------------------
(***************************************************************************)
(* The threads of the pool.                                                *)
(***************************************************************************)

(* Only ~EventLoopPool holds mMutex for longer than a step.                *)
MutexFree == mainPc # "join"

(* Mutant: the thread waits without having entered its state.              *)
RegisterStateless(l) ==
    /\ threadPc[l] = "start" /\ MutexFree
    /\ l = Len(mSubLoops) + 1
    /\ threadPc' = [threadPc EXCEPT ![l] = "wait"]
    /\ mSubLoops' = Append(mSubLoops, l)
    /\ UNCHANGED <<mSubLoopStates, mIndex, mIsExit>>

(* A loop enters the pool; its thread waits for it to be Running.          *)
Register(l) ==
    /\ threadPc[l] = "start" /\ MutexFree
    /\ l = Len(mSubLoops) + 1
    /\ threadPc' = [threadPc EXCEPT ![l] = "wait"]
    /\ mSubLoops' = Append(mSubLoops, l)
    /\ mSubLoopStates' = [k \in DOMAIN mSubLoopStates \cup {l} |->
                             IF k = l THEN "Initialized" ELSE mSubLoopStates[k]]
    /\ UNCHANGED <<mIndex, mIsExit>>

(* A notified thread takes mMutex again, and looks whether it may go on.   *)
Check(l) ==
    /\ threadPc[l] = "check" /\ MutexFree
    /\ threadPc' = [threadPc EXCEPT ![l] =
                       IF mSubLoopStates[l] = "Running" THEN "startLoop" ELSE "wait"]
    /\ UNCHANGED <<mSubLoops, mSubLoopStates, mIndex, mIsExit>>

StartLoop(l) ==
    /\ threadPc[l] = "startLoop"
    /\ threadPc' = [threadPc EXCEPT ![l] = "poll"]
    /\ mIsExit' = [mIsExit EXCEPT ![l] = FALSE]
    /\ UNCHANGED <<mSubLoops, mSubLoopStates, mIndex>>

(* The thread ends after its loop, when it has had a look at its state.    *)
Leave(l) ==
    /\ threadPc[l] = "leaving" /\ MutexFree
    /\ threadPc' = [threadPc EXCEPT ![l] = "done"]
    /\ UNCHANGED <<mSubLoops, mSubLoopStates, mIndex, mIsExit>>

ThreadStep(l) ==
    /\ l \in mSubThreads
    /\ Register(l) \/ Check(l) \/ StartLoop(l) \/ Leave(l)
    /\ UNCHANGED <<mSubThreads, mainPc, newConn, clientVars, connVars, mConnectionSet,
                   mPendingTasks, told, failure>>

(* Mutant: the waiting threads are not notified.                           *)
NotifyNobody == UNCHANGED threadPc

(* mCond.notify_all().                                                     *)
NotifyAll ==
    threadPc' = [l \in Loops |-> IF threadPc[l] = "wait" THEN "check" ELSE threadPc[l]]

(* The loop for the next connection: round robin over those registered.    *)
acquireLoop(l) ==
    \/ mSubThreads = {} /\ l = main /\ UNCHANGED poolVars
    \/ /\ mSubLoops # <<>>
       /\ l = mSubLoops[1 + (mIndex % Len(mSubLoops))]
       /\ mIndex' = mIndex + 1
       /\ IF mSubLoopStates[l] = "Initialized"
          THEN mSubLoopStates' = [mSubLoopStates EXCEPT ![l] = "Running"] /\ NotifyAll
          ELSE UNCHANGED <<mSubLoopStates, threadPc>>
       /\ UNCHANGED <<mSubLoops, mIsExit>>
-----------------------------------------------------------------------------
(***************************************************************************)
(* The main thread sets a connection up.                                   *)
(***************************************************************************)

(* Mutant: off by one.                                                     *)
FullOffByOne == Cardinality(mConnectionSet) > MAX_CONNECTION_NUMS

Full == Cardinality(mConnectionSet) = MAX_CONNECTION_NUMS

(* The read callback of the listen channel, up to the new TcpConnection.   *)
(* With no loop registered yet mIndex % 0 is computed; a failed accept     *)
(* leaves startLoop.                                                       *)
createNewConnection ==
    /\ mainPc = "poll" /\ backlog # <<>>
    /\ \/ mSubThreads # {} /\ mSubLoops = <<>> /\ Fails("noLoop")
       \/ (mSubThreads = {} \/ mSubLoops # <<>>) /\ Fails("accept")
       \/ /\ backlog' = Tail(backlog)
          /\ \E c \in {Head(backlog)}, l \in Loop :
                /\ acquireLoop(l)
                /\ IF Full
                   THEN /\ peer' = [peer EXCEPT ![c] = "closed"]
                        /\ UNCHANGED <<mainPc, newConn, mState, loopOf>>
                   ELSE /\ mainPc' = "add"
                        /\ newConn' = c
                        /\ mState' = [mState EXCEPT ![c] = "DisConnected"]
                        /\ loopOf' = [loopOf EXCEPT ![c] = l]
                        /\ UNCHANGED peer
          /\ UNCHANGED <<mSubThreads, channel, mConnectionSet, mPendingTasks, told, failure>>

(* Epoller::addChannel by Channel's constructor: epoll_ctl, which asks for *)
(* no event yet, and then the maps.                                        *)
AddChannel ==
    /\ mainPc = "add" /\ mainPc' = "insertChannel"
    /\ channel' = [channel EXCEPT ![newConn] = "added"]
    /\ UNCHANGED <<newConn, mState, told, mConnectionSet>>

InsertChannel ==
    /\ mainPc = "insertChannel" /\ mainPc' = "enableRead"
    /\ channel' = [channel EXCEPT ![newConn] = "mapped"]
    /\ UNCHANGED <<newConn, mState, told, mConnectionSet>>

(* establishConnect: enableRead, the state, the callback.                  *)
EnableRead ==
    /\ mainPc = "enableRead" /\ mainPc' = "connect"
    /\ channel' = [channel EXCEPT ![newConn] = "reading"]
    /\ UNCHANGED <<newConn, mState, told, mConnectionSet>>

SetConnected ==
    /\ mainPc = "connect" /\ mainPc' = "tell"
    /\ mState' = [mState EXCEPT ![newConn] = "Connected"]
    /\ UNCHANGED <<newConn, channel, told, mConnectionSet>>

(* A callback; messages that follow each other count as one.               *)
Tell(c, what) ==
    told' = IF what = "message" /\ told[c] # <<>> /\ Last(told[c]) = what
            THEN told ELSE [told EXCEPT ![c] = Append(@, what)]

(* mConnectionCb: user code asks isConnected.                              *)
View(state) == IF state = "Connected" THEN "connected" ELSE "disconnected"

TellConnected ==
    /\ mainPc = "tell" /\ mainPc' = "insert"
    /\ Tell(newConn, View(mState[newConn]))
    /\ UNCHANGED <<newConn, mState, channel, mConnectionSet>>

(* Mutant: the connection is not kept.                                     *)
InsertForgotten ==
    /\ mainPc = "insert" /\ mainPc' = "poll"
    /\ newConn' = 0
    /\ UNCHANGED <<mState, channel, told, mConnectionSet>>

Insert ==
    /\ mainPc = "insert" /\ mainPc' = "poll"
    /\ mConnectionSet' = mConnectionSet \cup {newConn}
    /\ newConn' = 0
    /\ UNCHANGED <<mState, channel, told>>

SetUpStep ==
    /\ AddChannel \/ InsertChannel \/ EnableRead \/ SetConnected \/ TellConnected \/ Insert
    /\ UNCHANGED <<mSubThreads, poolVars, clientVars, loopOf, mPendingTasks, failure>>
-----------------------------------------------------------------------------
(***************************************************************************)
(* Each loop handles the events of its connections, then its tasks.        *)
(***************************************************************************)
Pc(l) == IF l = main THEN mainPc ELSE threadPc[l]

MoveTo(l, pc) ==
    IF l = main THEN mainPc' = pc /\ UNCHANGED threadPc
                  ELSE threadPc' = [threadPc EXCEPT ![l] = pc] /\ UNCHANGED mainPc

(* Mutant: the close callback destroys the connection at once.             *)
CloseCallbackNow(c) == failure' = "removeChannel" /\ UNCHANGED mPendingTasks

(* Mutant: no close callback is set.                                       *)
CloseCallbackUnset(c) == UNCHANGED <<mPendingTasks, failure>>

(* The close callback queues the task that destroys the connection.        *)
CloseCallback(c) ==
    /\ mPendingTasks' = [mPendingTasks EXCEPT ![loopOf[c]] = @ \cup {c}]
    /\ UNCHANGED failure

handleClose(c) ==
    /\ mState' = [mState EXCEPT ![c] = "DisConnected"]
    /\ Tell(c, "disconnected")
    /\ CloseCallback(c)

(* The read callback of a connection that has data, or was closed.         *)
handleRead(c) ==
    /\ peer' = IF peer[c] = "data" THEN [peer EXCEPT ![c] = "quiet"] ELSE peer
    /\ \/ /\ peer[c] = "data"
          /\ Tell(c, "message")
          /\ UNCHANGED <<mState, mPendingTasks, failure>>
       \/ peer[c] = "fin" /\ handleClose(c)

(* epoll reports a reset even if no event was asked for; the error is      *)
(* handled and cleared first, the close read afterwards.  Until the task   *)
(* that destroys a connection has run its loop does not poll again.        *)
HandleEvent(c) ==
    /\ loopOf[c] # -1 /\ Pc(loopOf[c]) = "poll"
    /\ c \notin mPendingTasks[loopOf[c]]
    /\ \/ channel[c] = "added" /\ peer[c] = "reset" /\ Fails("fdNotExisted")
       \/ channel[c] = "mapped" /\ peer[c] = "reset" /\ Fails("handleClose")
       \/ channel[c] = "reading" /\ peer[c] \in {"data", "fin"} /\ mState[c] # "Connected"
             /\ Fails("handleRead")
       \/ /\ channel[c] = "reading"
          /\ \/ /\ peer[c] = "reset"
                /\ peer' = [peer EXCEPT ![c] = "fin"]
                /\ UNCHANGED <<mState, told, mPendingTasks, failure>>
             \/ mState[c] = "Connected" /\ handleRead(c)
          /\ UNCHANGED <<mSubThreads, mainPc, newConn, poolVars, backlog, channel, loopOf, mConnectionSet>>

(* doPendingTasks, with mIsLoopingNow false: a task destroys a connection  *)
(* and erases it from the server's set, if there still is one.             *)
DestroyTask(l, c) ==
    /\ Pc(l) = "tasks" /\ c \in mPendingTasks[l]
    /\ IF mainPc \in {"pool", "join"}
       THEN Fails("freedSet")
       ELSE /\ channel' = [channel EXCEPT ![c] = "none"]
            /\ mConnectionSet' = mConnectionSet \ {c}
            /\ mPendingTasks' = [mPendingTasks EXCEPT ![l] = @ \ {c}]
            /\ peer' = [peer EXCEPT ![c] = "closed"]
            /\ UNCHANGED <<mSubThreads, mainPc, newConn, poolVars, backlog, mState, loopOf,
                           told, failure>>

(* The rest of an iteration; one with no task to run changes nothing.      *)
Iterate(l) ==
    /\ \/ Pc(l) = "poll" /\ mPendingTasks[l] # {} /\ MoveTo(l, "tasks")
       \/ Pc(l) = "tasks" /\ mPendingTasks[l] = {} /\ MoveTo(l, "poll")
       \/ /\ Pc(l) \in {"poll", "tasks"} /\ mPendingTasks[l] = {}
          /\ l # main /\ mIsExit[l] /\ MoveTo(l, "leaving")
    /\ UNCHANGED <<mSubThreads, newConn, mSubLoops, mSubLoopStates, mIndex, mIsExit, clientVars,
                   connVars, mConnectionSet, mPendingTasks, told, failure>>
-----------------------------------------------------------------------------
(***************************************************************************)
(* User code quits the main loop; then ~TcpServer: its body and            *)
(* mConnectionSet, and then the pool.                                      *)
(***************************************************************************)
Quit ==
    /\ mainPc \in {"poll", "tasks"} /\ mPendingTasks[main] = {}
    /\ mainPc' = "stopped"
    /\ UNCHANGED <<mSubThreads, newConn, poolVars, clientVars, connVars, mConnectionSet,
                   mPendingTasks, told, failure>>

(* The connections only the set holds are destroyed.  A channel must not   *)
(* be removed while its loop is looping; a loop that polls may just be     *)
(* between two iterations.                                                 *)
ClearConnections ==
    LET last == {c \in mConnectionSet : mState[c] = "Connected"} IN
    /\ mainPc = "stopped"
    /\ \/ /\ \E c \in last : loopOf[c] # main /\ threadPc[loopOf[c]] = "poll"
          /\ Fails("removeChannel")
       \/ /\ mainPc' = "pool"
          /\ mState' = [c \in Clients |-> IF c \in last THEN "DisConnected" ELSE mState[c]]
          /\ channel' = [c \in Clients |-> IF c \in last THEN "none" ELSE channel[c]]
          /\ mConnectionSet' = {}
          /\ UNCHANGED <<mSubThreads, newConn, poolVars, clientVars, loopOf, mPendingTasks,
                         told, failure>>

(* quitLoop without a wakeup, as the caller's thread owns a loop too.      *)
QuitLoops ==
    /\ mainPc = "pool" /\ mainPc' = "join"
    /\ mSubLoopStates' = [l \in DOMAIN mSubLoopStates |-> "Exit"]
    /\ mIsExit' = [l \in Loops |-> mIsExit[l] \/ l \in ToSet(mSubLoops)]
    /\ NotifyAll
    /\ UNCHANGED <<mSubThreads, newConn, mSubLoops, mIndex, clientVars, connVars, mConnectionSet,
                   mPendingTasks, told, failure>>

(* The joins, and with them the end of the destructor.                     *)
Join ==
    /\ mainPc = "join" /\ mainPc' = "joined"
    /\ \A l \in mSubThreads : threadPc[l] = "done"
    /\ UNCHANGED <<mSubThreads, newConn, poolVars, clientVars, connVars, mConnectionSet,
                   mPendingTasks, told, failure>>
-----------------------------------------------------------------------------
LoopStep(l) == Iterate(l) \/ \E c \in Clients : DestroyTask(l, c)

Next ==
    /\ failure = "none"
    /\ \/ createNewConnection \/ SetUpStep
       \/ \E l \in Loops : ThreadStep(l)
       \/ \E l \in Loop : LoopStep(l)
       \/ \E c \in Clients : PeerMoves(c) \/ HandleEvent(c)
       \/ Quit \/ ClearConnections \/ QuitLoops \/ Join

(* Every thread is scheduled.  epoll reports every channel that is ready,  *)
(* at each poll, as long as it is (level triggered).                       *)
Spec ==
    /\ Init /\ [][Next]_vars
    /\ WF_vars(failure = "none" /\ SetUpStep)
    /\ WF_vars(failure = "none" /\ LoopStep(main))
    /\ \A l \in Loops : WF_vars(failure = "none" /\ (ThreadStep(l) \/ LoopStep(l)))
    /\ \A c \in Clients : WF_vars(failure = "none" /\ HandleEvent(c))
-----------------------------------------------------------------------------
(***************************************************************************)
(* Properties.                                                             *)
(***************************************************************************)
(* No more than MAX_CONNECTION_NUMS connections are open, although the set *)
(* is asked for its size several steps before the insertion, and the loops *)
(* of the pool erase from it meanwhile (TcpServer.cpp:137,172-174,180).    *)
OpenBounded ==
    Cardinality({c \in Clients : channel[c] # "none"} \cup mConnectionSet) <= MAX_CONNECTION_NUMS

(* An object that epoll can still call back lives: the set, the main       *)
(* thread or a task that destroys it holds it, in every order of insert,   *)
(* close and erase (TcpServer.cpp:165-181).                                *)
HeldWhileOpen ==
    \A c \in Clients : channel[c] # "none" =>
        c \in mConnectionSet \cup {newConn} \cup mPendingTasks[loopOf[c]]

(* What a server with no sub threads can rely on, and one with sub threads *)
(* cannot: it fails only with accept; the set holds open connections only  *)
(* (no entry is left by an erase before the insert, TcpServer.cpp:173-181, *)
(* and counted for ever); and user code hears of a connection first that   *)
(* it is connected, last that it is not (TcpConnection.cpp:279-287).       *)
Orderly(calls) ==
    \A i \in DOMAIN calls :
        /\ calls[i] = "connected" <=> i = 1
        /\ calls[i] = "disconnected" => i = Len(calls)

SingleLoopOrderly ==
    mSubThreads = {} =>
    /\ failure \in {"none", "accept"}
    /\ \A c \in mConnectionSet : channel[c] = "reading"
    /\ \A c \in Clients : Orderly(told[c])

(* With sub threads an assertion can fail, and this is all of it: while    *)
(* the main thread sets a connection up that another thread's loop already *)
(* polls, each in its own step (the channel is in epoll but in no map, has *)
(* no interest, or is read before the state is set: Epoller.cpp:80-90,     *)
(* TcpConnection.cpp:279-284), and while the destructor runs.  A           *)
(* connection that is set up never fails one, however its events, its      *)
(* close and its task interleave with the set-up of others.                *)
FailsOnlyInSetUp ==
    /\ failure = "fdNotExisted" => mainPc = "insertChannel"
    /\ failure = "handleClose" => mainPc = "enableRead"
    /\ failure = "handleRead" => mainPc = "connect"
    /\ failure \in {"fdNotExisted", "handleClose", "handleRead"} => loopOf[newConn] # main
    /\ failure = "removeChannel" => mainPc = "stopped" /\ mSubThreads # {}
    /\ failure = "freedSet" => mainPc \in {"pool", "join"} /\ mSubThreads # {}

(* A connection whose client has gone is released, in whichever loop: the  *)
(* thread of that loop was woken for it, even if it had not started yet    *)
(* (EventLoopPool.cpp:79-86, TcpServer.cpp:165-176).                       *)
CloseReleases ==
    \A c \in Clients :
        channel[c] = "reading" /\ peer[c] \in {"fin", "reset"}
            ~> (channel[c] = "none" \/ failure # "none" \/ mainPc \in TearDown)
=============================================================================
