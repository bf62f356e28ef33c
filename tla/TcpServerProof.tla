--------------------------- MODULE TcpServerProof ---------------------------
(***************************************************************************)
(* Who holds the connections of a server, how many there are, that its     *)
(* destructor does not return with sub threads, that a server without sub  *)
(* threads is orderly, and where one with sub threads can fail: for any    *)
(* number of loops and clients and any limit.  IInv is about the           *)
(* connections; Detail, proved from it, adds the clients that wait, and    *)
(* what a single loop excludes; InStages, what the set-up has reached.     *)
(***************************************************************************)
EXTENDS TcpServer, FiniteSetTheorems, TLAPS

(* Of the types, what the proofs need.                                     *)
Types ==
    /\ mSubThreads \in {{}, Loops}
    /\ mainPc \in {"poll", "tasks"} \cup SetUp \cup TearDown
    /\ newConn \in Clients \cup {0}
    /\ newConn # 0 <=> mainPc \in SetUp
    /\ threadPc \in [Loops -> {"start", "wait", "check", "startLoop", "poll", "tasks",
                               "leaving", "done"}]
    /\ mIsExit \in [Loops -> BOOLEAN]
    /\ backlog \in Seq(Clients)
    /\ mState \in [Clients -> {"none", "DisConnected", "Connected"}]
    /\ channel \in [Clients -> {"none", "added", "mapped", "reading"}]
    /\ loopOf \in [Clients -> Loop \cup {-1}]
    /\ mConnectionSet \subseteq Clients
    /\ mPendingTasks \in [Loop -> SUBSET Clients]

(* The server's set is gone, or is being destroyed.                        *)
Gone == {"pool", "join", "joined"}

(* Before it is Connected a connection is only the main thread's.          *)
Early == {"add", "insertChannel", "enableRead", "connect"}

Open(c) == channel[c] # "none"

(* An open connection has a loop.                                          *)
Owned ==
    /\ \A c \in Clients : Open(c) => loopOf[c] \in Loop
    /\ newConn # 0 => loopOf[newConn] \in Loop

(* An open one is held by the server; one that was closed, by its task.    *)
Kept ==
    mainPc \notin Gone => \A c \in Clients : Open(c) => c \in mConnectionSet \cup {newConn}

Closed ==
    \A c \in Clients :
        Open(c) /\ mState[c] # "Connected" /\ ~(c = newConn /\ mainPc \in Early)
            => c \in mPendingTasks[loopOf[c]]

(* The connection that is set up counts from the moment the size of the    *)
(* set was looked at.                                                      *)
Counted == mConnectionSet \cup ({newConn} \ {0})

Bounded == Cardinality(Counted) <= MAX_CONNECTION_NUMS

(* After the set is gone, only tasks hold what is open.                    *)
HeldAfterwards ==
    mainPc \in Gone => \A c \in Clients : Open(c) => c \in mPendingTasks[loopOf[c]]

Held == Owned /\ Kept /\ Closed /\ HeldAfterwards

(* ~TcpServer ends only if there are no sub threads: otherwise it holds    *)
(* the mMutex its threads need to leave, and joins them                    *)
(* (EventLoopPool.cpp:46,57-70).                                           *)
JoinedOnlyWithoutThreads == mainPc = "joined" => mSubThreads = {}

(* A thread of the pool leaves its loop only when the destructor made it,  *)
(* and ends only after the destructor.                                     *)
Leaving ==
    /\ \A l \in Loops :
          /\ threadPc[l] \in {"poll", "tasks"} /\ mainPc \notin {"join", "joined"} => ~mIsExit[l]
          /\ threadPc[l] = "leaving" => mainPc \in {"join", "joined"}
          /\ threadPc[l] = "done" => mainPc = "joined"
    /\ JoinedOnlyWithoutThreads

IInv == Types /\ Held /\ Bounded /\ OpenBounded /\ Leaving

(* The steps of which the connections see nothing.                         *)
Unseen ==
    /\ UNCHANGED <<newConn, channel, mState, loopOf, mConnectionSet, mPendingTasks>>
    /\ mainPc' \in Gone <=> mainPc \in Gone
    /\ mainPc' \in Early <=> mainPc \in Early
-----------------------------------------------------------------------------
(***************************************************************************)
(* Types.                                                                  *)
(***************************************************************************)
LEMMA FailsTypes ==
  ASSUME Types, NEW where, Fails(where) PROVE Types' /\ Unseen /\ (Leaving => Leaving')
<1>1. UNCHANGED <<mSubThreads, mainPc, newConn, threadPc, mIsExit, backlog, mState, channel,
                  loopOf, mConnectionSet, mPendingTasks>>
  BY DEF Fails, poolVars, clientVars, connVars
<1>2. Types'
  BY <1>1 DEF Types
<1>3. Leaving => Leaving'
  BY <1>1 DEF Leaving, JoinedOnlyWithoutThreads
<1> QED  BY <1>1, <1>2, <1>3 DEF Unseen

LEMMA MainNotInPool == main \notin Loops /\ 0 \notin Clients
  BY ServerAssumption DEF main, Loops, Clients

LEMMA ThreadStepTypes ==
  ASSUME Types, NEW l \in Loops, ThreadStep(l) PROVE Types' /\ Unseen
<1>1. UNCHANGED <<mSubThreads, mainPc, newConn, backlog, mState, channel, loopOf,
                  mConnectionSet, mPendingTasks>>
  BY DEF ThreadStep, clientVars, connVars
<1>2. /\ threadPc' \in [Loops -> {"start", "wait", "check", "startLoop", "poll", "tasks",
                                  "leaving", "done"}]
      /\ mIsExit' \in [Loops -> BOOLEAN]
  BY DEF Types, ThreadStep, Register, Check, StartLoop, Leave
<1> QED  BY <1>1, <1>2 DEF Types, Unseen

LEMMA IterateTypes ==
  ASSUME Types, NEW l \in Loop, Iterate(l) PROVE Types' /\ Unseen
<1>1. UNCHANGED <<mSubThreads, newConn, mIsExit, backlog, mState, channel, loopOf,
                  mConnectionSet, mPendingTasks>>
  BY DEF Iterate, clientVars, connVars
<1>2. \/ mainPc' = mainPc
      \/ mainPc \in {"poll", "tasks"} /\ mainPc' \in {"poll", "tasks"}
  BY DEF Iterate, MoveTo, Pc
<1>3. threadPc' \in [Loops -> {"start", "wait", "check", "startLoop", "poll", "tasks",
                               "leaving", "done"}]
  BY DEF Types, Iterate, MoveTo
<1>4. mainPc' \in {"poll", "tasks"} \cup SetUp \cup TearDown /\ (newConn' # 0 <=> mainPc' \in SetUp)
  BY <1>1, <1>2 DEF Types, SetUp
<1> QED  BY <1>1, <1>2, <1>3, <1>4 DEF Types, Unseen, Gone, Early

LEMMA PeerMovesTypes ==
  ASSUME Types, NEW c \in Clients, PeerMoves(c) PROVE Types' /\ Unseen
<1>1. UNCHANGED <<mSubThreads, mainPc, newConn, threadPc, mIsExit, mState, channel, loopOf,
                  mConnectionSet, mPendingTasks>>
  BY DEF PeerMoves, poolVars, connVars
<1>2. backlog' = Append(backlog, c) \/ backlog' = backlog
  BY DEF PeerMoves
<1>3. backlog' \in Seq(Clients)
  BY <1>2 DEF Types
<1> QED  BY <1>1, <1>3 DEF Types, Unseen

(* The steps of the destructor that touch no connection, and Quit.         *)
LEMMA TearDownTypes ==
  ASSUME Types, Quit \/ QuitLoops \/ Join PROVE Types' /\ Unseen
<1>1. UNCHANGED <<mSubThreads, newConn, backlog, mState, channel, loopOf, mConnectionSet,
                  mPendingTasks>>
  BY DEF Quit, QuitLoops, Join, clientVars, connVars
<1>2. /\ threadPc' \in [Loops -> {"start", "wait", "check", "startLoop", "poll", "tasks",
                                  "leaving", "done"}]
      /\ mIsExit' \in [Loops -> BOOLEAN]
  BY DEF Types, Quit, QuitLoops, Join, NotifyAll, poolVars
<1>3. \/ mainPc \in {"poll", "tasks"} /\ mainPc' = "stopped"
      \/ mainPc = "pool" /\ mainPc' = "join"
      \/ mainPc = "join" /\ mainPc' = "joined"
  BY DEF Quit, QuitLoops, Join
<1>4. /\ mainPc' \in {"poll", "tasks"} \cup SetUp \cup TearDown
      /\ newConn' # 0 <=> mainPc' \in SetUp
  BY <1>1, <1>3 DEF Types, SetUp, TearDown
<1> QED  BY <1>1, <1>2, <1>3, <1>4 DEF Types, Unseen, Gone, Early

LEMMA SetUpTypes ==
  ASSUME Types, SetUpStep PROVE Types'
<1>1. newConn \in Clients
  BY DEF Types, SetUpStep, AddChannel, InsertChannel, EnableRead, SetConnected, TellConnected, Insert, SetUp
<1>2. UNCHANGED <<mSubThreads, threadPc, mIsExit, backlog, loopOf, mPendingTasks>>
  BY DEF SetUpStep, poolVars, clientVars
<1>3. CASE AddChannel
  BY <1>1, <1>2, <1>3 DEF Types, AddChannel, SetUp
<1>4. CASE InsertChannel
  BY <1>1, <1>2, <1>4 DEF Types, InsertChannel, SetUp
<1>5. CASE EnableRead
  BY <1>1, <1>2, <1>5 DEF Types, EnableRead, SetUp
<1>6. CASE SetConnected
  BY <1>1, <1>2, <1>6 DEF Types, SetConnected, SetUp
<1>7. CASE TellConnected
  BY <1>1, <1>2, <1>7 DEF Types, TellConnected, SetUp
<1>8. CASE Insert
  BY <1>1, <1>2, <1>8 DEF Types, Insert, SetUp
<1> QED  BY <1>3, <1>4, <1>5, <1>6, <1>7, <1>8 DEF SetUpStep

(* A connection that was accepted, when it is not refused.                 *)
Accepted(c, l) ==
    /\ c \in Clients /\ l \in Loop /\ mainPc = "poll" /\ ~Full
    /\ mainPc' = "add" /\ newConn' = c
    /\ mState' = [mState EXCEPT ![c] = "DisConnected"]
    /\ loopOf' = [loopOf EXCEPT ![c] = l]
    /\ UNCHANGED <<channel, mConnectionSet, mPendingTasks>>

LEMMA CreateTypes ==
  ASSUME Types, createNewConnection
  PROVE  Types' /\ (Unseen \/ \E c \in Clients, l \in Loop : Accepted(c, l))
<1>1. CASE Fails("noLoop") \/ Fails("accept")
  BY <1>1, FailsTypes
<1>2. CASE ~(Fails("noLoop") \/ Fails("accept"))
  <2>1. PICK c \in {Head(backlog)}, l \in Loop :
            /\ acquireLoop(l)
            /\ IF Full
               THEN /\ peer' = [peer EXCEPT ![c] = "closed"]
                    /\ UNCHANGED <<mainPc, newConn, mState, loopOf>>
               ELSE /\ mainPc' = "add"
                    /\ newConn' = c
                    /\ mState' = [mState EXCEPT ![c] = "DisConnected"]
                    /\ loopOf' = [loopOf EXCEPT ![c] = l]
                    /\ UNCHANGED peer
    BY <1>2 DEF createNewConnection
  <2>2. /\ mainPc = "poll" /\ backlog # <<>> /\ backlog' = Tail(backlog)
        /\ UNCHANGED <<mSubThreads, channel, mConnectionSet, mPendingTasks>>
    BY <1>2 DEF createNewConnection
  <2>3. Head(backlog) \in Clients /\ Tail(backlog) \in Seq(Clients)
    BY <2>2 DEF Types
  <2>4. c \in Clients /\ c # 0
    BY <2>1, <2>3, MainNotInPool
  <2>5. /\ threadPc' \in [Loops -> {"start", "wait", "check", "startLoop", "poll", "tasks",
                                    "leaving", "done"}]
        /\ mIsExit' = mIsExit
    BY <2>1 DEF Types, acquireLoop, NotifyAll, poolVars
  <2>6. CASE Full
    <3>1. UNCHANGED <<mainPc, newConn, mState, loopOf>>
      BY <2>1, <2>6
    <3> QED  BY <3>1, <2>2, <2>3, <2>5 DEF Types, Unseen
  <2>7. CASE ~Full
    <3>1. Accepted(c, l)
      BY <2>1, <2>2, <2>4, <2>7 DEF Accepted
    <3>2. /\ mState' \in [Clients -> {"none", "DisConnected", "Connected"}]
          /\ loopOf' \in [Clients -> Loop \cup {-1}]
      BY <3>1 DEF Types, Accepted
    <3>3. /\ mainPc' \in {"poll", "tasks"} \cup SetUp \cup TearDown
          /\ newConn' \in Clients \cup {0} /\ (newConn' # 0 <=> mainPc' \in SetUp)
      BY <3>1, <2>4 DEF Accepted, SetUp
    <3>4. Types'
      BY <3>2, <3>3, <2>2, <2>3, <2>5 DEF Types
    <3> QED  BY <3>1, <3>4, <2>4
  <2> QED  BY <2>6, <2>7
<1> QED  BY <1>1, <1>2

(* The task that destroys a connection.                                    *)
Destroyed(l, c) ==
    /\ mainPc \notin {"pool", "join"}
    /\ channel' = [channel EXCEPT ![c] = "none"]
    /\ mConnectionSet' = mConnectionSet \ {c}
    /\ mPendingTasks' = [mPendingTasks EXCEPT ![l] = @ \ {c}]
    /\ UNCHANGED <<mainPc, newConn, mState, loopOf>>

LEMMA DestroyTaskTypes ==
  ASSUME Types, NEW l \in Loop, NEW c \in Clients, DestroyTask(l, c)
  PROVE  Types' /\ (Unseen \/ Destroyed(l, c))
<1>1. CASE mainPc \in {"pool", "join"}
  BY <1>1, FailsTypes DEF DestroyTask
<1>2. CASE mainPc \notin {"pool", "join"}
  <2>1. Destroyed(l, c) /\ UNCHANGED <<mSubThreads, threadPc, mIsExit, backlog>>
    BY <1>2 DEF DestroyTask, Destroyed, poolVars
  <2>2. /\ channel' \in [Clients -> {"none", "added", "mapped", "reading"}]
        /\ mConnectionSet' \subseteq Clients
    BY <2>1 DEF Types, Destroyed
  <2>3. mPendingTasks' \in [Loop -> SUBSET Clients]
    BY <2>1 DEF Types, Destroyed
  <2> QED  BY <2>1, <2>2, <2>3 DEF Types, Destroyed
<1> QED  BY <1>1, <1>2

(* The close of a connection, whose task is queued to its own loop.        *)
ClosedNow(c) ==
    /\ loopOf[c] \in Loop
    /\ mState' = [mState EXCEPT ![c] = "DisConnected"]
    /\ mPendingTasks' = [mPendingTasks EXCEPT ![loopOf[c]] = @ \cup {c}]
    /\ UNCHANGED <<mainPc, newConn, channel, loopOf, mConnectionSet>>

LEMMA HandleEventTypes ==
  ASSUME Types, NEW c \in Clients, HandleEvent(c)
  PROVE  Types' /\ (Unseen \/ ClosedNow(c))
<1>1. CASE Fails("fdNotExisted") \/ Fails("handleClose") \/ Fails("handleRead")
  BY <1>1, FailsTypes
<1>2. CASE ~(Fails("fdNotExisted") \/ Fails("handleClose") \/ Fails("handleRead"))
  <2>1. UNCHANGED <<mSubThreads, mainPc, newConn, threadPc, mIsExit, backlog, channel, loopOf,
                    mConnectionSet>>
    BY <1>2 DEF HandleEvent, poolVars
  <2>2. \/ UNCHANGED <<mState, mPendingTasks>>
        \/ handleClose(c)
    BY <1>2 DEF HandleEvent, handleRead
  <2>3. CASE UNCHANGED <<mState, mPendingTasks>>
    BY <2>1, <2>3 DEF Types, Unseen
  <2>4. CASE handleClose(c)
    <3>1. loopOf[c] \in Loop
      BY DEF Types, HandleEvent
    <3>2. ClosedNow(c)
      BY <2>1, <2>4, <3>1 DEF ClosedNow, handleClose, CloseCallback
    <3>3. mState' \in [Clients -> {"none", "DisConnected", "Connected"}]
      BY <3>2 DEF Types, ClosedNow
    <3>4. mPendingTasks' \in [Loop -> SUBSET Clients]
      BY <3>1, <3>2 DEF Types, ClosedNow
    <3> QED  BY <2>1, <3>2, <3>3, <3>4 DEF Types
  <2> QED  BY <2>2, <2>3, <2>4
<1> QED  BY <1>1, <1>2

(* The connections only the set holds are gone.                            *)
Cleared ==
    LET last == {c \in mConnectionSet : mState[c] = "Connected"} IN
    /\ mainPc = "stopped" /\ mainPc' = "pool"
    /\ mState' = [c \in Clients |-> IF c \in last THEN "DisConnected" ELSE mState[c]]
    /\ channel' = [c \in Clients |-> IF c \in last THEN "none" ELSE channel[c]]
    /\ mConnectionSet' = {}
    /\ UNCHANGED <<newConn, loopOf, mPendingTasks>>

LEMMA ClearConnectionsTypes ==
  ASSUME Types, ClearConnections
  PROVE  Types' /\ (Unseen \/ Cleared)
<1>1. CASE Fails("removeChannel")
  BY <1>1, FailsTypes
<1>2. CASE ~Fails("removeChannel")
  <2>1. Cleared /\ UNCHANGED <<mSubThreads, threadPc, mIsExit, backlog>>
    BY <1>2 DEF ClearConnections, Cleared, poolVars, clientVars
  <2>2. /\ mState' \in [Clients -> {"none", "DisConnected", "Connected"}]
        /\ channel' \in [Clients -> {"none", "added", "mapped", "reading"}]
    BY <2>1 DEF Types, Cleared
  <2>3. /\ mainPc' \in {"poll", "tasks"} \cup SetUp \cup TearDown
        /\ newConn' # 0 <=> mainPc' \in SetUp
        /\ mConnectionSet' \subseteq Clients
    BY <2>1 DEF Types, Cleared, SetUp, TearDown
  <2>4. UNCHANGED <<newConn, loopOf, mPendingTasks>>
    BY <2>1 DEF Cleared
  <2> QED  BY <2>1, <2>2, <2>3, <2>4 DEF Types
<1> QED  BY <1>1, <1>2
-----------------------------------------------------------------------------
(***************************************************************************)
(* Who holds a connection.                                                 *)
(***************************************************************************)
LEMMA UnseenHeld ==
  ASSUME Held, Unseen PROVE Held'
<1>1. UNCHANGED <<newConn, channel, mState, loopOf, mConnectionSet, mPendingTasks>>
  BY DEF Unseen
<1>2. (mainPc' \in Gone <=> mainPc \in Gone) /\ (mainPc' \in Early <=> mainPc \in Early)
  BY DEF Unseen
<1>3. Owned'
  BY <1>1 DEF Held, Owned, Open
<1>4. Kept'
  BY <1>1, <1>2 DEF Held, Kept, Open
<1>5. Closed'
  BY <1>1, <1>2 DEF Held, Closed, Open
<1>6. HeldAfterwards'
  BY <1>1, <1>2 DEF Held, HeldAfterwards, Open
<1> QED  BY <1>3, <1>4, <1>5, <1>6 DEF Held

LEMMA AcceptedHeld ==
  ASSUME Types, Held, NEW c \in Clients, NEW l \in Loop, Accepted(c, l) PROVE Held'
<1>1. newConn = 0 /\ newConn' = c /\ mainPc' \in Early /\ mainPc \notin Gone /\ mainPc' \notin Gone
  BY DEF Types, Accepted, SetUp, Early, Gone
<1>2. UNCHANGED <<channel, mConnectionSet, mPendingTasks>>
  BY DEF Accepted
<1>3. \A d \in Clients : d # c => loopOf'[d] = loopOf[d] /\ mState'[d] = mState[d]
  BY DEF Types, Accepted
<1>4. loopOf'[c] = l
  BY DEF Types, Accepted
<1>5. Owned'
  BY <1>1, <1>2, <1>3, <1>4 DEF Held, Owned, Open
<1>6. Kept'
  BY <1>1, <1>2, MainNotInPool DEF Held, Kept, Open
<1>7. Closed'
  BY <1>1, <1>2, <1>3, MainNotInPool DEF Held, Closed, Open
<1>8. HeldAfterwards'
  BY <1>1 DEF HeldAfterwards
<1> QED  BY <1>5, <1>6, <1>7, <1>8 DEF Held

LEMMA DestroyedHeld ==
  ASSUME Types, Held, NEW l \in Loop, NEW c \in Clients, Destroyed(l, c) PROVE Held'
<1>1. UNCHANGED <<mainPc, newConn, mState, loopOf>>
  BY DEF Destroyed
<1>2. \A d \in Clients : Open(d)' => Open(d) /\ d # c
  BY DEF Types, Destroyed, Open
<1>3. mConnectionSet' = mConnectionSet \ {c}
  BY DEF Destroyed
<1>4. \A k \in Loop, d \in Clients : d # c /\ d \in mPendingTasks[k] => d \in mPendingTasks'[k]
  BY DEF Types, Destroyed
<1>5. Owned'
  BY <1>1, <1>2 DEF Held, Owned
<1>6. Kept'
  BY <1>1, <1>2, <1>3 DEF Held, Kept
<1>7. Closed'
  BY <1>1, <1>2, <1>4 DEF Held, Closed, Owned
<1>8. HeldAfterwards'
  BY <1>1, <1>2, <1>4 DEF Held, HeldAfterwards, Owned
<1> QED  BY <1>5, <1>6, <1>7, <1>8 DEF Held

LEMMA ClosedNowHeld ==
  ASSUME Types, Held, NEW c \in Clients, ClosedNow(c) PROVE Held'
<1>1. UNCHANGED <<mainPc, newConn, channel, loopOf, mConnectionSet>>
  BY DEF ClosedNow
<1>2. \A d \in Clients : d # c => mState'[d] = mState[d]
  BY DEF Types, ClosedNow
<1>3. \A k \in Loop : mPendingTasks[k] \subseteq mPendingTasks'[k]
  BY DEF Types, ClosedNow
<1>4. c \in mPendingTasks'[loopOf[c]]
  BY DEF Types, ClosedNow
<1>5. Owned'
  BY <1>1 DEF Held, Owned, Open
<1>6. Kept'
  BY <1>1 DEF Held, Kept, Open
<1>7. Closed'
  <2> SUFFICES ASSUME NEW d \in Clients, Open(d)', mState'[d] # "Connected",
                      ~(d = newConn' /\ mainPc' \in Early)
               PROVE  d \in mPendingTasks'[loopOf'[d]]
    BY DEF Closed
  <2>1. Open(d) /\ loopOf[d] \in Loop
    BY <1>1 DEF Held, Owned, Open
  <2> QED  BY <2>1, <1>1, <1>2, <1>3, <1>4 DEF Held, Closed
<1>8. HeldAfterwards'
  <2> SUFFICES ASSUME NEW d \in Clients, Open(d)', mainPc' \in Gone
               PROVE  d \in mPendingTasks'[loopOf'[d]]
    BY DEF HeldAfterwards
  <2>1. Open(d) /\ loopOf[d] \in Loop
    BY <1>1 DEF Held, Owned, Open
  <2> QED  BY <2>1, <1>1, <1>3 DEF Held, HeldAfterwards
<1> QED  BY <1>5, <1>6, <1>7, <1>8 DEF Held

(* What the destructor does not destroy was closed before.                 *)
LEMMA ClearedHeld ==
  ASSUME Types, Held, Cleared PROVE Held'
<1> DEFINE last == {c \in mConnectionSet : mState[c] = "Connected"}
<1>1. newConn = 0 /\ mainPc' \in Gone /\ mainPc \notin Gone /\ newConn' = 0
  BY DEF Types, Cleared, SetUp, Gone
<1>2. UNCHANGED <<loopOf, mPendingTasks>>
  BY DEF Cleared
<1>3. \A c \in Clients : Open(c)' => Open(c) /\ c \notin last
  BY DEF Cleared, Open
<1>4. \A c \in Clients : Open(c)' => mState[c] # "Connected"
  BY <1>1, <1>3, MainNotInPool DEF Held, Kept
<1>5. \A c \in Clients : Open(c)' => c \in mPendingTasks[loopOf[c]]
  BY <1>1, <1>3, <1>4, MainNotInPool DEF Held, Closed
<1>6. Owned'
  BY <1>1, <1>2, <1>3 DEF Held, Owned
<1>7. Kept' /\ HeldAfterwards'
  BY <1>1, <1>2, <1>5 DEF Kept, HeldAfterwards
<1>8. Closed'
  BY <1>2, <1>5 DEF Closed
<1> QED  BY <1>6, <1>7, <1>8 DEF Held

LEMMA SetUpHeld ==
  ASSUME Types, Held, SetUpStep PROVE Held'
<1>1. newConn \in Clients /\ newConn # 0
  BY DEF Types, SetUpStep, AddChannel, InsertChannel, EnableRead, SetConnected, TellConnected, Insert, SetUp
<1>2. mainPc \notin Gone /\ mainPc' \notin Gone /\ UNCHANGED <<loopOf, mPendingTasks>>
  BY DEF SetUpStep, AddChannel, InsertChannel, EnableRead, SetConnected, TellConnected, Insert, Gone
<1>3. \A d \in Clients : Open(d)' => Open(d) \/ d = newConn
  BY DEF Types, SetUpStep, AddChannel, InsertChannel, EnableRead, SetConnected, TellConnected, Insert, Open
<1>4. newConn' = newConn \/ newConn' = 0
  BY DEF SetUpStep, AddChannel, InsertChannel, EnableRead, SetConnected, TellConnected, Insert
<1>5. mConnectionSet \cup {newConn} \subseteq mConnectionSet' \cup {newConn'}
  BY DEF SetUpStep, AddChannel, InsertChannel, EnableRead, SetConnected, TellConnected, Insert
<1>6. Owned'
  BY <1>1, <1>2, <1>3, <1>4 DEF Held, Owned
<1>7. Kept'
  BY <1>2, <1>3, <1>5 DEF Held, Kept
<1>8. HeldAfterwards'
  BY <1>2 DEF HeldAfterwards
<1>9. Closed'
  <2>1. CASE AddChannel \/ InsertChannel \/ EnableRead
    <3>1. newConn' = newConn /\ mainPc' \in Early /\ mState' = mState /\ mainPc \in Early
      BY <2>1 DEF AddChannel, InsertChannel, EnableRead, Early
    <3> QED  BY <3>1, <1>2, <1>3 DEF Held, Closed
  <2>2. CASE SetConnected
    <3>1. newConn' = newConn /\ mState' = [mState EXCEPT ![newConn] = "Connected"] /\ channel' = channel
      BY <2>2 DEF SetConnected
    <3>2. mState'[newConn] = "Connected" /\ \A d \in Clients : d # newConn => mState'[d] = mState[d]
      BY <3>1, <1>1 DEF Types
    <3> QED  BY <3>1, <3>2, <1>2 DEF Held, Closed, Open
  <2>3. CASE TellConnected \/ Insert
    <3>1. mainPc \notin Early /\ mState' = mState /\ channel' = channel
      BY <2>3 DEF TellConnected, Insert, Early
    <3> QED  BY <3>1, <1>2 DEF Held, Closed, Open
  <2> QED  BY <2>1, <2>2, <2>3 DEF SetUpStep
<1> QED  BY <1>6, <1>7, <1>8, <1>9 DEF Held

(* Every step is one of these.                                             *)
LEMMA NextSteps ==
  ASSUME Types, Next
  PROVE  /\ Types'
         /\ \/ Unseen
            \/ \E c \in Clients, l \in Loop : Accepted(c, l)
            \/ SetUpStep
            \/ \E c \in Clients, l \in Loop : Destroyed(l, c)
            \/ \E c \in Clients : ClosedNow(c)
            \/ Cleared
<1>1. CASE createNewConnection
  BY <1>1, CreateTypes
<1>2. CASE SetUpStep
  BY <1>2, SetUpTypes
<1>3. CASE \E l \in Loops : ThreadStep(l)
  BY <1>3, ThreadStepTypes
<1>4. CASE \E l \in Loop : LoopStep(l)
  <2>1. PICK l \in Loop : LoopStep(l)
    BY <1>4
  <2>2. CASE Iterate(l)
    BY <2>2, IterateTypes
  <2>3. CASE \E c \in Clients : DestroyTask(l, c)
    BY <2>3, DestroyTaskTypes
  <2> QED  BY <2>1, <2>2, <2>3 DEF LoopStep
<1>5. CASE \E c \in Clients : PeerMoves(c) \/ HandleEvent(c)
  BY <1>5, PeerMovesTypes, HandleEventTypes
<1>6. CASE Quit \/ QuitLoops \/ Join
  BY <1>6, TearDownTypes
<1>7. CASE ClearConnections
  BY <1>7, ClearConnectionsTypes
<1> QED  BY <1>1, <1>2, <1>3, <1>4, <1>5, <1>6, <1>7 DEF Next

LEMMA NextHeld ==
  ASSUME Types, Held, Next PROVE Held'
BY NextSteps, UnseenHeld, AcceptedHeld, SetUpHeld, DestroyedHeld, ClosedNowHeld, ClearedHeld
-----------------------------------------------------------------------------
(***************************************************************************)
(* How many there are.                                                     *)
(***************************************************************************)
LEMMA FewClients == \A S \in SUBSET Clients : IsFiniteSet(S)
<1>1. IsFiniteSet(Clients)
  BY FS_Interval, ServerAssumption DEF Clients
<1> QED  BY <1>1, FS_Subset

LEMMA SmallerSet ==
  ASSUME NEW S, NEW T, IsFiniteSet(T), S \subseteq T, Cardinality(T) <= MAX_CONNECTION_NUMS
  PROVE  Cardinality(S) <= MAX_CONNECTION_NUMS
<1>1. IsFiniteSet(S) /\ Cardinality(S) <= Cardinality(T)
  BY FS_Subset
<1>2. Cardinality(S) \in Nat /\ Cardinality(T) \in Nat
  BY <1>1, FS_CardinalityType
<1> QED  BY <1>1, <1>2, ServerAssumption

(* Only an accepted connection counts anew, and then the set was not full. *)
LEMMA NextBounded ==
  ASSUME Types, Bounded, Next PROVE Bounded'
<1>1. IsFiniteSet(Counted)
  BY FewClients DEF Types, Counted
<1>2. ASSUME NEW c \in Clients, NEW l \in Loop, Accepted(c, l) PROVE Bounded'
  <2>1. newConn = 0
    BY <1>2 DEF Types, Accepted, SetUp
  <2>2. Counted = mConnectionSet /\ Counted' = mConnectionSet \cup {c}
    BY <1>2, <2>1, MainNotInPool DEF Accepted, Counted
  <2>3. Cardinality(mConnectionSet) # MAX_CONNECTION_NUMS
    BY <1>2 DEF Accepted, Full
  <2>4. Cardinality(mConnectionSet) \in Nat
    BY <1>1, <2>2, FS_CardinalityType
  <2>5. \/ Cardinality(Counted') = Cardinality(mConnectionSet)
        \/ Cardinality(Counted') = Cardinality(mConnectionSet) + 1
    BY <1>1, <2>2, FS_AddElement
  <2>6. Cardinality(mConnectionSet) <= MAX_CONNECTION_NUMS
    BY <2>2 DEF Bounded
  <2> QED  BY <2>3, <2>4, <2>5, <2>6, ServerAssumption DEF Bounded
<1>3. ASSUME Counted' \subseteq Counted PROVE Bounded'
  BY <1>1, <1>3, SmallerSet DEF Bounded
<1>4. CASE Unseen
  BY <1>3, <1>4 DEF Unseen, Counted
<1>5. CASE SetUpStep
  <2>1. Counted' \subseteq Counted
    BY <1>5 DEF SetUpStep, AddChannel, InsertChannel, EnableRead, SetConnected, TellConnected,
                Insert, Counted, Types, SetUp
  <2> QED  BY <1>3, <2>1
<1>6. CASE \E c \in Clients, l \in Loop : Destroyed(l, c)
  <2>1. Counted' \subseteq Counted
    BY <1>6 DEF Destroyed, Counted
  <2> QED  BY <1>3, <2>1
<1>7. CASE \E c \in Clients : ClosedNow(c)
  <2>1. Counted' \subseteq Counted
    BY <1>7 DEF ClosedNow, Counted
  <2> QED  BY <1>3, <2>1
<1>8. CASE Cleared
  <2>1. Counted' \subseteq Counted
    BY <1>8 DEF Cleared, Counted
  <2> QED  BY <1>3, <2>1
<1> QED  BY <1>2, <1>4, <1>5, <1>6, <1>7, <1>8, NextSteps

Opened == {c \in Clients : channel[c] # "none"} \cup mConnectionSet

(* While the set lives, what is open is counted; later nothing is opened.  *)
LEMMA NextOpenBounded ==
  ASSUME Types, Held, Bounded, OpenBounded, Next PROVE OpenBounded'
<1>1. Types' /\ Held' /\ Bounded'
  BY NextSteps, NextHeld, NextBounded
<1>2. CASE mainPc' \notin Gone
  <2>1. Opened' \subseteq Counted'
    BY <1>1, <1>2, MainNotInPool DEF Held, Kept, Open, Opened, Counted
  <2>2. IsFiniteSet(Counted')
    BY <1>1, FewClients DEF Types, Counted
  <2>3. Cardinality(Opened') <= MAX_CONNECTION_NUMS
    BY <1>1, <2>1, <2>2, SmallerSet DEF Bounded
  <2> QED  BY <2>3 DEF OpenBounded, Opened
<1>3. CASE mainPc' \in Gone
  <2>1. ~SetUpStep /\ \A c \in Clients, l \in Loop : ~Accepted(c, l)
    BY <1>3 DEF SetUpStep, AddChannel, InsertChannel, EnableRead, SetConnected, TellConnected,
                Insert, Accepted, Gone
  <2>2. Opened' \subseteq Opened
    <3>1. CASE Unseen
      BY <3>1 DEF Unseen, Opened
    <3>2. CASE \E c \in Clients, l \in Loop : Destroyed(l, c)
      BY <3>2 DEF Destroyed, Opened, Types
    <3>3. CASE \E c \in Clients : ClosedNow(c)
      BY <3>3 DEF ClosedNow, Opened
    <3>4. CASE Cleared
      BY <3>4 DEF Cleared, Opened
    <3> QED  BY <2>1, <3>1, <3>2, <3>3, <3>4, NextSteps
  <2>3. IsFiniteSet(Opened)
    BY FewClients DEF Types, Opened
  <2>4. Cardinality(Opened') <= MAX_CONNECTION_NUMS
    BY <2>2, <2>3, SmallerSet DEF OpenBounded, Opened
  <2> QED  BY <2>4 DEF OpenBounded, Opened
<1> QED  BY <1>2, <1>3
-----------------------------------------------------------------------------
(***************************************************************************)
(* When the threads end.                                                   *)
(***************************************************************************)
LEMMA NextLeaving ==
  ASSUME Types, Leaving, Next PROVE Leaving'
<1>1. ASSUME UNCHANGED <<mSubThreads, mainPc, threadPc, mIsExit>> PROVE Leaving'
  BY <1>1 DEF Leaving, JoinedOnlyWithoutThreads
<1>2. CASE createNewConnection
  <2>1. CASE Fails("noLoop") \/ Fails("accept")
    BY <2>1, FailsTypes
  <2>2. CASE ~(Fails("noLoop") \/ Fails("accept"))
    <3>1. mainPc = "poll" /\ mainPc' \in {"poll", "add"} /\ mIsExit' = mIsExit
      BY <2>2, <1>2 DEF createNewConnection, acquireLoop, poolVars
    <3>2. \A l \in Loops : threadPc'[l] = threadPc[l] \/ threadPc'[l] = "check"
      BY <2>2, <1>2 DEF createNewConnection, acquireLoop, NotifyAll, poolVars
    <3> QED  BY <3>1, <3>2 DEF Leaving, JoinedOnlyWithoutThreads
  <2> QED  BY <2>1, <2>2
<1>3. CASE SetUpStep
  <2>1. mainPc \in SetUp /\ mainPc' \notin {"join", "joined"} /\ UNCHANGED <<threadPc, mIsExit>>
    BY <1>3 DEF SetUpStep, AddChannel, InsertChannel, EnableRead, SetConnected, TellConnected,
                Insert, SetUp, poolVars
  <2>2. mainPc \notin {"join", "joined"}
    BY <2>1 DEF SetUp
  <2> QED  BY <2>1, <2>2 DEF Leaving, JoinedOnlyWithoutThreads
<1>4. ASSUME NEW l \in Loops, ThreadStep(l) PROVE Leaving'
  <2>1. UNCHANGED <<mSubThreads, mainPc>> /\ mSubThreads # {}
    BY <1>4 DEF ThreadStep
  <2>2. CASE Register(l) \/ Check(l)
    <3>1. /\ mIsExit' = mIsExit
          /\ \A k \in Loops : threadPc'[k] = threadPc[k] \/ threadPc'[k] \in {"wait", "startLoop"}
      BY <2>2 DEF Register, Check, Types
    <3> QED  BY <2>1, <3>1 DEF Leaving, JoinedOnlyWithoutThreads
  <2>3. CASE StartLoop(l)
    <3>1. /\ threadPc'[l] = "poll" /\ ~mIsExit'[l]
          /\ \A k \in Loops : k # l => threadPc'[k] = threadPc[k] /\ mIsExit'[k] = mIsExit[k]
      BY <2>3 DEF StartLoop, Types
    <3> QED  BY <2>1, <3>1 DEF Leaving, JoinedOnlyWithoutThreads
  <2>4. CASE Leave(l)
    <3>1. /\ threadPc[l] = "leaving" /\ mainPc # "join" /\ mIsExit' = mIsExit
          /\ threadPc'[l] = "done"
          /\ \A k \in Loops : k # l => threadPc'[k] = threadPc[k]
      BY <2>4 DEF Leave, MutexFree, Types
    <3> QED  BY <2>1, <3>1 DEF Leaving, JoinedOnlyWithoutThreads
  <2> QED  BY <1>4, <2>2, <2>3, <2>4 DEF ThreadStep
<1>5. ASSUME NEW l \in Loop, LoopStep(l) PROVE Leaving'
  <2>1. ASSUME NEW c \in Clients, DestroyTask(l, c) PROVE Leaving'
    <3>1. UNCHANGED <<mSubThreads, mainPc, threadPc, mIsExit>>
      BY <2>1 DEF DestroyTask, Fails, poolVars
    <3> QED  BY <3>1, <1>1
  <2>2. CASE Iterate(l) /\ l = main
    <3>1. /\ mainPc \in {"poll", "tasks"} /\ mainPc' \in {"poll", "tasks"}
          /\ UNCHANGED <<threadPc, mIsExit>>
      BY <2>2 DEF Iterate, MoveTo, Pc
    <3> QED  BY <3>1 DEF Leaving, JoinedOnlyWithoutThreads
  <2>3. CASE Iterate(l) /\ l # main
    <3>1. l \in Loops /\ UNCHANGED <<mSubThreads, mainPc, mIsExit>>
      BY <2>3 DEF Iterate, MoveTo, Loop
    <3>2. /\ threadPc[l] \in {"poll", "tasks"}
          /\ threadPc'[l] \in {"poll", "tasks"} \/ (mIsExit[l] /\ threadPc'[l] = "leaving")
          /\ \A k \in Loops : k # l => threadPc'[k] = threadPc[k]
      BY <2>3, <3>1 DEF Iterate, MoveTo, Pc, Types
    <3> QED  BY <3>1, <3>2 DEF Leaving, JoinedOnlyWithoutThreads
  <2> QED  BY <1>5, <2>1, <2>2, <2>3 DEF LoopStep
<1>6. ASSUME NEW c \in Clients, PeerMoves(c) \/ HandleEvent(c) PROVE Leaving'
  <2>1. UNCHANGED <<mSubThreads, mainPc, threadPc, mIsExit>>
    BY <1>6 DEF PeerMoves, HandleEvent, Fails, poolVars
  <2> QED  BY <2>1, <1>1
<1>7. CASE Quit \/ ClearConnections
  <2>1. mainPc \notin {"join", "joined"} /\ mainPc' \notin {"join", "joined"}
    BY <1>7 DEF Quit, ClearConnections, Fails
  <2>2. UNCHANGED <<threadPc, mIsExit>>
    BY <1>7 DEF Quit, ClearConnections, Fails, poolVars
  <2> QED  BY <2>1, <2>2 DEF Leaving, JoinedOnlyWithoutThreads
<1>8. CASE QuitLoops
  <2>1. /\ mainPc = "pool" /\ mainPc' = "join"
        /\ \A l \in Loops : threadPc'[l] = threadPc[l] \/ threadPc'[l] = "check"
    BY <1>8 DEF QuitLoops, NotifyAll
  <2> QED  BY <2>1 DEF Leaving, JoinedOnlyWithoutThreads
<1>9. CASE Join
  <2>1. /\ mainPc = "join" /\ mainPc' = "joined" /\ UNCHANGED <<mSubThreads, threadPc>>
        /\ \A l \in mSubThreads : threadPc[l] = "done"
    BY <1>9 DEF Join, poolVars
  <2>2. mSubThreads = {}
    BY <2>1 DEF Types, Leaving
  <2> QED  BY <2>1, <2>2 DEF Leaving, JoinedOnlyWithoutThreads
<1> QED  BY <1>2, <1>3, <1>4, <1>5, <1>6, <1>7, <1>8, <1>9 DEF Next
-----------------------------------------------------------------------------
LEMMA Initially ==
  ASSUME Init PROVE IInv
<1>1. Types
  BY DEF Init, Types, SetUp
<1>2. Held
  BY DEF Init, Held, Owned, Kept, Closed, HeldAfterwards, Open
<1>3. Counted = {} /\ Opened = {}
  BY DEF Init, Counted, Opened
<1>4. Bounded /\ OpenBounded
  BY <1>3, FS_EmptySet, ServerAssumption DEF Bounded, OpenBounded, Opened
<1>5. Leaving
  BY DEF Init, Leaving, JoinedOnlyWithoutThreads
<1> QED  BY <1>1, <1>2, <1>4, <1>5 DEF IInv

LEMMA Inductive ==
  ASSUME IInv, [Next]_vars PROVE IInv'
<1>1. CASE Next
  BY <1>1, NextSteps, NextHeld, NextBounded, NextOpenBounded, NextLeaving DEF IInv
<1>2. CASE UNCHANGED vars
  <2>1. UNCHANGED <<mSubThreads, mainPc, newConn, threadPc, mIsExit, backlog, mState, channel,
                    loopOf, mConnectionSet, mPendingTasks>>
    BY <1>2 DEF vars, poolVars, clientVars, connVars
  <2>2. Types'
    BY <2>1 DEF IInv, Types
  <2>3. Unseen
    BY <2>1 DEF Unseen
  <2>4. Held'
    BY <2>3, UnseenHeld DEF IInv
  <2>5. Bounded' /\ OpenBounded'
    BY <2>1 DEF IInv, Bounded, Counted, OpenBounded
  <2>6. Leaving'
    BY <2>1 DEF IInv, Leaving, JoinedOnlyWithoutThreads
  <2> QED  BY <2>2, <2>4, <2>5, <2>6 DEF IInv
<1> QED  BY <1>1, <1>2

LEMMA Invariant == Spec => []IInv
BY Initially, Inductive, PTL DEF Spec

(* An object that epoll can still call back lives: before the destructor   *)
(* the set or the main thread holds it, later the task that destroys it,   *)
(* for whatever was still Connected went with the set                      *)
(* (TcpServer.cpp:165-181).                                                *)
THEOREM OpenIsHeld == Spec => []HeldWhileOpen
<1>1. IInv => HeldWhileOpen
  BY DEF IInv, Held, Kept, HeldAfterwards, Open, HeldWhileOpen
<1> QED  BY <1>1, Invariant, PTL

(* No more than MAX_CONNECTION_NUMS connections are open: the one that is  *)
(* being set up counts from the moment the size of the set was looked at,  *)
(* and until it is in the set no other is accepted                         *)
(* (TcpServer.cpp:137,165-181).                                            *)
THEOREM OpenNeverTooMany == Spec => []OpenBounded
<1>1. IInv => OpenBounded
  BY DEF IInv
<1> QED  BY <1>1, Invariant, PTL

(* ~TcpServer returns only if there are no sub threads: no thread is past  *)
(* its loop before the destructor has mMutex, and none gets by it          *)
(* afterwards (EventLoopPool.cpp:46,57-70).                                *)
THEOREM NeverJoins == Spec => []JoinedOnlyWithoutThreads
<1>1. IInv => JoinedOnlyWithoutThreads
  BY DEF IInv, Leaving
<1> QED  BY <1>1, Invariant, PTL
-----------------------------------------------------------------------------
(***************************************************************************)
(* The loops of the pool, the clients that arrive, and the calls.          *)
(***************************************************************************)
LoopStates == {"Initialized", "Running", "Exit"}
CallNames == {"connected", "message", "disconnected"}
Failures == {"none", "noLoop", "accept", "fdNotExisted", "handleRead", "handleClose",
             "removeChannel", "freedSet"}

(* Every loop that is registered has a state.                              *)
PoolTypes ==
    /\ mSubLoops \in Seq(mSubThreads)
    /\ mSubLoopStates \in [ToSet(mSubLoops) -> LoopStates]

Recorded ==
    /\ peer \in [Clients -> {"away", "quiet", "data", "fin", "reset", "closed"}]
    /\ told \in [Clients -> Seq(CallNames)]
    /\ failure \in Failures

Away == {c \in Clients : peer[c] = "away"}

(* A client arrives once, waits in the backlog once, and takes one loop.   *)
Arrivals ==
    /\ \A i \in 1 .. Len(backlog) : peer[backlog[i]] # "away" /\ mState[backlog[i]] = "none"
    /\ \A i, j \in 1 .. Len(backlog) : backlog[i] = backlog[j] => i = j
    /\ \A c \in Away : mState[c] = "none"
    /\ mIndex \in Nat /\ mIndex + Len(backlog) + Cardinality(Away) <= NumClients

(* Nothing is known of a client before it is accepted.                     *)
Untouched ==
    \A c \in Clients : mState[c] = "none" =>
        /\ channel[c] = "none" /\ told[c] = <<>> /\ loopOf[c] = -1
        /\ c \notin mConnectionSet /\ c # newConn

LEMMA ToSetAppend ==
  ASSUME NEW S, NEW s \in Seq(S), NEW x \in S
  PROVE  ToSet(Append(s, x)) = ToSet(s) \cup {x}
<1> DEFINE t == Append(s, x)
<1>1. /\ Len(s) \in Nat /\ DOMAIN s = 1 .. Len(s) /\ DOMAIN t = 1 .. Len(s) + 1
      /\ t[Len(s) + 1] = x /\ \A i \in 1 .. Len(s) : t[i] = s[i]
  OBVIOUS
<1> HIDE DEF t
<1>2. ToSet(t) = {t[i] : i \in 1 .. Len(s) + 1} /\ ToSet(s) = {s[i] : i \in 1 .. Len(s)}
  BY <1>1 DEF ToSet
<1>3. \A i \in 1 .. Len(s) + 1 : t[i] \in {s[j] : j \in 1 .. Len(s)} \cup {x}
  BY <1>1
<1>4. \A i \in 1 .. Len(s) : i \in 1 .. Len(s) + 1 /\ s[i] = t[i]
  BY <1>1
<1>5. Len(s) + 1 \in 1 .. Len(s) + 1
  BY <1>1
<1> QED  BY <1>1, <1>2, <1>3, <1>4, <1>5 DEF t

LEMMA NextPool ==
  ASSUME Types, PoolTypes, Next PROVE PoolTypes'
<1>1. ASSUME UNCHANGED <<mSubThreads, mSubLoops, mSubLoopStates>> PROVE PoolTypes'
  BY <1>1 DEF PoolTypes
<1>2. CASE createNewConnection
  <2>1. CASE Fails("noLoop") \/ Fails("accept")
    BY <1>1, <2>1 DEF Fails, poolVars
  <2>2. CASE \E l \in Loop : acquireLoop(l)
    <3>1. PICK l \in Loop : acquireLoop(l)
      BY <2>2
    <3>2. mSubLoops' = mSubLoops
      BY <3>1 DEF acquireLoop, poolVars
    <3>3. mSubLoopStates' = mSubLoopStates
          \/ mSubLoopStates' = [mSubLoopStates EXCEPT ![l] = "Running"]
      BY <3>1 DEF acquireLoop, poolVars
    <3>4. mSubThreads' = mSubThreads
      BY <1>2 DEF createNewConnection, Fails
    <3> QED  BY <3>2, <3>3, <3>4 DEF PoolTypes, LoopStates
  <2> QED  BY <1>2, <2>1, <2>2 DEF createNewConnection
<1>3. ASSUME NEW l \in Loops, ThreadStep(l) PROVE PoolTypes'
  <2>1. CASE Register(l)
    <3>1. /\ l \in mSubThreads /\ mSubThreads' = mSubThreads
          /\ mSubLoops' = Append(mSubLoops, l)
          /\ mSubLoopStates' = [k \in DOMAIN mSubLoopStates \cup {l} |->
                                   IF k = l THEN "Initialized" ELSE mSubLoopStates[k]]
      BY <1>3, <2>1 DEF ThreadStep, Register
    <3>2. mSubLoops' \in Seq(mSubThreads) /\ ToSet(mSubLoops') = ToSet(mSubLoops) \cup {l}
      BY <3>1, ToSetAppend DEF PoolTypes
    <3>3. mSubLoopStates' \in [ToSet(mSubLoops) \cup {l} -> LoopStates]
      BY <3>1 DEF PoolTypes, LoopStates
    <3> QED  BY <3>1, <3>2, <3>3 DEF PoolTypes
  <2>2. CASE ~Register(l)
    BY <1>1, <1>3, <2>2 DEF ThreadStep, Check, StartLoop, Leave
  <2> QED  BY <2>1, <2>2
<1>4. ASSUME NEW l \in Loop, LoopStep(l) PROVE PoolTypes'
  BY <1>1, <1>4 DEF LoopStep, Iterate, DestroyTask, Fails, poolVars
<1>5. CASE SetUpStep
  BY <1>1, <1>5 DEF SetUpStep, poolVars
<1>6. ASSUME NEW c \in Clients, PeerMoves(c) \/ HandleEvent(c) PROVE PoolTypes'
  BY <1>1, <1>6 DEF PeerMoves, HandleEvent, Fails, poolVars
<1>7. CASE Quit \/ ClearConnections \/ Join
  BY <1>1, <1>7 DEF Quit, ClearConnections, Join, Fails, poolVars
<1>8. CASE QuitLoops
  <2>1. /\ UNCHANGED <<mSubThreads, mSubLoops>>
        /\ mSubLoopStates' = [l \in DOMAIN mSubLoopStates |-> "Exit"]
    BY <1>8 DEF QuitLoops
  <2> QED  BY <2>1 DEF PoolTypes, LoopStates
<1> QED  BY <1>2, <1>3, <1>4, <1>5, <1>6, <1>7, <1>8 DEF Next

LEMMA TellTypes ==
  ASSUME Recorded, NEW c \in Clients, NEW what \in CallNames, Tell(c, what)
  PROVE  /\ told' \in [Clients -> Seq(CallNames)]
         /\ \A d \in Clients : d # c => told'[d] = told[d]
         /\ \/ what = "message" /\ told'[c] = told[c] /\ told[c] # <<>>
            \/ told'[c] = Append(told[c], what)
<1>1. \/ what = "message" /\ told' = told /\ told[c] # <<>>
      \/ told' = [told EXCEPT ![c] = Append(@, what)]
  BY DEF Tell
<1>2. told \in [Clients -> Seq(CallNames)] /\ Append(told[c], what) \in Seq(CallNames)
  BY DEF Recorded
<1> QED  BY <1>1, <1>2

LEMMA NextRecorded ==
  ASSUME Types, Recorded, Next PROVE Recorded'
<1>1. ASSUME UNCHANGED <<peer, told>>, failure' \in Failures PROVE Recorded'
  BY <1>1 DEF Recorded
<1>2. ASSUME NEW where \in Failures, Fails(where) PROVE Recorded'
  BY <1>1, <1>2 DEF Fails, clientVars
<1>3. {"connected", "message", "disconnected"} \subseteq CallNames
      /\ \A state : View(state) \in CallNames
  BY DEF CallNames, View
<1>4. Failures = {"none", "noLoop", "accept", "fdNotExisted", "handleRead", "handleClose",
                  "removeChannel", "freedSet"}
  BY DEF Failures
<1>5. failure \in Failures
  BY DEF Recorded
<1>6. CASE createNewConnection
  <2>1. CASE Fails("noLoop") \/ Fails("accept")
    BY <1>2, <1>4, <2>1
  <2>2. CASE ~(Fails("noLoop") \/ Fails("accept"))
    <3>1. /\ UNCHANGED <<told, failure>>
          /\ \E c \in Clients : peer' = peer \/ peer' = [peer EXCEPT ![c] = "closed"]
      BY <1>6, <2>2 DEF createNewConnection, Types
    <3> QED  BY <3>1 DEF Recorded
  <2> QED  BY <2>1, <2>2
<1>7. CASE SetUpStep
  <2>1. UNCHANGED <<peer, failure>>
    BY <1>7 DEF SetUpStep, clientVars
  <2>2. CASE TellConnected
    <3>1. newConn \in Clients /\ Tell(newConn, View(mState[newConn]))
      BY <2>2 DEF TellConnected, Types, SetUp
    <3> QED  BY <2>1, <3>1, <1>3, TellTypes DEF Recorded
  <2>3. CASE ~TellConnected
    <3>1. told' = told
      BY <1>7, <2>3 DEF SetUpStep, AddChannel, InsertChannel, EnableRead, SetConnected, Insert
    <3> QED  BY <2>1, <3>1 DEF Recorded
  <2> QED  BY <2>2, <2>3
<1>8. ASSUME NEW l \in Loops, ThreadStep(l) PROVE Recorded'
  BY <1>1, <1>5, <1>8 DEF ThreadStep, clientVars
<1>9. ASSUME NEW l \in Loop, LoopStep(l) PROVE Recorded'
  <2>1. CASE Iterate(l)
    BY <1>1, <1>5, <2>1 DEF Iterate, clientVars
  <2>2. ASSUME NEW c \in Clients, DestroyTask(l, c) PROVE Recorded'
    <3>1. CASE Fails("freedSet")
      BY <1>2, <1>4, <3>1
    <3>2. CASE peer' = [peer EXCEPT ![c] = "closed"] /\ UNCHANGED <<told, failure>>
      BY <3>2 DEF Recorded
    <3> QED  BY <2>2, <3>1, <3>2 DEF DestroyTask
  <2> QED  BY <1>9, <2>1, <2>2 DEF LoopStep
<1>10. ASSUME NEW c \in Clients, PeerMoves(c) PROVE Recorded'
  <2>1. UNCHANGED <<told, failure>>
        /\ \E to \in {"quiet", "data", "fin", "reset"} : peer' = [peer EXCEPT ![c] = to]
    BY <1>10 DEF PeerMoves
  <2> QED  BY <2>1 DEF Recorded
<1>11. ASSUME NEW c \in Clients, HandleEvent(c) PROVE Recorded'
  <2>1. CASE Fails("fdNotExisted") \/ Fails("handleClose") \/ Fails("handleRead")
    BY <1>2, <1>4, <2>1
  <2>2. CASE peer' = [peer EXCEPT ![c] = "fin"] /\ UNCHANGED <<told, failure>>
    BY <2>2 DEF Recorded
  <2>3. CASE handleRead(c)
    <3>1. peer' \in [Clients -> {"away", "quiet", "data", "fin", "reset", "closed"}]
      BY <2>3 DEF handleRead, Recorded
    <3>2. failure' = failure
      BY <2>3 DEF handleRead, handleClose, CloseCallback
    <3>3. Tell(c, "message") \/ Tell(c, "disconnected")
      BY <2>3 DEF handleRead, handleClose
    <3> QED  BY <3>1, <3>2, <3>3, <1>3, TellTypes DEF Recorded
  <2> QED  BY <1>11, <2>1, <2>2, <2>3 DEF HandleEvent
<1>12. CASE Quit \/ QuitLoops \/ Join
  BY <1>1, <1>5, <1>12 DEF Quit, QuitLoops, Join, clientVars
<1>13. CASE ClearConnections
  BY <1>1, <1>2, <1>4, <1>5, <1>13 DEF ClearConnections, clientVars
<1> QED  BY <1>6, <1>7, <1>8, <1>9, <1>10, <1>11, <1>12, <1>13 DEF Next

(* A step in which no client arrives or is accepted.                       *)
NobodyNew ==
    /\ UNCHANGED <<backlog, mIndex>>
    /\ \A c \in Clients : peer'[c] = "away" => peer[c] = "away"
    /\ \A c \in Clients : mState'[c] = "none" <=> mState[c] = "none"
    /\ \A c \in Clients : mState[c] = "none" =>
          /\ channel'[c] = channel[c] /\ told'[c] = told[c] /\ loopOf'[c] = loopOf[c]
          /\ c \in mConnectionSet' => c \in mConnectionSet
          /\ c = newConn' => c = newConn

LEMMA FewAway ==
  ASSUME NEW S \in SUBSET Clients PROVE IsFiniteSet(S) /\ Cardinality(S) \in Nat
BY FewClients, FS_CardinalityType

LEMMA NobodyNewArrives ==
  ASSUME Types, Arrivals, Untouched, NobodyNew PROVE Arrivals' /\ Untouched'
<1>1. \A i \in 1 .. Len(backlog) : backlog[i] \in Clients
  BY DEF Types
<1>2. Away' \subseteq Away /\ Away \in SUBSET Clients /\ Away' \in SUBSET Clients
  BY DEF NobodyNew, Away
<1>3. Cardinality(Away') <= Cardinality(Away) /\ Cardinality(Away') \in Nat /\ Cardinality(Away) \in Nat
  BY <1>2, FewAway, FS_Subset
<1>4. \A i \in 1 .. Len(backlog') : peer'[backlog'[i]] # "away" /\ mState'[backlog'[i]] = "none"
  BY <1>1 DEF Arrivals, NobodyNew
<1>5. \A i, j \in 1 .. Len(backlog') : backlog'[i] = backlog'[j] => i = j
  BY DEF Arrivals, NobodyNew
<1>6. \A c \in Away' : mState'[c] = "none"
  BY <1>2 DEF Arrivals, NobodyNew
<1>7. mIndex' \in Nat /\ mIndex' + Len(backlog') + Cardinality(Away') <= NumClients
  <2>1. Len(backlog) \in Nat /\ NumClients \in Nat
    BY ServerAssumption DEF Types
  <2> QED  BY <1>3, <2>1 DEF Arrivals, NobodyNew
<1>8. Untouched'
  BY DEF Untouched, NobodyNew
<1> QED  BY <1>4, <1>5, <1>6, <1>7, <1>8 DEF Arrivals

LEMMA FailsNobodyNew ==
  ASSUME Types, Untouched, NEW where, Fails(where) PROVE NobodyNew
BY DEF Fails, NobodyNew, poolVars, clientVars, connVars

LEMMA SetUpNobodyNew ==
  ASSUME Types, Recorded, Untouched, SetUpStep PROVE NobodyNew
<1>1. newConn \in Clients /\ mState[newConn] # "none"
  BY DEF Types, SetUpStep, AddChannel, InsertChannel, EnableRead, SetConnected, TellConnected, Insert, SetUp,
         Untouched
<1>2. UNCHANGED <<backlog, mIndex, peer, loopOf>> /\ newConn' \in {newConn, 0}
  BY DEF SetUpStep, AddChannel, InsertChannel, EnableRead, SetConnected, TellConnected, Insert,
         poolVars, clientVars
<1>3. \A c \in Clients : c # newConn => mState'[c] = mState[c] /\ channel'[c] = channel[c]
  BY DEF Types, SetUpStep, AddChannel, InsertChannel, EnableRead, SetConnected, TellConnected, Insert
<1>4. mState'[newConn] # "none"
  BY <1>1 DEF Types, SetUpStep, AddChannel, InsertChannel, EnableRead, SetConnected, TellConnected, Insert
<1>5. \A c \in Clients : c # newConn => told'[c] = told[c]
  <2>1. CASE TellConnected
    <3>1. Tell(newConn, View(mState[newConn])) /\ View(mState[newConn]) \in CallNames
      BY <2>1 DEF TellConnected, View, CallNames
    <3> QED  BY <1>1, <3>1, TellTypes
  <2>2. CASE ~TellConnected
    BY <2>2 DEF SetUpStep, AddChannel, InsertChannel, EnableRead, SetConnected, Insert
  <2> QED  BY <2>1, <2>2
<1>6. \A c \in mConnectionSet' : c \in mConnectionSet \/ c = newConn
  BY DEF SetUpStep, AddChannel, InsertChannel, EnableRead, SetConnected, TellConnected, Insert
<1> QED  BY <1>1, <1>2, <1>3, <1>4, <1>5, <1>6, MainNotInPool DEF NobodyNew

LEMMA HandleEventNobodyNew ==
  ASSUME Types, Recorded, Untouched, NEW c \in Clients, HandleEvent(c) PROVE NobodyNew
<1>1. CASE Fails("fdNotExisted") \/ Fails("handleClose") \/ Fails("handleRead")
  BY <1>1, FailsNobodyNew
<1>2. CASE /\ UNCHANGED <<mSubThreads, mainPc, newConn, poolVars, backlog, channel, loopOf, mConnectionSet>>
           /\ channel[c] = "reading"
           /\ \/ /\ peer[c] = "reset" /\ peer' = [peer EXCEPT ![c] = "fin"]
                 /\ UNCHANGED <<mState, told, mPendingTasks, failure>>
              \/ mState[c] = "Connected" /\ handleRead(c)
  <2>1. mState[c] # "none"
    BY <1>2 DEF Untouched
  <2>2. CASE peer' = [peer EXCEPT ![c] = "fin"] /\ UNCHANGED <<mState, told>>
    BY <1>2, <2>2 DEF NobodyNew, Recorded, poolVars
  <2>3. CASE handleRead(c)
    <3>1. \A d \in Clients : peer'[d] = "away" => peer[d] = "away"
      BY <2>3 DEF handleRead, Recorded
    <3>2. Tell(c, "message") \/ Tell(c, "disconnected")
      BY <2>3 DEF handleRead, handleClose
    <3>3. \A d \in Clients : d # c => told'[d] = told[d]
      BY <3>2, TellTypes DEF CallNames
    <3>4. mState' = mState \/ mState' = [mState EXCEPT ![c] = "DisConnected"]
      BY <2>3 DEF handleRead, handleClose
    <3> QED  BY <1>2, <2>1, <3>1, <3>3, <3>4 DEF NobodyNew, Types, poolVars
  <2> QED  BY <1>2, <2>2, <2>3
<1> QED  BY <1>1, <1>2 DEF HandleEvent

LEMMA LoopNobodyNew ==
  ASSUME Types, Recorded, Untouched, NEW l \in Loop, LoopStep(l) PROVE NobodyNew
<1>1. CASE Iterate(l)
  BY <1>1 DEF Iterate, NobodyNew, clientVars, connVars
<1>2. ASSUME NEW c \in Clients, DestroyTask(l, c) PROVE NobodyNew
  <2>1. CASE Fails("freedSet")
    BY <2>1, FailsNobodyNew
  <2>2. CASE /\ channel' = [channel EXCEPT ![c] = "none"]
             /\ mConnectionSet' = mConnectionSet \ {c}
             /\ peer' = [peer EXCEPT ![c] = "closed"]
             /\ UNCHANGED <<newConn, poolVars, backlog, mState, loopOf, told>>
    <3>1. \A d \in Clients : peer'[d] = "away" => peer[d] = "away"
      BY <2>2 DEF Recorded
    <3>2. \A d \in Clients : mState[d] = "none" => channel'[d] = channel[d]
      BY <2>2 DEF Untouched, Types
    <3> QED  BY <2>2, <3>1, <3>2 DEF NobodyNew, poolVars
  <2> QED  BY <1>2, <2>1, <2>2 DEF DestroyTask
<1> QED  BY <1>1, <1>2 DEF LoopStep

LEMMA ClearNobodyNew ==
  ASSUME Types, Untouched, ClearConnections PROVE NobodyNew
<1>1. CASE Fails("removeChannel")
  BY <1>1, FailsNobodyNew
<1>2. CASE ~Fails("removeChannel")
  BY <1>2 DEF ClearConnections, NobodyNew, Types, poolVars, clientVars
<1> QED  BY <1>1, <1>2

LEMMA ArriveStep ==
  ASSUME Types, Recorded, Arrivals, Untouched, NEW c \in Clients, PeerMoves(c)
  PROVE  Arrivals' /\ Untouched'
<1>1. UNCHANGED <<mIndex, newConn, mState, channel, loopOf, mConnectionSet, told>>
  BY DEF PeerMoves, poolVars, connVars
<1>2. CASE UNCHANGED backlog /\ \E to \in {"data", "fin", "reset"} :
              Moves(peer[c], to) /\ peer' = [peer EXCEPT ![c] = to]
  <2>1. NobodyNew
    BY <1>1, <1>2 DEF NobodyNew, Recorded
  <2> QED  BY <2>1, NobodyNewArrives
<1>3. CASE /\ peer[c] = "away" /\ peer' = [peer EXCEPT ![c] = "quiet"]
           /\ backlog' = Append(backlog, c)
  <2> DEFINE n == Len(backlog) + 1
  <2>1. /\ Len(backlog) \in Nat /\ Len(backlog') = n /\ backlog'[n] = c
        /\ \A i \in 1 .. Len(backlog) : backlog'[i] = backlog[i] /\ backlog[i] \in Clients
    BY <1>3 DEF Types
  <2>2. Away' = Away \ {c} /\ c \in Away /\ Away \in SUBSET Clients
    BY <1>3 DEF Away, Recorded
  <2>3. Cardinality(Away') = Cardinality(Away) - 1 /\ Cardinality(Away) \in Nat
    BY <2>2, FewAway, FS_RemoveElement
  <2>4. \A i \in 1 .. Len(backlog') : peer'[backlog'[i]] # "away" /\ mState'[backlog'[i]] = "none"
    BY <1>1, <1>3, <2>1, <2>2 DEF Arrivals, Recorded
  <2>5. \A i, j \in 1 .. Len(backlog') : backlog'[i] = backlog'[j] => i = j
    <3>1. \A i \in 1 .. Len(backlog) : backlog[i] # c
      BY <1>3 DEF Arrivals
    <3>2. \A i \in 1 .. n : i \in 1 .. Len(backlog) \/ i = n
      BY <2>1
    <3> QED  BY <2>1, <3>1, <3>2 DEF Arrivals
  <2>6. \A d \in Away' : mState'[d] = "none"
    BY <1>1, <2>2 DEF Arrivals
  <2>7. mIndex' \in Nat /\ mIndex' + Len(backlog') + Cardinality(Away') <= NumClients
    BY <1>1, <2>1, <2>3, ServerAssumption DEF Arrivals
  <2>8. Untouched'
    BY <1>1 DEF Untouched
  <2> QED  BY <2>4, <2>5, <2>6, <2>7, <2>8 DEF Arrivals
<1> QED  BY <1>2, <1>3 DEF PeerMoves

LEMMA AcceptStep ==
  ASSUME Types, Recorded, Arrivals, Untouched, createNewConnection
  PROVE  Arrivals' /\ Untouched'
<1>1. CASE Fails("noLoop") \/ Fails("accept")
  BY <1>1, FailsNobodyNew, NobodyNewArrives
<1>2. CASE ~(Fails("noLoop") \/ Fails("accept"))
  <2>1. PICK c \in {Head(backlog)}, l \in Loop :
            /\ acquireLoop(l)
            /\ IF Full
               THEN /\ peer' = [peer EXCEPT ![c] = "closed"]
                    /\ UNCHANGED <<mainPc, newConn, mState, loopOf>>
               ELSE /\ mainPc' = "add"
                    /\ newConn' = c
                    /\ mState' = [mState EXCEPT ![c] = "DisConnected"]
                    /\ loopOf' = [loopOf EXCEPT ![c] = l]
                    /\ UNCHANGED peer
    BY <1>2 DEF createNewConnection
  <2>2. backlog # <<>> /\ backlog' = Tail(backlog) /\ UNCHANGED <<channel, mConnectionSet, told>>
    BY <1>2 DEF createNewConnection
  <2>3. /\ Len(backlog) \in Nat \ {0} /\ Len(backlog') = Len(backlog) - 1 /\ c = backlog[1]
        /\ \A i \in 1 .. Len(backlog) - 1 : backlog'[i] = backlog[i + 1]
        /\ \A i \in 1 .. Len(backlog) : backlog[i] \in Clients
    BY <2>1, <2>2 DEF Types
  <2>4. /\ \A i \in 1 .. Len(backlog') : /\ backlog'[i] # c /\ backlog'[i] \in Clients
                                        /\ peer[backlog'[i]] # "away" /\ mState[backlog'[i]] = "none"
        /\ \A i, j \in 1 .. Len(backlog') : backlog'[i] = backlog'[j] => i = j
    <3>1. \A i \in 1 .. Len(backlog') : i + 1 \in 1 .. Len(backlog) /\ i + 1 # 1
      BY <2>3
    <3>2. 1 \in 1 .. Len(backlog)
      BY <2>3
    <3>3. ASSUME NEW i \in 1 .. Len(backlog'), NEW j \in 1 .. Len(backlog'), backlog'[i] = backlog'[j]
          PROVE  i = j
      <4>1. i + 1 = j + 1
        BY <2>3, <3>1, <3>3 DEF Arrivals
      <4> QED  BY <2>3, <4>1
    <3> QED  BY <2>3, <3>1, <3>2, <3>3 DEF Arrivals
  <2>5. c \in Clients /\ peer[c] # "away" /\ mState[c] = "none"
    BY <2>3 DEF Arrivals
  <2>6. Away' = Away /\ Away \in SUBSET Clients
    BY <2>1, <2>5 DEF Away, Recorded
  <2>7. mIndex' \in {mIndex, mIndex + 1}
    BY <2>1 DEF acquireLoop, poolVars
  <2>8. mIndex' \in Nat /\ mIndex' + Len(backlog') + Cardinality(Away') <= NumClients
    <3>1. Cardinality(Away) \in Nat
      BY <2>6, FewAway
    <3> QED  BY <3>1, <2>3, <2>6, <2>7, ServerAssumption DEF Arrivals
  <2>9. \A d \in Clients : d # c => peer'[d] = peer[d] /\ mState'[d] = mState[d] /\ loopOf'[d] = loopOf[d]
    BY <2>1 DEF Types, Recorded
  <2>10. Arrivals'
    <3>1. \A d \in Away' : d # c /\ mState'[d] = "none"
      BY <2>5, <2>6, <2>9 DEF Arrivals, Away
    <3> QED  BY <2>4, <2>8, <2>9, <3>1 DEF Arrivals
  <2>11. Untouched'
    <3>1. CASE Full
      BY <2>1, <2>2, <3>1 DEF Untouched
    <3>2. CASE ~Full
      <4>1. mState'[c] = "DisConnected" /\ newConn' = c
        BY <2>1, <2>5, <3>2 DEF Types
      <4> QED  BY <2>2, <2>9, <4>1 DEF Untouched
    <3> QED  BY <3>1, <3>2
  <2> QED  BY <2>10, <2>11
<1> QED  BY <1>1, <1>2

LEMMA NextArrives ==
  ASSUME Types, Recorded, Arrivals, Untouched, Next PROVE Arrivals' /\ Untouched'
<1>1. CASE NobodyNew
  BY <1>1, NobodyNewArrives
<1>2. ASSUME NEW l \in Loops, ThreadStep(l) PROVE NobodyNew
  BY <1>2 DEF NobodyNew, ThreadStep, Register, Check, StartLoop, Leave, clientVars, connVars
<1>3. CASE Quit \/ QuitLoops \/ Join
  <2>1. NobodyNew
    BY <1>3 DEF NobodyNew, Quit, QuitLoops, Join, poolVars, clientVars, connVars
  <2> QED  BY <1>1, <2>1
<1> QED  BY <1>1, <1>2, <1>3, ArriveStep, AcceptStep, SetUpNobodyNew, HandleEventNobodyNew,
            LoopNobodyNew, ClearNobodyNew DEF Next
-----------------------------------------------------------------------------
(***************************************************************************)
(* A server with no sub threads: while its one loop handles an event or a  *)
(* task, no connection is half set up.                                     *)
(***************************************************************************)
OnMain ==
    /\ \A c \in Clients : loopOf[c] \in {main, -1}
    /\ \A l \in Loops : mPendingTasks[l] = {}

(* The channel of the connection that is set up.                           *)
ChannelAt(pc) ==
    CASE pc = "add"           -> "none"
      [] pc = "insertChannel" -> "added"
      [] pc = "enableRead"    -> "mapped"
      [] OTHER                -> "reading"

Stages ==
    /\ newConn # 0 =>
          /\ channel[newConn] = ChannelAt(mainPc)
          /\ mState[newConn] = IF mainPc \in Early THEN "DisConnected" ELSE "Connected"
    /\ \A c \in Clients : c # newConn => channel[c] \in {"none", "reading"}
    /\ \A c \in mConnectionSet : channel[c] = "reading" /\ c # newConn

(* User code was told of the connection, and not yet of its close.         *)
Going(calls) ==
    /\ Len(calls) > 0 /\ calls[1] = "connected"
    /\ \A i \in 2 .. Len(calls) : calls[i] = "message"

Untold == Early \cup {"tell"}

Calls ==
    \A c \in Clients :
        /\ c = newConn /\ mainPc \in Untold => told[c] = <<>>
        /\ ~(c = newConn /\ mainPc \in Untold) =>
              Orderly(told[c]) /\ (mState[c] = "Connected" => Going(told[c]))

Single == OnMain /\ Stages /\ Calls /\ failure \in {"none", "accept"}

LEMMA GoingOrderly ==
  ASSUME NEW calls \in Seq(CallNames), Going(calls) PROVE Orderly(calls)
<1>1. DOMAIN calls = 1 .. Len(calls) /\ Len(calls) \in Nat
  OBVIOUS
<1>2. \A i \in 1 .. Len(calls) : i # 1 => i \in 2 .. Len(calls)
  BY <1>1
<1> QED  BY <1>1, <1>2 DEF Going, Orderly

LEMMA GoingBegins == Orderly(<<>>) /\ Going(Append(<<>>, "connected"))
<1>1. Append(<<>>, "connected") = <<"connected">>
  OBVIOUS
<1>2. Len(<<"connected">>) = 1 /\ <<"connected">>[1] = "connected"
  OBVIOUS
<1> QED  BY <1>1, <1>2 DEF Orderly, Going

LEMMA GoingOn ==
  ASSUME NEW calls \in Seq(CallNames), Going(calls)
  PROVE  Going(Append(calls, "message")) /\ Orderly(Append(calls, "disconnected"))
<1>1. \A what \in CallNames :
          /\ Len(Append(calls, what)) = Len(calls) + 1
          /\ DOMAIN Append(calls, what) = 1 .. Len(calls) + 1
          /\ Append(calls, what)[Len(calls) + 1] = what
          /\ \A i \in 1 .. Len(calls) : Append(calls, what)[i] = calls[i]
  OBVIOUS
<1>2. Len(calls) \in Nat \ {0} /\ "message" \in CallNames /\ "disconnected" \in CallNames
  BY DEF Going, CallNames
<1>3. \A i \in 1 .. Len(calls) + 1 : i = Len(calls) + 1 \/ i \in 1 .. Len(calls)
  BY <1>2
<1>4. \A i \in 1 .. Len(calls) : i = 1 \/ i \in 2 .. Len(calls)
  BY <1>2
<1>5. Going(Append(calls, "message"))
  <2> DEFINE after == Append(calls, "message")
  <2>1. Len(after) = Len(calls) + 1 /\ after[Len(calls) + 1] = "message"
        /\ \A i \in 1 .. Len(calls) : after[i] = calls[i]
    BY <1>1, <1>2
  <2> HIDE DEF after
  <2>2. \A i \in 2 .. Len(after) : i = Len(calls) + 1 \/ i \in 2 .. Len(calls)
    BY <1>2, <2>1
  <2>3. \A i \in 2 .. Len(after) : after[i] = "message"
    BY <1>2, <2>1, <2>2 DEF Going
  <2>4. after[1] = "connected" /\ Len(after) > 0
    BY <1>2, <2>1 DEF Going
  <2> QED  BY <2>3, <2>4 DEF Going, after
<1>6. Orderly(Append(calls, "disconnected"))
  <2> DEFINE after == Append(calls, "disconnected")
  <2>1. /\ Len(after) = Len(calls) + 1 /\ after[Len(calls) + 1] = "disconnected"
        /\ DOMAIN after = 1 .. Len(calls) + 1
        /\ \A i \in 1 .. Len(calls) : after[i] = calls[i]
    BY <1>1, <1>2
  <2> HIDE DEF after
  <2>2. \A i \in DOMAIN after : /\ after[i] = "connected" <=> i = 1
                                /\ after[i] = "disconnected" => i = Len(after)
    BY <1>2, <1>3, <1>4, <2>1 DEF Going
  <2> QED  BY <2>2 DEF Orderly, after
<1> QED  BY <1>5, <1>6

(* A step that changes nothing a connection or user code sees.             *)
LEMMA UnseenSingle ==
  ASSUME Single, UNCHANGED <<newConn, channel, mState, loopOf, mConnectionSet, mPendingTasks, told>>,
         newConn # 0 => mainPc' = mainPc,
         mainPc' \in Untold <=> mainPc \in Untold,
         failure' \in {"none", "accept"}
  PROVE  Single'
<1>1. OnMain' /\ Stages'
  BY DEF Single, OnMain, Stages
<1>2. Calls'
  BY DEF Single, Calls
<1> QED  BY <1>1, <1>2 DEF Single

LEMMA SetUpSingle ==
  ASSUME Types, Recorded, Untouched, Single, SetUpStep PROVE Single'
<1>1. newConn \in Clients /\ newConn # 0
  BY DEF Types, SetUpStep, AddChannel, InsertChannel, EnableRead, SetConnected, TellConnected, Insert, SetUp
<1>2. OnMain' /\ failure' \in {"none", "accept"}
  BY DEF Single, OnMain, SetUpStep
<1>3. CASE AddChannel \/ InsertChannel \/ EnableRead
  <2>1. /\ UNCHANGED <<newConn, mState, told, mConnectionSet>>
        /\ mainPc \in Early /\ mainPc' \in Early
        /\ channel' = [channel EXCEPT ![newConn] = ChannelAt(mainPc')]
    BY <1>3 DEF AddChannel, InsertChannel, EnableRead, Early, ChannelAt
  <2>2. channel'[newConn] = ChannelAt(mainPc')
        /\ \A c \in Clients : c # newConn => channel'[c] = channel[c]
    BY <1>1, <2>1 DEF Types
  <2>3. Stages'
    BY <1>1, <2>1, <2>2 DEF Single, Stages, Types
  <2>4. Calls'
    BY <2>1 DEF Single, Calls, Untold
  <2> QED  BY <1>2, <2>3, <2>4 DEF Single
<1>4. CASE SetConnected
  <2>1. /\ UNCHANGED <<newConn, channel, told, mConnectionSet>>
        /\ mainPc = "connect" /\ mainPc' = "tell"
        /\ mState' = [mState EXCEPT ![newConn] = "Connected"]
    BY <1>4 DEF SetConnected
  <2>2. mState'[newConn] = "Connected" /\ \A c \in Clients : c # newConn => mState'[c] = mState[c]
    BY <1>1, <2>1 DEF Types
  <2>3. Stages'
    BY <1>1, <2>1, <2>2 DEF Single, Stages, ChannelAt, Early
  <2>4. Calls'
    BY <2>1, <2>2 DEF Single, Calls, Untold, Early
  <2> QED  BY <1>2, <2>3, <2>4 DEF Single
<1>5. CASE TellConnected
  <2>1. /\ UNCHANGED <<newConn, mState, channel, mConnectionSet>>
        /\ mainPc = "tell" /\ mainPc' = "insert"
        /\ Tell(newConn, View(mState[newConn]))
    BY <1>5 DEF TellConnected
  <2>2. mState[newConn] = "Connected" /\ View(mState[newConn]) = "connected"
    BY <1>1, <2>1 DEF Single, Stages, Early, View
  <2>3. told[newConn] = <<>>
    BY <1>1, <2>1 DEF Single, Calls, Untold
  <2>4. told'[newConn] = Append(<<>>, "connected")
        /\ \A c \in Clients : c # newConn => told'[c] = told[c]
    BY <1>1, <2>1, <2>2, <2>3, TellTypes DEF CallNames
  <2>5. Going(told'[newConn]) /\ Orderly(told'[newConn])
    <3>1. Append(<<>>, "connected") \in Seq(CallNames)
      BY DEF CallNames
    <3> QED  BY <2>4, <3>1, GoingBegins, GoingOrderly
  <2>6. Stages'
    BY <1>1, <2>1, <2>2 DEF Single, Stages, ChannelAt, Early
  <2>7. Calls'
    BY <2>1, <2>4, <2>5 DEF Single, Calls, Untold, Early
  <2> QED  BY <1>2, <2>6, <2>7 DEF Single
<1>6. CASE Insert
  <2>1. /\ UNCHANGED <<mState, channel, told>> /\ mConnectionSet' = mConnectionSet \cup {newConn}
        /\ mainPc = "insert" /\ mainPc' = "poll" /\ newConn' = 0
    BY <1>6 DEF Insert
  <2>2. channel[newConn] = "reading"
    BY <1>1, <2>1 DEF Single, Stages, ChannelAt
  <2>3. Stages'
    BY <1>1, <2>1, <2>2, MainNotInPool DEF Single, Stages, Types
  <2>4. Calls'
    BY <2>1, MainNotInPool DEF Single, Calls, Untold, Early
  <2> QED  BY <1>2, <2>3, <2>4 DEF Single
<1> QED  BY <1>3, <1>4, <1>5, <1>6 DEF SetUpStep

LEMMA CreateSingle ==
  ASSUME Types, PoolTypes, Recorded, Arrivals, Untouched, Single, mSubThreads = {},
         createNewConnection
  PROVE  Single'
<1>1. mSubLoops = <<>>
  BY DEF PoolTypes
<1>2. newConn = 0 /\ mainPc = "poll"
  BY DEF createNewConnection, Types, SetUp
<1>3. CASE Fails("accept")
  BY <1>3, UnseenSingle DEF Fails, connVars, clientVars
<1>4. CASE ~(Fails("noLoop") \/ Fails("accept"))
  <2>1. PICK c \in {Head(backlog)}, l \in Loop :
            /\ acquireLoop(l)
            /\ IF Full
               THEN /\ peer' = [peer EXCEPT ![c] = "closed"]
                    /\ UNCHANGED <<mainPc, newConn, mState, loopOf>>
               ELSE /\ mainPc' = "add"
                    /\ newConn' = c
                    /\ mState' = [mState EXCEPT ![c] = "DisConnected"]
                    /\ loopOf' = [loopOf EXCEPT ![c] = l]
                    /\ UNCHANGED peer
    BY <1>4 DEF createNewConnection
  <2>2. backlog # <<>> /\ UNCHANGED <<channel, mConnectionSet, mPendingTasks, told, failure>>
    BY <1>4 DEF createNewConnection
  <2>3. l = main
    BY <1>1, <2>1 DEF acquireLoop
  <2>4. c \in Clients /\ mState[c] = "none"
    <3>1. Head(backlog) = backlog[1] /\ 1 \in 1 .. Len(backlog) /\ Head(backlog) \in Clients
      BY <2>2 DEF Types
    <3> QED  BY <2>1, <3>1 DEF Arrivals
  <2>5. CASE Full
    BY <2>1, <2>2, <2>5, UnseenSingle DEF Single
  <2>6. CASE ~Full
    <3>1. /\ mainPc' = "add" /\ newConn' = c /\ mState'[c] = "DisConnected" /\ loopOf'[c] = main
          /\ \A d \in Clients : d # c => mState'[d] = mState[d] /\ loopOf'[d] = loopOf[d]
      BY <2>1, <2>3, <2>4, <2>6 DEF Types
    <3>2. channel[c] = "none" /\ told[c] = <<>> /\ c \notin mConnectionSet
      BY <2>4 DEF Untouched
    <3>3. OnMain'
      BY <2>2, <3>1 DEF Single, OnMain
    <3>4. Stages'
      BY <1>2, <2>2, <3>1, <3>2, MainNotInPool DEF Single, Stages, ChannelAt, Early, Types
    <3>5. Calls'
      BY <1>2, <2>2, <3>1, <3>2, MainNotInPool DEF Single, Calls, Untold, Early
    <3> QED  BY <2>2, <3>3, <3>4, <3>5 DEF Single
  <2> QED  BY <2>5, <2>6
<1>5. CASE Fails("noLoop") /\ ~Fails("accept")
  BY <1>5 DEF createNewConnection, Fails, Single
<1> QED  BY <1>3, <1>4, <1>5

(* A task that destroys a connection runs in the main loop.                *)
LEMMA DestroySingle ==
  ASSUME Types, Recorded, Single, NEW l \in Loop, NEW c \in Clients, DestroyTask(l, c)
  PROVE  Single'
<1>1. l = main
  BY DEF DestroyTask, Single, OnMain, Loop
<1>2. mainPc = "tasks" /\ newConn = 0
  BY <1>1 DEF DestroyTask, Pc, Types, SetUp
<1>3. /\ channel' = [channel EXCEPT ![c] = "none"]
      /\ mConnectionSet' = mConnectionSet \ {c}
      /\ mPendingTasks' = [mPendingTasks EXCEPT ![l] = @ \ {c}]
      /\ UNCHANGED <<mainPc, newConn, mState, loopOf, told, failure>>
  BY <1>2 DEF DestroyTask
<1>4. OnMain'
  BY <1>1, <1>3, MainNotInPool DEF Single, OnMain, Types
<1>5. Stages'
  BY <1>2, <1>3 DEF Single, Stages, Types
<1>6. Calls'
  BY <1>3 DEF Single, Calls
<1> QED  BY <1>3, <1>4, <1>5, <1>6 DEF Single

LEMMA EventSingle ==
  ASSUME Types, Recorded, Untouched, Held, Single, NEW c \in Clients, HandleEvent(c)
  PROVE  Single'
<1>1. loopOf[c] = main /\ mainPc = "poll" /\ newConn = 0
  BY DEF HandleEvent, Single, OnMain, Pc, Types, SetUp
<1>2. channel[c] \in {"none", "reading"}
  BY <1>1, MainNotInPool DEF Single, Stages
<1>3. channel[c] = "reading" => mState[c] = "Connected"
  BY <1>1, MainNotInPool DEF HandleEvent, Held, Closed, Open
<1>4. /\ channel[c] = "reading" /\ mState[c] = "Connected"
      /\ UNCHANGED <<mSubThreads, mainPc, newConn, channel, loopOf, mConnectionSet>>
      /\ \/ UNCHANGED <<mState, told, mPendingTasks, failure>>
         \/ handleRead(c)
  BY <1>2, <1>3 DEF HandleEvent
<1>5. CASE UNCHANGED <<mState, told, mPendingTasks, failure>>
  BY <1>4, <1>5, UnseenSingle DEF Single
<1>6. CASE handleRead(c)
  <2>1. Going(told[c]) /\ told[c] \in Seq(CallNames)
    BY <1>1, <1>4, MainNotInPool DEF Single, Calls, Recorded
  <2>2. CASE /\ Tell(c, "message")
             /\ UNCHANGED <<mState, mPendingTasks, failure>>
    <3>1. told'[c] = told[c] \/ told'[c] = Append(told[c], "message")
      BY <2>2, TellTypes DEF CallNames
    <3>2. told'[c] \in Seq(CallNames) /\ \A d \in Clients : d # c => told'[d] = told[d]
      BY <2>2, TellTypes DEF CallNames
    <3>3. Going(told'[c])
      BY <2>1, <3>1, GoingOn
    <3>4. Orderly(told'[c])
      BY <3>2, <3>3, GoingOrderly
    <3>5. Calls'
      BY <1>1, <1>4, <2>2, <3>2, <3>3, <3>4, MainNotInPool DEF Single, Calls
    <3>6. OnMain' /\ Stages'
      BY <1>4, <2>2 DEF Single, OnMain, Stages
    <3> QED  BY <2>2, <3>5, <3>6 DEF Single
  <2>3. CASE handleClose(c)
    <3>1. /\ mState' = [mState EXCEPT ![c] = "DisConnected"]
          /\ mPendingTasks' = [mPendingTasks EXCEPT ![main] = @ \cup {c}]
          /\ Tell(c, "disconnected") /\ failure' = failure
      BY <1>1, <2>3 DEF handleClose, CloseCallback
    <3>2. told'[c] = Append(told[c], "disconnected")
          /\ \A d \in Clients : d # c => told'[d] = told[d]
      BY <3>1, TellTypes DEF CallNames
    <3>3. Orderly(told'[c])
      BY <2>1, <3>2, GoingOn
    <3>4. mState'[c] = "DisConnected" /\ \A d \in Clients : d # c => mState'[d] = mState[d]
      BY <3>1 DEF Types
    <3>5. Calls'
      BY <1>1, <1>4, <3>2, <3>3, <3>4, MainNotInPool DEF Single, Calls
    <3>6. OnMain'
      BY <1>4, <3>1, MainNotInPool DEF Single, OnMain, Types
    <3>7. Stages'
      BY <1>1, <1>4 DEF Single, Stages
    <3> QED  BY <3>1, <3>5, <3>6, <3>7 DEF Single
  <2> QED  BY <1>6, <2>2, <2>3 DEF handleRead
<1> QED  BY <1>4, <1>5, <1>6

LEMMA ClearSingle ==
  ASSUME Types, Held, Single, ClearConnections PROVE Single'
<1> DEFINE last == {c \in mConnectionSet : mState[c] = "Connected"}
<1>1. newConn = 0 /\ mainPc = "stopped"
  BY DEF ClearConnections, Types, SetUp
<1>2. \A c \in last : loopOf[c] = main
  <2>1. \A c \in mConnectionSet : c \in Clients /\ Open(c)
    BY DEF Types, Single, Stages, Open
  <2>2. -1 \notin Loop
    BY ServerAssumption DEF Loop, Loops, main
  <2> QED  BY <2>1, <2>2 DEF Single, OnMain, Held, Owned
<1>3. /\ mainPc' = "pool"
      /\ mState' = [c \in Clients |-> IF c \in last THEN "DisConnected" ELSE mState[c]]
      /\ channel' = [c \in Clients |-> IF c \in last THEN "none" ELSE channel[c]]
      /\ mConnectionSet' = {}
      /\ UNCHANGED <<newConn, loopOf, mPendingTasks, told, failure>>
  BY <1>2 DEF ClearConnections
<1>4. OnMain'
  BY <1>3 DEF Single, OnMain
<1>5. Stages'
  BY <1>1, <1>3 DEF Single, Stages
<1>6. Calls'
  BY <1>1, <1>3, MainNotInPool DEF Single, Calls
<1> QED  BY <1>3, <1>4, <1>5, <1>6 DEF Single

LEMMA NextSingle ==
  ASSUME Types, PoolTypes, Recorded, Arrivals, Untouched, Held, mSubThreads = {}, Single, Next
  PROVE  Single'
<1>1. ASSUME UNCHANGED <<newConn, connVars, mConnectionSet, mPendingTasks, told, failure>>,
             newConn # 0 => mainPc' = mainPc, mainPc' \in Untold <=> mainPc \in Untold
      PROVE  Single'
  BY <1>1, UnseenSingle DEF connVars, Single
<1>2. ASSUME NEW l \in Loops, ThreadStep(l) PROVE Single'
  BY <1>2 DEF ThreadStep
<1>3. ASSUME NEW l \in Loop, LoopStep(l) PROVE Single'
  <2>1. CASE Iterate(l)
    <3>1. \/ mainPc' = mainPc
          \/ mainPc \in {"poll", "tasks"} /\ mainPc' \in {"poll", "tasks"} /\ newConn = 0
      BY <2>1 DEF Iterate, MoveTo, Pc, Types, SetUp
    <3> QED  BY <2>1, <3>1, <1>1 DEF Iterate, Untold, Early
  <2>2. CASE \E c \in Clients : DestroyTask(l, c)
    BY <2>2, DestroySingle
  <2> QED  BY <1>3, <2>1, <2>2 DEF LoopStep
<1>4. ASSUME NEW c \in Clients, PeerMoves(c) PROVE Single'
  BY <1>1, <1>4 DEF PeerMoves
<1>5. CASE Quit \/ QuitLoops \/ Join
  <2>1. newConn = 0 /\ mainPc \notin Untold /\ mainPc' \notin Untold
    BY <1>5 DEF Quit, QuitLoops, Join, Types, SetUp, Untold, Early
  <2>2. UNCHANGED <<newConn, connVars, mConnectionSet, mPendingTasks, told, failure>>
    BY <1>5 DEF Quit, QuitLoops, Join
  <2> QED  BY <2>1, <2>2, <1>1
<1> QED  BY <1>2, <1>3, <1>4, <1>5, CreateSingle, SetUpSingle, EventSingle, ClearSingle DEF Next
-----------------------------------------------------------------------------
(* What the types and the order of a single loop need beside IInv.         *)
Detail ==
    PoolTypes /\ Recorded /\ Arrivals /\ Untouched /\ (mSubThreads = {} => Single)

LEMMA DetailInitially ==
  ASSUME Init PROVE Detail
<1>1. PoolTypes
  <2>1. ToSet(<<>>) = {}
    BY DEF ToSet
  <2> QED  BY <2>1 DEF Init, PoolTypes
<1>2. Recorded
  BY DEF Init, Recorded, Failures
<1>3. Arrivals
  <2>1. Away = 1 .. NumClients
    BY DEF Init, Away, Clients
  <2>2. Cardinality(Away) = NumClients
    BY <2>1, FS_Interval, ServerAssumption
  <2>3. \A c \in Away : mState[c] = "none"
    BY DEF Init, Away
  <2> QED  BY <2>2, <2>3, ServerAssumption DEF Init, Arrivals
<1>4. Untouched
  BY MainNotInPool DEF Init, Untouched
<1>5. Single
  <2>1. OnMain /\ Stages
    BY DEF Init, OnMain, Stages, Loop
  <2>2. Calls
    BY GoingBegins DEF Init, Calls
  <2> QED  BY <2>1, <2>2 DEF Init, Single
<1> QED  BY <1>1, <1>2, <1>3, <1>4, <1>5 DEF Detail

LEMMA DetailInductive ==
  ASSUME IInv, Detail, [Next]_vars PROVE Detail'
<1>1. CASE Next
  <2>1. mSubThreads' = mSubThreads
    BY <1>1 DEF Next, createNewConnection, SetUpStep, ThreadStep, LoopStep, Iterate, DestroyTask,
                PeerMoves, HandleEvent, Quit, ClearConnections, QuitLoops, Join, Fails
  <2> QED  BY <1>1, <2>1, NextPool, NextRecorded, NextArrives, NextSingle DEF IInv, Detail
<1>2. CASE UNCHANGED vars
  <2>1. UNCHANGED <<mSubThreads, mainPc, newConn, mSubLoops, mSubLoopStates, mIndex, backlog, peer,
                    mState, channel, loopOf, mConnectionSet, mPendingTasks, told, failure>>
    BY <1>2 DEF vars, poolVars, clientVars, connVars
  <2>2. PoolTypes' /\ Recorded'
    BY <2>1 DEF Detail, PoolTypes, Recorded
  <2>3. Arrivals' /\ Untouched'
    BY <2>1 DEF Detail, Arrivals, Away, Untouched
  <2>4. mSubThreads' = {} => Single'
    BY <2>1, UnseenSingle DEF Detail, Single
  <2> QED  BY <2>2, <2>3, <2>4 DEF Detail
<1> QED  BY <1>1, <1>2

LEMMA DetailInvariant == Spec => []Detail
BY DetailInitially, DetailInductive, Invariant, PTL DEF Spec

(* Type correctness; among it, that every loop in mSubLoops has a state,   *)
(* and no more loops are taken than clients arrive                         *)
(* (EventLoopPool.cpp:30-46,76-95).                                        *)
THEOREM ServerTypeOK == Spec => []TypeOK
<1>1. IInv /\ Detail => TypeOK
  <2> SUFFICES ASSUME IInv, Detail PROVE TypeOK
    OBVIOUS
  <2>1. mIndex \in 0 .. NumClients
    <3>1. Away \in SUBSET Clients /\ Len(backlog) \in Nat
      BY DEF Away, IInv, Types
    <3>2. Cardinality(Away) \in Nat
      BY <3>1, FewAway
    <3> QED  BY <3>1, <3>2, ServerAssumption DEF Detail, Arrivals
  <2> QED  BY <2>1 DEF IInv, Types, Detail, PoolTypes, LoopStates, Recorded, CallNames, Failures, TypeOK
<1> QED  BY <1>1, Invariant, DetailInvariant, PTL

(* A server with no sub threads fails only with accept, keeps open         *)
(* connections only, and tells of each first that it is connected and last *)
(* that it is not (TcpServer.cpp:165-181, TcpConnection.cpp:279-287).      *)
THEOREM SingleLoopIsOrderly == Spec => []SingleLoopOrderly
<1>1. IInv /\ Detail => SingleLoopOrderly
  <2> SUFFICES ASSUME IInv, Detail, mSubThreads = {}
               PROVE  /\ failure \in {"none", "accept"}
                      /\ \A c \in mConnectionSet : channel[c] = "reading"
                      /\ \A c \in Clients : Orderly(told[c])
    BY DEF SingleLoopOrderly
  <2> QED  BY GoingBegins DEF Detail, Single, Stages, Calls
<1> QED  BY <1>1, Invariant, DetailInvariant, PTL
-----------------------------------------------------------------------------
(***************************************************************************)
(* Where a server with sub threads can fail.                               *)
(***************************************************************************)

(* Only the connection that is set up is known to epoll in part.           *)
InStages ==
    \A c \in Clients :
        /\ channel[c] = "added" => c = newConn /\ mainPc = "insertChannel"
        /\ channel[c] = "mapped" => c = newConn /\ mainPc = "enableRead"
        /\ channel[c] = "reading" =>
              ~(c = newConn /\ mainPc \in {"add", "insertChannel", "enableRead"})

LEMMA SetUpInStages ==
  ASSUME Types, InStages, SetUpStep PROVE InStages'
<1>1. newConn \in Clients
  BY DEF Types, SetUpStep, AddChannel, InsertChannel, EnableRead, SetConnected, TellConnected, Insert, SetUp
<1>2. CASE AddChannel
  BY <1>1, <1>2 DEF InStages, Types, AddChannel
<1>3. CASE InsertChannel
  BY <1>1, <1>3 DEF InStages, Types, InsertChannel
<1>4. CASE EnableRead
  BY <1>1, <1>4 DEF InStages, Types, EnableRead
<1>5. CASE SetConnected \/ TellConnected \/ Insert
  <2>1. /\ channel' = channel
        /\ mainPc \in {"connect", "tell", "insert"} /\ mainPc' \in {"tell", "insert", "poll"}
    BY <1>5 DEF SetConnected, TellConnected, Insert
  <2> QED  BY <2>1 DEF InStages
<1> QED  BY <1>2, <1>3, <1>4, <1>5 DEF SetUpStep

LEMMA NextInStages ==
  ASSUME IInv, Detail, InStages, Next PROVE InStages'
<1> USE DEF IInv
<1>1. ASSUME UNCHANGED <<channel, newConn>>, mainPc' = mainPc \/ newConn = 0 PROVE InStages'
  BY <1>1, MainNotInPool DEF InStages
<1>2. CASE createNewConnection
  <2>1. CASE Unseen
    <3>1. newConn = 0
      BY <1>2 DEF createNewConnection, Types, SetUp
    <3> QED  BY <1>1, <2>1, <3>1 DEF Unseen
  <2>2. ASSUME NEW c \in Clients, NEW l \in Loop, Accepted(c, l) PROVE InStages'
    <3>1. newConn = 0 /\ newConn' = c /\ mainPc' = "add" /\ channel' = channel
      BY <2>2 DEF Accepted, Types, SetUp
    <3>2. \A d \in Clients : channel[d] \notin {"added", "mapped"}
      BY <3>1, MainNotInPool DEF InStages
    <3>3. channel'[c] = "none"
      <4>1. CASE Fails("noLoop") \/ Fails("accept")
        BY <2>2, <4>1 DEF Accepted, Fails
      <4>2. CASE ~(Fails("noLoop") \/ Fails("accept"))
        <5>1. c = Head(backlog) /\ backlog # <<>>
          BY <1>2, <3>1, <4>2, <2>2 DEF createNewConnection, Accepted
        <5>2. 1 \in 1 .. Len(backlog) /\ Head(backlog) = backlog[1]
          BY <5>1 DEF Types
        <5>3. mState[c] = "none"
          BY <5>1, <5>2 DEF Detail, Arrivals
        <5> QED  BY <3>1, <5>3 DEF Detail, Untouched
      <4> QED  BY <4>1, <4>2
    <3> QED  BY <3>1, <3>2, <3>3 DEF InStages
  <2> QED  BY <1>2, <2>1, <2>2, CreateTypes
<1>3. ASSUME NEW l \in Loops, ThreadStep(l) PROVE InStages'
  BY <1>1, <1>3 DEF ThreadStep, connVars
<1>4. ASSUME NEW l \in Loop, Iterate(l) PROVE InStages'
  <2>1. mainPc' = mainPc \/ newConn = 0
    BY <1>4 DEF Iterate, MoveTo, Pc, Types, SetUp
  <2> QED  BY <1>1, <1>4, <2>1 DEF Iterate, connVars
<1>5. ASSUME NEW l \in Loop, NEW c \in Clients, DestroyTask(l, c) PROVE InStages'
  <2>1. UNCHANGED <<mainPc, newConn>> /\ \A d \in Clients : channel'[d] \in {channel[d], "none"}
    BY <1>5 DEF DestroyTask, Fails, connVars, Types
  <2> QED  BY <2>1 DEF InStages
<1>6. ASSUME NEW c \in Clients, PeerMoves(c) \/ HandleEvent(c) PROVE InStages'
  BY <1>1, <1>6 DEF PeerMoves, HandleEvent, Fails, connVars
<1>7. CASE Quit \/ QuitLoops \/ Join
  <2>1. newConn = 0 /\ UNCHANGED <<channel, newConn>>
    BY <1>7 DEF Quit, QuitLoops, Join, Types, SetUp, connVars
  <2> QED  BY <1>1, <2>1
<1>8. CASE ClearConnections
  <2>1. newConn = 0 /\ newConn' = newConn /\ \A d \in Clients : channel'[d] \in {channel[d], "none"}
    BY <1>8 DEF ClearConnections, Fails, connVars, Types, SetUp
  <2> QED  BY <2>1, MainNotInPool DEF InStages
<1> QED  BY <1>2, <1>3, <1>4, <1>5, <1>6, <1>7, <1>8, SetUpInStages DEF Next, LoopStep

(* An event fails only for the connection that is set up, by its loop's    *)
(* own thread.                                                             *)
LEMMA EventFails ==
  ASSUME IInv, InStages, failure = "none", NEW c \in Clients, HandleEvent(c), failure' # "none"
  PROVE  /\ UNCHANGED <<mainPc, newConn, loopOf>> /\ c = newConn /\ loopOf[newConn] # main
         /\ \/ failure' = "fdNotExisted" /\ mainPc = "insertChannel"
            \/ failure' = "handleClose" /\ mainPc = "enableRead"
            \/ failure' = "handleRead" /\ mainPc = "connect"
<1>1. ~(mState[c] = "Connected" /\ handleRead(c))
  BY DEF handleRead, handleClose, CloseCallback
<1>2. \/ channel[c] = "added" /\ Fails("fdNotExisted")
      \/ channel[c] = "mapped" /\ Fails("handleClose")
      \/ channel[c] = "reading" /\ mState[c] # "Connected" /\ Fails("handleRead")
  BY <1>1 DEF HandleEvent
<1>3. UNCHANGED <<mainPc, newConn, loopOf>>
  BY <1>2 DEF Fails, connVars
<1>4. c = newConn /\ \/ failure' = "fdNotExisted" /\ mainPc = "insertChannel"
                     \/ failure' = "handleClose" /\ mainPc = "enableRead"
                     \/ failure' = "handleRead" /\ mainPc = "connect"
  <2>1. CASE channel[c] = "added"
    BY <1>2, <2>1 DEF InStages, Fails
  <2>2. CASE channel[c] = "mapped"
    BY <1>2, <2>2 DEF InStages, Fails
  <2>3. CASE channel[c] = "reading"
    <3>1. mState[c] # "Connected" /\ failure' = "handleRead"
      BY <1>2, <2>3 DEF Fails
    <3>2. c = newConn /\ mainPc \in Early
      BY <2>3, <3>1 DEF HandleEvent, IInv, Held, Closed, Open
    <3> QED  BY <2>3, <3>1, <3>2 DEF InStages, Early
  <2> QED  BY <1>2, <2>1, <2>2, <2>3
<1>5. loopOf[newConn] # main
  BY <1>4 DEF HandleEvent, Pc
<1> QED  BY <1>3, <1>4, <1>5

LEMMA NextFails ==
  ASSUME IInv, InStages, mSubThreads' = {} => failure' \in {"none", "accept"}, Next
  PROVE  FailsOnlyInSetUp'
<1>1. failure = "none"
  BY DEF Next
<1>2. CASE failure' \in {"none", "noLoop", "accept"}
  BY <1>2 DEF FailsOnlyInSetUp
<1>3. ASSUME NEW c \in Clients, HandleEvent(c) PROVE FailsOnlyInSetUp'
  BY <1>1, <1>2, <1>3, EventFails DEF FailsOnlyInSetUp
<1>4. ASSUME NEW l \in Loop, NEW c \in Clients, DestroyTask(l, c) PROVE FailsOnlyInSetUp'
  <2>1. CASE Fails("freedSet") /\ mainPc \in {"pool", "join"}
    <3>1. failure' = "freedSet" /\ mainPc' = mainPc
      BY <2>1 DEF Fails
    <3> QED  BY <2>1, <3>1 DEF FailsOnlyInSetUp
  <2>2. CASE failure' = failure
    BY <1>1, <1>2, <2>2
  <2> QED  BY <1>4, <2>1, <2>2 DEF DestroyTask
<1>5. CASE ClearConnections
  <2>1. CASE Fails("removeChannel") /\ mainPc = "stopped"
    <3>1. failure' = "removeChannel" /\ mainPc' = mainPc
      BY <2>1 DEF Fails
    <3> QED  BY <2>1, <3>1 DEF FailsOnlyInSetUp
  <2>2. CASE failure' = failure
    BY <1>1, <1>2, <2>2
  <2> QED  BY <1>5, <2>1, <2>2 DEF ClearConnections
<1>6. CASE createNewConnection
  BY <1>1, <1>2, <1>6 DEF createNewConnection, Fails
<1>7. ASSUME NEW l \in Loops, ThreadStep(l) PROVE FailsOnlyInSetUp'
  BY <1>1, <1>2, <1>7 DEF ThreadStep
<1>8. ASSUME NEW l \in Loop, Iterate(l) PROVE FailsOnlyInSetUp'
  BY <1>1, <1>2, <1>8 DEF Iterate
<1>9. ASSUME NEW c \in Clients, PeerMoves(c) PROVE FailsOnlyInSetUp'
  BY <1>1, <1>2, <1>9 DEF PeerMoves
<1>10. CASE SetUpStep \/ Quit \/ QuitLoops \/ Join
  BY <1>1, <1>2, <1>10 DEF SetUpStep, Quit, QuitLoops, Join
<1> QED  BY <1>3, <1>4, <1>5, <1>6, <1>7, <1>8, <1>9, <1>10 DEF Next, LoopStep

LEMMA FailsInductive ==
  ASSUME IInv, Detail, Detail', InStages, FailsOnlyInSetUp, [Next]_vars
  PROVE  InStages' /\ FailsOnlyInSetUp'
<1>1. mSubThreads' = {} => failure' \in {"none", "accept"}
  BY DEF Detail, Single
<1>2. CASE Next
  BY <1>1, <1>2, NextInStages, NextFails
<1>3. CASE UNCHANGED vars
  <2>1. UNCHANGED <<mSubThreads, mainPc, newConn, channel, loopOf, failure>>
    BY <1>3 DEF vars, connVars
  <2> QED  BY <2>1 DEF InStages, FailsOnlyInSetUp
<1> QED  BY <1>2, <1>3

(* With sub threads an assertion fails only in the steps of the set-up     *)
(* that the loop of the new connection overtakes, and in the destructor: a *)
(* closed connection waits for its task, so no later event finds it        *)
(* (Epoller.cpp:80-90, TcpConnection.cpp:275-287, TcpServer.cpp:77,165-181). *)
THEOREM FailsOnlyWhileSettingUp == Spec => []FailsOnlyInSetUp
<1>1. Init => InStages /\ FailsOnlyInSetUp
  BY DEF Init, InStages, FailsOnlyInSetUp
<1> QED  BY <1>1, FailsInductive, Invariant, DetailInvariant, PTL DEF Spec
=============================================================================
