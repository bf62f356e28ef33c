------------------------- MODULE TcpConnectionProof -------------------------
(***************************************************************************)
(* The assertions of a connection hold, it gives user code all the peer    *)
(* sent, does not forget what it has to write, and keeps to its state      *)
(* machine: for any number of messages and calls, whatever callbacks send. *)
(***************************************************************************)
EXTENDS TcpConnection, FiniteSetTheorems, TLAPS

In(task, tasks) == \E i \in 1 .. Len(tasks) : tasks[i] = task

(* The places of the tasks still to run that send.                         *)
SendsFrom(tasks, run) == {i \in 1 .. Len(tasks) : i > run /\ tasks[i] = "send"}

SendsLeft(tasks, run) == Cardinality(SendsFrom(tasks, run))

(* A send counts once: in the buffer, or as a task.                        *)
Counts ==
    /\ mSendBuffer + SendsLeft(mPendingTasks, 0) + SendsLeft(pendingTasks, tasksRun) <= sends
    /\ inbox + delivered <= MaxMessages

(* The destruction is queued in the dispatch, runs before the next poll,   *)
(* and only a connection that is closed has it.                            *)
DestroyQueued ==
    /\ In("destroy", mPendingTasks) => loopPc \in {"write", "swap"} /\ mState = "DisConnected"
    /\ In("destroy", pendingTasks) => loopPc = "run" /\ mState = "DisConnected"

DestroyAhead ==
    \/ In("destroy", mPendingTasks)
    \/ \E i \in 1 .. Len(pendingTasks) : i > tasksRun /\ pendingTasks[i] = "destroy"

(* A connection before, during and after its life.                         *)
Life ==
    /\ life = "listen" => mState = "DisConnected" /\ mSendBuffer = 0
    /\ life = "open" /\ mState = "DisConnected" => DestroyAhead

(* What poll reported is still so when it is handled.                      *)
Reported ==
    loopPc = "handle" =>
    /\ revents # {} => life = "open"
    /\ "IN" \in revents => inbox > 0 \/ peerFin \/ reset
    /\ "HUP" \in revents /\ "IN" \notin revents => reset

(* User code hears of the close only after the peer's.                     *)
Told == userView = "disconnected" => peerFin \/ reset

IInv ==
    /\ TypeOK
    /\ Counts
    /\ DestroyQueued
    /\ Life
    /\ Reported
    /\ Told
    /\ AssertionsHold
    /\ AllDataDelivered
    /\ NoLostWriteInterest
-----------------------------------------------------------------------------
(***************************************************************************)
(* Vectors of tasks.                                                       *)
(***************************************************************************)
LEMMA InAppend ==
  ASSUME NEW tasks \in Seq(Task), NEW last \in Task, NEW task
  PROVE  /\ Append(tasks, last) \in Seq(Task)
         /\ In(task, Append(tasks, last)) <=> In(task, tasks) \/ task = last
<1> DEFINE all == Append(tasks, last)
<1>1. all \in Seq(Task) /\ Len(all) = Len(tasks) + 1 /\ Len(tasks) \in Nat
  OBVIOUS
<1>2. all[Len(tasks) + 1] = last /\ \A i \in 1 .. Len(tasks) : all[i] = tasks[i]
  OBVIOUS
<1> HIDE DEF all
<1>3. In(task, all) <=> In(task, tasks) \/ task = last
  BY <1>1, <1>2 DEF In
<1> QED  BY <1>1, <1>3 DEF all

LEMMA InEmpty == \A task : ~In(task, <<>>)
  BY DEF In

LEMMA SendsLeftNat ==
  ASSUME NEW tasks \in Seq(Task), NEW run \in Nat
  PROVE  IsFiniteSet(SendsFrom(tasks, run)) /\ SendsLeft(tasks, run) \in Nat
<1>1. IsFiniteSet(1 .. Len(tasks))
  BY FS_Interval
<1>2. SendsFrom(tasks, run) \subseteq 1 .. Len(tasks)
  BY DEF SendsFrom
<1>3. IsFiniteSet(SendsFrom(tasks, run))
  BY <1>1, <1>2, FS_Subset
<1> QED  BY <1>3, FS_CardinalityType DEF SendsLeft

LEMMA SendsLeftEmpty == \A run : SendsLeft(<<>>, run) = 0
<1>1. \A run : SendsFrom(<<>>, run) = {}
  BY DEF SendsFrom
<1> QED  BY <1>1, FS_EmptySet DEF SendsLeft

LEMMA SendsLeftAppend ==
  ASSUME NEW tasks \in Seq(Task), NEW last \in Task
  PROVE  SendsLeft(Append(tasks, last), 0)
            = SendsLeft(tasks, 0) + (IF last = "send" THEN 1 ELSE 0)
<1> DEFINE all == Append(tasks, last)  n == Len(tasks) + 1
<1>1. Len(all) = n /\ all[n] = last /\ Len(tasks) \in Nat
  OBVIOUS
<1>2. \A i \in 1 .. Len(tasks) : all[i] = tasks[i]
  OBVIOUS
<1>3. IsFiniteSet(SendsFrom(tasks, 0)) /\ SendsLeft(tasks, 0) \in Nat
  BY SendsLeftNat
<1>4. n \notin SendsFrom(tasks, 0)
  BY <1>1 DEF SendsFrom
<1> HIDE DEF all
<1>5. CASE last = "send"
  <2>1. SendsFrom(all, 0) = SendsFrom(tasks, 0) \cup {n}
    BY <1>1, <1>2, <1>5 DEF SendsFrom
  <2>2. Cardinality(SendsFrom(tasks, 0) \cup {n}) = Cardinality(SendsFrom(tasks, 0)) + 1
    BY <1>3, <1>4, FS_AddElement
  <2> QED  BY <2>1, <2>2, <1>5 DEF SendsLeft, all
<1>6. CASE last # "send"
  <2>1. SendsFrom(all, 0) = SendsFrom(tasks, 0)
    BY <1>1, <1>2, <1>6 DEF SendsFrom
  <2> QED  BY <2>1, <1>3, <1>6 DEF SendsLeft, all
<1> QED  BY <1>5, <1>6

LEMMA SendsLeftRun ==
  ASSUME NEW tasks \in Seq(Task), NEW run \in Nat, run < Len(tasks)
  PROVE  SendsLeft(tasks, run)
            = SendsLeft(tasks, run + 1) + (IF tasks[run + 1] = "send" THEN 1 ELSE 0)
<1>1. IsFiniteSet(SendsFrom(tasks, run + 1)) /\ SendsLeft(tasks, run + 1) \in Nat
  BY SendsLeftNat
<1>2. run + 1 \notin SendsFrom(tasks, run + 1)
  BY DEF SendsFrom
<1>3. CASE tasks[run + 1] = "send"
  <2>1. SendsFrom(tasks, run) = SendsFrom(tasks, run + 1) \cup {run + 1}
    BY <1>3 DEF SendsFrom
  <2>2. Cardinality(SendsFrom(tasks, run + 1) \cup {run + 1})
            = Cardinality(SendsFrom(tasks, run + 1)) + 1
    BY <1>1, <1>2, FS_AddElement
  <2> QED  BY <2>1, <2>2, <1>3 DEF SendsLeft
<1>4. CASE tasks[run + 1] # "send"
  <2>1. \A i \in 1 .. Len(tasks) : i > run /\ tasks[i] = "send" <=> i > run + 1 /\ tasks[i] = "send"
    <3>1. \A i \in 1 .. Len(tasks) : i > run => i = run + 1 \/ i > run + 1
      OBVIOUS
    <3> QED  BY <3>1, <1>4
  <2>2. SendsFrom(tasks, run) = SendsFrom(tasks, run + 1)
    BY <2>1 DEF SendsFrom
  <2> QED  BY <2>2, <1>1, <1>4 DEF SendsLeft
<1> QED  BY <1>3, <1>4
-----------------------------------------------------------------------------
LEMMA Initially ==
  ASSUME Init PROVE IInv
<1>1. TypeOK
  <2>1. <<>> \in Seq(Task) /\ Len(<<>>) = 0
    OBVIOUS
  <2>2. {peerFin, ourFin, reset, soError} \subseteq BOOLEAN
    BY DEF Init
  <2>3. 0 \in 0 .. MaxMessages /\ 0 \in 0 .. MaxSends /\ 0 \in 0 .. MaxShutdowns
    BY BoundsAssumption
  <2>4. tasksRun \in 0 .. Len(pendingTasks)
    BY <2>1 DEF Init
  <2> QED  BY <2>1, <2>2, <2>3, <2>4, Zenon DEF Init, TypeOK, Failure
<1>2. Counts
  BY SendsLeftEmpty, BoundsAssumption DEF Init, Counts
<1>3. DestroyQueued
  BY InEmpty DEF Init, DestroyQueued
<1> QED
  BY <1>1, <1>2, <1>3 DEF Init, IInv, Life, Reported, Told, AssertionsHold, AllDataDelivered,
                          NoLostWriteInterest

(* What user code does in a callback: of the tasks, it adds shutdowns.     *)
LEMMA UserCodeEffect ==
  ASSUME TypeOK, NEW st, NEW n \in {0, 1}, NEW m \in {0, 1}, UserCode(st, n, m)
  PROVE  /\ sends' = sends + n /\ sends' \in 0 .. MaxSends
         /\ shutdowns' \in 0 .. MaxShutdowns
         /\ mPendingTasks' \in Seq(Task)
         /\ In("destroy", mPendingTasks') <=> In("destroy", mPendingTasks)
         /\ SendsLeft(mPendingTasks', 0) = SendsLeft(mPendingTasks, 0)
         /\ SendsLeft(mPendingTasks, 0) \in Nat
         /\ mSendBuffer' = IF st = "Connected" THEN mSendBuffer + n ELSE mSendBuffer
         /\ writing' \in BOOLEAN
         /\ writing \/ (st = "Connected" /\ n > 0) => writing'
<1>1. /\ sends' = sends + n /\ sends' \in 0 .. MaxSends
      /\ shutdowns' \in 0 .. MaxShutdowns
  BY BoundsAssumption DEF TypeOK, UserCode
<1>2. "shutdown" \in Task /\ mPendingTasks \in Seq(Task)
  BY DEF Task, TypeOK
<1>3. SendsLeft(mPendingTasks, 0) \in Nat
  BY <1>2, SendsLeftNat
<1> DEFINE Kept == /\ mPendingTasks' \in Seq(Task)
                   /\ In("destroy", mPendingTasks') <=> In("destroy", mPendingTasks)
                   /\ SendsLeft(mPendingTasks', 0) = SendsLeft(mPendingTasks, 0)
<1>4. ASSUME mPendingTasks' = Append(mPendingTasks, "shutdown") PROVE Kept
  <2>1. /\ mPendingTasks' \in Seq(Task)
        /\ In("destroy", mPendingTasks') <=> In("destroy", mPendingTasks)
    BY <1>2, <1>4, InAppend
  <2>2. SendsLeft(mPendingTasks', 0) = SendsLeft(mPendingTasks, 0) + 0
    BY <1>2, <1>4, SendsLeftAppend
  <2> QED  BY <2>1, <2>2, <1>3
<1>5. ASSUME mPendingTasks' = mPendingTasks PROVE Kept
  BY <1>2, <1>5
<1>6. \/ mPendingTasks' = Append(mPendingTasks, "shutdown")
      \/ mPendingTasks' = mPendingTasks
  BY DEF UserCode
<1>7. Kept
  BY <1>4, <1>5, <1>6
<1>8. mSendBuffer' = IF st = "Connected" THEN mSendBuffer + n ELSE mSendBuffer
  BY DEF UserCode
<1>9. writing' = (writing \/ (st = "Connected" /\ n > 0))
  BY DEF UserCode
<1> QED  BY <1>1, <1>3, <1>7, <1>8, <1>9 DEF TypeOK

(* What the buffer holds was sent.                                         *)
LEMMA BufferTypeNext ==
  ASSUME Counts', mSendBuffer' \in Nat, sends' \in 0 .. MaxSends, tasksRun' \in Nat,
         mPendingTasks' \in Seq(Task), pendingTasks' \in Seq(Task)
  PROVE  mSendBuffer' \in 0 .. MaxSends
<1>1. SendsLeft(mPendingTasks', 0) \in Nat /\ SendsLeft(pendingTasks', tasksRun') \in Nat
  BY SendsLeftNat
<1> QED  BY <1>1, BoundsAssumption DEF Counts
-----------------------------------------------------------------------------
(***************************************************************************)
(* The peer.                                                               *)
(***************************************************************************)
LEMMA PeerIInv ==
  ASSUME IInv, Peer PROVE IInv'
<1>1. /\ UNCHANGED <<loopPc, revents, mPendingTasks, pendingTasks, tasksRun>>
      /\ UNCHANGED <<life, mState, writing, mSendBuffer, inSet>>
      /\ UNCHANGED <<userHolds, userView, delivered, sends, shutdowns>>
      /\ UNCHANGED <<ourFin, failure>>
  BY DEF Peer, PeerSends, PeerCloses, PeerResets, loopVars, connVars, userVars
<1>2. \/ /\ inbox' = inbox + 1 /\ inbox + delivered < MaxMessages /\ ~peerFin /\ ~reset
         /\ UNCHANGED <<peerFin, reset, soError>>
      \/ inbox' = inbox /\ peerFin' = TRUE /\ UNCHANGED <<reset, soError>>
      \/ inbox' = inbox /\ reset' = TRUE /\ soError' = TRUE /\ UNCHANGED peerFin
  BY DEF Peer, PeerSends, PeerCloses, PeerResets
<1>3. TypeOK'
  <2>1. inbox' \in 0 .. MaxMessages
    BY <1>2, BoundsAssumption DEF IInv, TypeOK
  <2>2. {peerFin', ourFin', reset', soError'} \subseteq BOOLEAN
    BY <1>1, <1>2 DEF IInv, TypeOK
  <2> QED  BY <1>1, <2>1, <2>2 DEF IInv, TypeOK
<1>4. Counts'
  BY <1>1, <1>2, BoundsAssumption DEF IInv, Counts, TypeOK
<1>5. DestroyQueued' /\ Life'
  BY <1>1 DEF IInv, DestroyQueued, Life, DestroyAhead
<1>6. Reported'
  BY <1>1, <1>2 DEF IInv, Reported, TypeOK
<1>7. Told'
  BY <1>1, <1>2 DEF IInv, Told
<1>8. AllDataDelivered'
  BY <1>1, <1>2 DEF IInv, Told, AllDataDelivered
<1>9. AssertionsHold' /\ NoLostWriteInterest'
  BY <1>1 DEF IInv, AssertionsHold, NoLostWriteInterest
<1> QED  BY <1>3, <1>4, <1>5, <1>6, <1>7, <1>8, <1>9 DEF IInv
-----------------------------------------------------------------------------
(***************************************************************************)
(* Outside the connection's callbacks.                                     *)
(***************************************************************************)
LEMMA EstablishIInv ==
  ASSUME IInv, establishConnect PROVE IInv'
<1>1. PICK n \in {0, 1}, m \in {0, 1} : UserCode("Connected", n, m)
  BY DEF establishConnect, Sends
<1>2. /\ loopPc = "poll" /\ life = "listen" /\ life' = "open" /\ mState' = "Connected"
      /\ userView' = "connected" /\ userHolds' \in BOOLEAN /\ inSet' = TRUE /\ loopPc' = "swap"
      /\ UNCHANGED <<revents, pendingTasks, tasksRun, delivered, failure>>
      /\ UNCHANGED <<inbox, peerFin, ourFin, reset, soError>>
  BY DEF establishConnect, socketVars
<1>3. /\ sends' = sends + n /\ sends' \in 0 .. MaxSends
      /\ shutdowns' \in 0 .. MaxShutdowns
      /\ mPendingTasks' \in Seq(Task)
      /\ In("destroy", mPendingTasks') <=> In("destroy", mPendingTasks)
      /\ SendsLeft(mPendingTasks', 0) = SendsLeft(mPendingTasks, 0)
      /\ mSendBuffer' = mSendBuffer + n
      /\ writing' \in BOOLEAN
      /\ writing \/ n > 0 => writing'
  BY <1>1, UserCodeEffect DEF IInv
<1>4. Counts'
  <2>1. SendsLeft(mPendingTasks, 0) \in Nat /\ SendsLeft(pendingTasks, tasksRun) \in Nat
    BY SendsLeftNat DEF IInv, TypeOK
  <2>2. mSendBuffer \in Nat /\ sends \in Nat
        /\ mSendBuffer + SendsLeft(mPendingTasks, 0) + SendsLeft(pendingTasks, tasksRun) <= sends
        /\ inbox + delivered <= MaxMessages
    BY BoundsAssumption DEF IInv, Counts, TypeOK
  <2>3. SendsLeft(pendingTasks, tasksRun)' = SendsLeft(pendingTasks, tasksRun)
        /\ inbox' = inbox /\ delivered' = delivered
    BY <1>2
  <2>4. sends' = sends + n /\ mSendBuffer' \in {mSendBuffer, mSendBuffer + n}
        /\ SendsLeft(mPendingTasks, 0)' = SendsLeft(mPendingTasks, 0)
    BY <1>3
  <2> QED  BY <2>1, <2>2, <2>3, <2>4 DEF Counts
<1>5. TypeOK'
  <2>1. mSendBuffer' \in 0 .. MaxSends
    <3>1. mSendBuffer' = n
      BY <1>2, <1>3 DEF IInv, Life
    <3> QED  BY <3>1, <1>3, BoundsAssumption DEF IInv, TypeOK
  <2> QED  BY <1>2, <1>3, <2>1 DEF IInv, TypeOK
<1>6. ~In("destroy", mPendingTasks) /\ ~In("destroy", pendingTasks)
  BY <1>2 DEF IInv, DestroyQueued
<1>7. DestroyQueued' /\ Life'
  BY <1>2, <1>3, <1>6 DEF DestroyQueued, Life
<1>8. Reported' /\ Told' /\ AllDataDelivered' /\ AssertionsHold'
  BY <1>2 DEF IInv, Reported, Told, AllDataDelivered, AssertionsHold
<1>9. NoLostWriteInterest'
  BY <1>2, <1>3 DEF IInv, Life, NoLostWriteInterest, TypeOK
<1> QED  BY <1>4, <1>5, <1>7, <1>8, <1>9 DEF IInv

LEMMA OtherCallbackIInv ==
  ASSUME IInv, OtherCallback PROVE IInv'
<1>1. PICK n \in {0, 1}, m \in {0, 1} : UserCode(mState, n, m)
  BY DEF OtherCallback
<1>2. /\ loopPc \in {"handle", "swap"}
      /\ UNCHANGED <<loopPc, revents, pendingTasks, tasksRun, life, mState, inSet, userHolds,
                     userView, delivered, failure>>
      /\ UNCHANGED <<inbox, peerFin, ourFin, reset, soError>>
  BY DEF OtherCallback, socketVars
<1>3. /\ sends' = sends + n /\ sends' \in 0 .. MaxSends
      /\ shutdowns' \in 0 .. MaxShutdowns
      /\ mPendingTasks' \in Seq(Task)
      /\ In("destroy", mPendingTasks') <=> In("destroy", mPendingTasks)
      /\ SendsLeft(mPendingTasks', 0) = SendsLeft(mPendingTasks, 0)
      /\ mSendBuffer' = IF mState = "Connected" THEN mSendBuffer + n ELSE mSendBuffer
      /\ writing' \in BOOLEAN
      /\ writing \/ (mState = "Connected" /\ n > 0) => writing'
  BY <1>1, UserCodeEffect DEF IInv
<1>4. Counts'
  <2>1. SendsLeft(mPendingTasks, 0) \in Nat /\ SendsLeft(pendingTasks, tasksRun) \in Nat
    BY SendsLeftNat DEF IInv, TypeOK
  <2>2. mSendBuffer \in Nat /\ sends \in Nat
        /\ mSendBuffer + SendsLeft(mPendingTasks, 0) + SendsLeft(pendingTasks, tasksRun) <= sends
        /\ inbox + delivered <= MaxMessages
    BY BoundsAssumption DEF IInv, Counts, TypeOK
  <2>3. SendsLeft(pendingTasks, tasksRun)' = SendsLeft(pendingTasks, tasksRun)
        /\ inbox' = inbox /\ delivered' = delivered
    BY <1>2
  <2>4. sends' = sends + n /\ mSendBuffer' \in {mSendBuffer, mSendBuffer + n}
        /\ SendsLeft(mPendingTasks, 0)' = SendsLeft(mPendingTasks, 0)
    BY <1>3
  <2> QED  BY <2>1, <2>2, <2>3, <2>4 DEF Counts
<1>5. TypeOK'
  <2>1. mSendBuffer' \in Nat
    BY <1>3 DEF IInv, TypeOK
  <2>2. mSendBuffer' \in 0 .. MaxSends
    BY <1>2, <1>3, <1>4, <2>1, BufferTypeNext DEF IInv, TypeOK
  <2> QED  BY <1>2, <1>3, <2>2 DEF IInv, TypeOK
<1>6. DestroyQueued' /\ Life'
  BY <1>2, <1>3 DEF IInv, DestroyQueued, Life, DestroyAhead
<1>7. Reported' /\ Told' /\ AllDataDelivered' /\ AssertionsHold'
  BY <1>2 DEF IInv, Reported, Told, AllDataDelivered, AssertionsHold
<1>8. NoLostWriteInterest'
  BY <1>2, <1>3 DEF IInv, NoLostWriteInterest, TypeOK
<1> QED  BY <1>4, <1>5, <1>6, <1>7, <1>8 DEF IInv

LEMMA SendFromThreadIInv ==
  ASSUME IInv, SendFromThread PROVE IInv'
<1>1. /\ sends < MaxSends /\ sends' = sends + 1
      /\ mPendingTasks' = Append(mPendingTasks, "send")
      /\ UNCHANGED <<loopPc, revents, pendingTasks, tasksRun, life, mState, writing, mSendBuffer,
                     inSet, userHolds, userView, delivered, shutdowns, failure>>
      /\ UNCHANGED <<inbox, peerFin, ourFin, reset, soError>>
  BY DEF SendFromThread, connVars, socketVars
<1>2. "send" \in Task /\ mPendingTasks \in Seq(Task)
  BY DEF Task, IInv, TypeOK
<1>3. /\ mPendingTasks' \in Seq(Task)
      /\ In("destroy", mPendingTasks') <=> In("destroy", mPendingTasks)
  BY <1>1, <1>2, InAppend
<1>4. SendsLeft(mPendingTasks', 0) = SendsLeft(mPendingTasks, 0) + 1
  BY <1>1, <1>2, SendsLeftAppend
<1>5. TypeOK'
  <2>1. sends' \in 0 .. MaxSends
    BY <1>1, BoundsAssumption DEF IInv, TypeOK
  <2> QED  BY <1>1, <1>3, <2>1 DEF IInv, TypeOK
<1>6. Counts'
  <2>1. SendsLeft(mPendingTasks, 0) \in Nat /\ SendsLeft(pendingTasks, tasksRun) \in Nat
    BY SendsLeftNat DEF IInv, TypeOK
  <2>2. mSendBuffer \in Nat /\ sends \in Nat
    BY DEF IInv, TypeOK
  <2>3. \A b, m, p, s \in Nat : b + m + p <= s => b + (m + 1) + p <= s + 1
    OBVIOUS
  <2>4. (mSendBuffer + SendsLeft(mPendingTasks, 0) + SendsLeft(pendingTasks, tasksRun) <= sends)'
    BY <1>1, <1>4, <2>1, <2>2, <2>3 DEF IInv, Counts
  <2>5. (inbox + delivered <= MaxMessages)'
    BY <1>1 DEF IInv, Counts
  <2> QED  BY <2>4, <2>5 DEF Counts
<1>7. DestroyQueued' /\ Life'
  BY <1>1, <1>3 DEF IInv, DestroyQueued, Life, DestroyAhead
<1>8. Reported' /\ Told' /\ AllDataDelivered' /\ AssertionsHold' /\ NoLostWriteInterest'
  BY <1>1 DEF IInv, Reported, Told, AllDataDelivered, AssertionsHold, NoLostWriteInterest
<1> QED  BY <1>5, <1>6, <1>7, <1>8 DEF IInv

LEMMA DropPointerIInv ==
  ASSUME IInv, DropPointer PROVE IInv'
<1>1. /\ userHolds' = FALSE
      /\ UNCHANGED <<loopPc, revents, mPendingTasks, pendingTasks, tasksRun, life, mState, writing,
                     mSendBuffer, inSet, userView, delivered, sends, shutdowns, failure>>
      /\ UNCHANGED <<inbox, peerFin, ourFin, reset, soError>>
  BY DEF DropPointer, loopVars, connVars, socketVars
<1>2. TypeOK'
  BY <1>1 DEF IInv, TypeOK
<1>3. Counts' /\ DestroyQueued' /\ Life'
  BY <1>1 DEF IInv, Counts, DestroyQueued, Life, DestroyAhead
<1>4. Reported' /\ Told' /\ AllDataDelivered' /\ AssertionsHold' /\ NoLostWriteInterest'
  BY <1>1 DEF IInv, Reported, Told, AllDataDelivered, AssertionsHold, NoLostWriteInterest
<1> QED  BY <1>2, <1>3, <1>4 DEF IInv
-----------------------------------------------------------------------------
(***************************************************************************)
(* The dispatch.                                                           *)
(***************************************************************************)
(* What epoll reports holds when it does.                                  *)
LEMMA PollIInv ==
  ASSUME IInv, Poll PROVE IInv'
<1>1. /\ loopPc = "poll" /\ loopPc' = "handle"
      /\ UNCHANGED <<mPendingTasks, pendingTasks, tasksRun, life, mState, writing, mSendBuffer,
                     inSet, userHolds, userView, delivered, sends, shutdowns, failure>>
      /\ UNCHANGED <<inbox, peerFin, ourFin, reset, soError>>
  BY DEF Poll, connVars, userVars, socketVars
<1>2. PICK space \in BOOLEAN, early \in BOOLEAN :
          revents' = IF life = "open"
                     THEN {event \in {"IN", "OUT", "HUP", "ERR"} : Ready(event, space, early)}
                     ELSE {}
  BY DEF Poll
<1>3. TypeOK'
  <2>1. revents' \subseteq {"IN", "OUT", "HUP", "ERR"}
    BY <1>2
  <2> QED  BY <1>1, <2>1 DEF IInv, TypeOK
<1>4. Reported'
  <2>1. revents' # {} => life = "open"
    BY <1>2
  <2>2. "IN" \in revents' => inbox > 0 \/ peerFin \/ reset
    BY <1>2 DEF Ready
  <2>3. "HUP" \in revents' => reset \/ peerFin
    BY <1>2 DEF Ready
  <2>4. peerFin /\ life = "open" => "IN" \in revents'
    BY <1>2 DEF Ready
  <2> QED  BY <1>1, <2>1, <2>2, <2>3, <2>4 DEF Reported
<1>5. Counts' /\ DestroyQueued' /\ Life'
  BY <1>1 DEF IInv, Counts, DestroyQueued, Life, DestroyAhead
<1>6. Told' /\ AllDataDelivered' /\ AssertionsHold' /\ NoLostWriteInterest'
  BY <1>1 DEF IInv, Told, AllDataDelivered, AssertionsHold, NoLostWriteInterest
<1> QED  BY <1>3, <1>4, <1>5, <1>6 DEF IInv

(* A connection that has an event was not closed before.                   *)
LEMMA EventOfOpen ==
  ASSUME IInv, loopPc = "handle", revents # {}
  PROVE  life = "open" /\ mState # "DisConnected"
<1>1. life = "open"
  BY DEF IInv, Reported
<1>2. ~In("destroy", mPendingTasks) /\ ~In("destroy", pendingTasks)
  BY DEF IInv, DestroyQueued
<1>3. ~DestroyAhead
  BY <1>2 DEF DestroyAhead, In
<1> QED  BY <1>1, <1>3 DEF IInv, Life

(* handleClose of a connection whose peer has closed or reset it.          *)
LEMMA CloseIInv ==
  ASSUME IInv, handleClose, loopPc = "handle", loopPc' \in {"write", "swap"},
         life = "open", mState # "DisConnected",
         UNCHANGED <<revents, pendingTasks, tasksRun, failure>>,
         peerFin \/ reset, inbox = 0 \/ reset
  PROVE  IInv'
<1>1. /\ mState' = "DisConnected" /\ soError' = FALSE /\ userView' = "disconnected"
      /\ userHolds' \in {userHolds, FALSE}
      /\ mPendingTasks' = Append(mPendingTasks, "destroy")
      /\ UNCHANGED <<life, writing, mSendBuffer, inSet, inbox, peerFin, ourFin, reset, delivered,
                     sends, shutdowns>>
  BY DEF handleClose
<1>2. "destroy" \in Task /\ mPendingTasks \in Seq(Task)
  BY DEF Task, IInv, TypeOK
<1>3. mPendingTasks' \in Seq(Task) /\ In("destroy", mPendingTasks')
  BY <1>1, <1>2, InAppend
<1>4. SendsLeft(mPendingTasks', 0) = SendsLeft(mPendingTasks, 0) + 0
  BY <1>1, <1>2, SendsLeftAppend
<1>5. TypeOK'
  <2>1. userHolds' \in BOOLEAN
    BY <1>1 DEF IInv, TypeOK
  <2>2. {peerFin', ourFin', reset', soError'} \subseteq BOOLEAN
    BY <1>1 DEF IInv, TypeOK
  <2> QED  BY <1>1, <1>3, <2>1, <2>2 DEF IInv, TypeOK
<1>6. Counts'
  <2>1. SendsLeft(mPendingTasks, 0) \in Nat /\ SendsLeft(pendingTasks, tasksRun) \in Nat
    BY SendsLeftNat DEF IInv, TypeOK
  <2> QED  BY <1>1, <1>4, <2>1 DEF IInv, Counts, TypeOK
<1>7. DestroyQueued'
  <2>1. ~In("destroy", pendingTasks)
    BY DEF IInv, DestroyQueued
  <2> QED  BY <1>1, <2>1 DEF DestroyQueued
<1>8. Life'
  BY <1>1, <1>3 DEF Life, DestroyAhead
<1>9. Reported' /\ Told' /\ AllDataDelivered' /\ AssertionsHold' /\ NoLostWriteInterest'
  BY <1>1 DEF IInv, Reported, Told, AllDataDelivered, AssertionsHold, NoLostWriteInterest
<1> QED  BY <1>3, <1>5, <1>6, <1>7, <1>8, <1>9 DEF IInv

(* A read that finds data, and the message callback.                       *)
LEMMA ReadIInv ==
  ASSUME IInv, inbox > 0, handleRead, loopPc = "handle", loopPc' = "write",
         mState # "DisConnected", life = "open",
         UNCHANGED <<revents, pendingTasks, tasksRun, failure>>
  PROVE  IInv'
<1>1. PICK read \in 1 .. inbox : inbox' = inbox - read /\ delivered' = delivered + read
  BY DEF handleRead
<1>2. PICK n \in {0, 1}, m \in {0, 1} : UserCode(mState, n, m)
  BY DEF handleRead, Sends
<1>3. UNCHANGED <<life, mState, inSet, userHolds, userView, peerFin, ourFin, reset, soError>>
  BY DEF handleRead
<1>4. /\ sends' = sends + n /\ sends' \in 0 .. MaxSends
      /\ shutdowns' \in 0 .. MaxShutdowns
      /\ mPendingTasks' \in Seq(Task)
      /\ In("destroy", mPendingTasks') <=> In("destroy", mPendingTasks)
      /\ SendsLeft(mPendingTasks', 0) = SendsLeft(mPendingTasks, 0)
      /\ mSendBuffer' = IF mState = "Connected" THEN mSendBuffer + n ELSE mSendBuffer
      /\ writing' \in BOOLEAN
      /\ writing \/ (mState = "Connected" /\ n > 0) => writing'
  BY <1>2, UserCodeEffect DEF IInv
<1>5. /\ inbox' \in 0 .. MaxMessages /\ delivered' \in 0 .. MaxMessages
      /\ inbox' + delivered' = inbox + delivered
  BY <1>1, BoundsAssumption DEF IInv, TypeOK, Counts
<1>6. Counts'
  <2>1. SendsLeft(mPendingTasks, 0) \in Nat /\ SendsLeft(pendingTasks, tasksRun) \in Nat
    BY SendsLeftNat DEF IInv, TypeOK
  <2>2. SendsLeft(pendingTasks, tasksRun)' = SendsLeft(pendingTasks, tasksRun)
    OBVIOUS
  <2>3. sends' = sends + n /\ mSendBuffer' \in {mSendBuffer, mSendBuffer + n}
    BY <1>4
  <2>4. mSendBuffer \in Nat /\ sends \in Nat
    BY BoundsAssumption DEF IInv, TypeOK
  <2>5. mSendBuffer + SendsLeft(mPendingTasks, 0) + SendsLeft(pendingTasks, tasksRun) <= sends
        /\ inbox' + delivered' <= MaxMessages
    BY <1>5 DEF IInv, Counts
  <2>6. SendsLeft(mPendingTasks, 0)' = SendsLeft(mPendingTasks, 0)
    BY <1>4
  <2> QED  BY <2>1, <2>2, <2>3, <2>4, <2>5, <2>6 DEF Counts
<1>7. TypeOK'
  <2>1. mSendBuffer' \in Nat
    BY <1>4 DEF IInv, TypeOK
  <2>2. mSendBuffer' \in 0 .. MaxSends
    BY <1>4, <1>6, <2>1, BufferTypeNext DEF IInv, TypeOK
  <2> QED  BY <1>3, <1>4, <1>5, <2>2 DEF IInv, TypeOK
<1>8. DestroyQueued' /\ Life'
  BY <1>3, <1>4 DEF IInv, DestroyQueued, Life
<1>9. Reported' /\ Told' /\ AssertionsHold'
  BY <1>3 DEF IInv, Reported, Told, AssertionsHold
<1>10. AllDataDelivered'
  BY <1>3 DEF IInv, AllDataDelivered
<1>11. NoLostWriteInterest'
  BY <1>3, <1>4 DEF IInv, NoLostWriteInterest, TypeOK
<1> QED  BY <1>6, <1>7, <1>8, <1>9, <1>10, <1>11 DEF IInv

LEMMA HandleEventIInv ==
  ASSUME IInv, HandleEvent PROVE IInv'
<1>1. loopPc = "handle" /\ UNCHANGED <<revents, pendingTasks, tasksRun>>
  BY DEF HandleEvent
<1>2. CASE HangUp(revents)
  <2>1. revents # {} /\ "HUP" \in revents /\ "IN" \notin revents
    BY <1>2 DEF HangUp
  <2>2. life = "open" /\ mState # "DisConnected"
    BY <1>1, <2>1, EventOfOpen
  <2>3. AssertTrue(mState # "DisConnected", "handleClose") /\ handleClose /\ loopPc' = "swap"
    BY <1>2, <2>1 DEF HandleEvent
  <2>4. failure' = failure
    BY <2>2, <2>3 DEF AssertTrue
  <2>5. reset
    BY <1>1, <2>1 DEF IInv, Reported
  <2> QED  BY <1>1, <2>2, <2>3, <2>4, <2>5, CloseIInv
<1>3. CASE ~HangUp(revents) /\ "ERR" \notin revents /\ "IN" \in revents
  <2>1. life = "open" /\ mState # "DisConnected"
    BY <1>1, <1>3, EventOfOpen
  <2>2. AssertTrue(mState # "DisConnected", "handleRead") /\ handleRead /\ loopPc' = "write"
    BY <1>3 DEF HandleEvent
  <2>3. failure' = failure
    BY <2>1, <2>2 DEF AssertTrue
  <2>4. CASE inbox > 0
    BY <1>1, <2>1, <2>2, <2>3, <2>4, ReadIInv
  <2>5. CASE ~(inbox > 0)
    <3>1. handleClose /\ inbox = 0
      BY <2>2, <2>5 DEF handleRead, IInv, TypeOK
    <3>2. peerFin \/ reset
      BY <1>1, <1>3, <2>5 DEF IInv, Reported
    <3> QED  BY <1>1, <2>1, <2>2, <2>3, <3>1, <3>2, CloseIInv
  <2> QED  BY <2>4, <2>5
<1>4. CASE ~HangUp(revents) /\ ("ERR" \in revents \/ revents \subseteq {"OUT"})
  <2>1. /\ loopPc' \in {"write", "swap"} /\ soError' \in {soError, FALSE}
        /\ UNCHANGED <<life, mState, writing, mSendBuffer, inSet, userHolds, userView, delivered,
                       sends, shutdowns, mPendingTasks, failure>>
        /\ UNCHANGED <<inbox, peerFin, ourFin, reset>>
    BY <1>4 DEF HandleEvent, handleError, connVars, userVars, socketVars
  <2>2. TypeOK'
    <3>1. {peerFin', ourFin', reset', soError'} \subseteq BOOLEAN
      BY <2>1 DEF IInv, TypeOK
    <3> QED  BY <1>1, <2>1, <3>1 DEF IInv, TypeOK
  <2>3. Counts' /\ Life'
    BY <1>1, <2>1 DEF IInv, Counts, Life, DestroyAhead
  <2>4. DestroyQueued'
    BY <1>1, <2>1 DEF IInv, DestroyQueued
  <2>5. Reported' /\ Told' /\ AllDataDelivered' /\ AssertionsHold' /\ NoLostWriteInterest'
    BY <1>1, <2>1 DEF IInv, Reported, Told, AllDataDelivered, AssertionsHold, NoLostWriteInterest
  <2> QED  BY <2>2, <2>3, <2>4, <2>5 DEF IInv
<1>5. \/ HangUp(revents)
      \/ ~HangUp(revents) /\ "ERR" \in revents
      \/ ~HangUp(revents) /\ "ERR" \notin revents /\ "IN" \in revents
      \/ ~HangUp(revents) /\ revents \subseteq {"OUT"}
  BY DEF HandleEvent, HangUp
<1> QED  BY <1>2, <1>3, <1>4, <1>5

(* EPOLLOUT's half of handleEvent, which may fail the process.             *)
LEMMA HandleEventOutIInv ==
  ASSUME IInv, HandleEventOut PROVE IInv'
<1>1. /\ loopPc = "write" /\ loopPc' = "swap"
      /\ UNCHANGED <<revents, pendingTasks, tasksRun>>
      /\ UNCHANGED <<inbox, peerFin, ourFin, reset, soError>>
  BY DEF HandleEventOut, socketVars
<1>2. UNCHANGED <<life, mState, inSet, userHolds, userView, delivered, shutdowns, mPendingTasks>>
  BY DEF HandleEventOut, handleWrite, connVars, userVars
<1>3. failure' \in {failure, "handleWrite", "writeError"}
  BY DEF HandleEventOut, handleWrite
<1>4. \/ UNCHANGED <<writing, mSendBuffer, sends>>
      \/ /\ mState = "Connected" /\ UNCHANGED <<writing, sends>>
         /\ mSendBuffer' \in 1 .. mSendBuffer - 1
      \/ /\ mState = "Connected" /\ writing' = FALSE
         /\ \E n \in Sends("writeComplete") :
               sends' = sends + n /\ sends' <= MaxSends /\ mSendBuffer' = n
  BY DEF HandleEventOut, handleWrite, connVars, userVars
<1>5. mSendBuffer' \in Nat /\ sends' \in 0 .. MaxSends /\ mSendBuffer' - sends' <= mSendBuffer - sends
  <2>1. mSendBuffer \in Nat /\ sends \in 0 .. MaxSends /\ MaxSends \in Nat
    BY BoundsAssumption DEF IInv, TypeOK
  <2>2. \A n \in Sends("writeComplete") : n \in {0, 1}
    BY DEF Sends
  <2> QED  BY <1>4, <2>1, <2>2
<1>6. Counts'
  <2>1. SendsLeft(mPendingTasks, 0) \in Nat /\ SendsLeft(pendingTasks, tasksRun) \in Nat
    BY SendsLeftNat DEF IInv, TypeOK
  <2>2. /\ SendsLeft(mPendingTasks, 0)' = SendsLeft(mPendingTasks, 0)
        /\ SendsLeft(pendingTasks, tasksRun)' = SendsLeft(pendingTasks, tasksRun)
    BY <1>1, <1>2
  <2>3. mSendBuffer \in Nat /\ sends \in Nat
    BY BoundsAssumption DEF IInv, TypeOK
  <2>4. inbox' + delivered' <= MaxMessages
    BY <1>1, <1>2 DEF IInv, Counts
  <2>5. mSendBuffer + SendsLeft(mPendingTasks, 0) + SendsLeft(pendingTasks, tasksRun) <= sends
    BY DEF IInv, Counts
  <2>6. mSendBuffer' + SendsLeft(mPendingTasks, 0) + SendsLeft(pendingTasks, tasksRun) <= sends'
    <3>1. sends' \in Nat
      BY <1>5, BoundsAssumption
    <3>2. ASSUME NEW a \in Nat, NEW b \in Nat, NEW buf \in Nat, NEW buf1 \in Nat, NEW s \in Nat,
                 NEW s1 \in Nat, buf + a + b <= s, buf1 - s1 <= buf - s
          PROVE  buf1 + a + b <= s1
      BY <3>2
    <3> QED  BY <1>5, <2>1, <2>3, <2>5, <3>1, <3>2
  <2> QED  BY <2>2, <2>4, <2>6 DEF Counts
<1>7. TypeOK'
  <2>1. mSendBuffer' \in 0 .. MaxSends
    BY <1>1, <1>2, <1>5, <1>6, BufferTypeNext DEF IInv, TypeOK
  <2>2. failure' \in Failure /\ writing' \in BOOLEAN
    BY <1>3, <1>4 DEF IInv, TypeOK, Failure
  <2> QED  BY <1>1, <1>2, <1>5, <2>1, <2>2 DEF IInv, TypeOK
<1>8. DestroyQueued'
  BY <1>1, <1>2 DEF IInv, DestroyQueued
<1>9. Life'
  BY <1>1, <1>2, <1>4 DEF IInv, Life, DestroyAhead
<1>10. Reported' /\ Told' /\ AllDataDelivered' /\ AssertionsHold'
  BY <1>1, <1>2, <1>3 DEF IInv, Reported, Told, AllDataDelivered, AssertionsHold
<1>11. NoLostWriteInterest'
  <2>1. mSendBuffer \in Nat
    BY DEF IInv, TypeOK
  <2>2. "writeComplete" \notin SendingCallbacks => Sends("writeComplete") = {0}
    BY DEF Sends
  <2> QED  BY <1>2, <1>4, <2>1, <2>2 DEF IInv, NoLostWriteInterest
<1> QED  BY <1>6, <1>7, <1>8, <1>9, <1>10, <1>11 DEF IInv
-----------------------------------------------------------------------------
(***************************************************************************)
(* The pending tasks.                                                      *)
(***************************************************************************)
LEMMA SwapIInv ==
  ASSUME IInv, SwapPendingTasks PROVE IInv'
<1>1. /\ loopPc = "swap" /\ loopPc' = "run"
      /\ pendingTasks' = mPendingTasks /\ mPendingTasks' = <<>> /\ tasksRun' = 0
      /\ UNCHANGED <<revents, life, mState, writing, mSendBuffer, inSet, userHolds, userView,
                     delivered, sends, shutdowns, failure>>
      /\ UNCHANGED <<inbox, peerFin, ourFin, reset, soError>>
  BY DEF SwapPendingTasks, connVars, userVars, socketVars
<1>2. TypeOK'
  <2>1. <<>> \in Seq(Task) /\ 0 \in 0 .. Len(mPendingTasks)
    BY DEF IInv, TypeOK
  <2> QED  BY <1>1, <2>1 DEF IInv, TypeOK
<1>3. Counts'
  <2>1. SendsLeft(mPendingTasks, 0) \in Nat /\ SendsLeft(pendingTasks, tasksRun) \in Nat
    BY SendsLeftNat DEF IInv, TypeOK
  <2> QED  BY <1>1, <2>1, SendsLeftEmpty DEF IInv, Counts, TypeOK
<1>4. ~In("destroy", pendingTasks) /\ ~In("destroy", mPendingTasks')
  BY <1>1, InEmpty DEF IInv, DestroyQueued
<1>5. DestroyQueued'
  BY <1>1, <1>4 DEF IInv, DestroyQueued
<1>6. Life'
  <2>1. DestroyAhead => In("destroy", mPendingTasks)
    BY <1>4 DEF DestroyAhead, In
  <2>2. In("destroy", mPendingTasks) => DestroyAhead'
    BY <1>1 DEF DestroyAhead, In
  <2> QED  BY <1>1, <2>1, <2>2 DEF IInv, Life
<1>7. Reported' /\ Told' /\ AllDataDelivered' /\ AssertionsHold' /\ NoLostWriteInterest'
  BY <1>1 DEF IInv, Reported, Told, AllDataDelivered, AssertionsHold, NoLostWriteInterest
<1> QED  BY <1>2, <1>3, <1>5, <1>6, <1>7 DEF IInv

(* All tasks but a destruction leave those that remain, and those run.     *)
LEMMA RunTaskIInv ==
  ASSUME IInv, RunTask PROVE IInv'
<1> DEFINE task == pendingTasks[tasksRun + 1]
<1>1. /\ loopPc = "run" /\ tasksRun < Len(pendingTasks) /\ tasksRun' = tasksRun + 1
      /\ UNCHANGED <<loopPc, revents, mPendingTasks, pendingTasks>>
  BY DEF RunTask
<1>2. /\ pendingTasks \in Seq(Task) /\ tasksRun \in Nat /\ Len(pendingTasks) \in Nat
      /\ tasksRun + 1 \in 1 .. Len(pendingTasks) /\ tasksRun' \in 0 .. Len(pendingTasks)
  BY <1>1 DEF IInv, TypeOK
<1>3. task \in {"destroy", "send", "shutdown"}
  BY <1>2 DEF Task
<1>4. SendsLeft(pendingTasks, tasksRun)
          = SendsLeft(pendingTasks, tasksRun + 1) + (IF task = "send" THEN 1 ELSE 0)
  BY <1>1, <1>2, SendsLeftRun
<1>5. /\ SendsLeft(mPendingTasks, 0) \in Nat
      /\ SendsLeft(pendingTasks, tasksRun) \in Nat
      /\ SendsLeft(pendingTasks, tasksRun + 1) \in Nat
  BY <1>2, SendsLeftNat DEF IInv, TypeOK
<1>6. task = "destroy" => In("destroy", pendingTasks)
  BY <1>2 DEF In
<1>7. task # "destroy" => (DestroyAhead => DestroyAhead')
  <2>1. \A i \in 1 .. Len(pendingTasks) :
            i > tasksRun /\ pendingTasks[i] = "destroy" /\ task # "destroy" => i > tasksRun + 1
    BY <1>2
  <2> QED  BY <1>1, <2>1 DEF DestroyAhead
<1> HIDE DEF task
<1>8. CASE task = "destroy"
  <2>1. destroyConnection
    BY <1>1, <1>8 DEF RunTask, task
  <2>2. mState = "DisConnected"
    BY <1>6, <1>8 DEF IInv, DestroyQueued
  <2>3. /\ life' = "gone" /\ writing' = FALSE /\ inSet' = FALSE /\ failure' = failure
        /\ UNCHANGED <<mState, mSendBuffer, userHolds, userView, delivered, sends, shutdowns>>
        /\ UNCHANGED <<inbox, peerFin, ourFin, reset, soError>>
    BY <2>1, <2>2 DEF destroyConnection, AssertTrue, userVars, socketVars
  <2>4. TypeOK'
    BY <1>1, <1>2, <2>3 DEF IInv, TypeOK
  <2>5. Counts'
    BY <1>1, <1>4, <1>5, <1>8, <2>3 DEF IInv, Counts, TypeOK
  <2>6. DestroyQueued' /\ Life'
    BY <1>1, <2>3 DEF IInv, DestroyQueued, Life
  <2>7. Reported' /\ Told' /\ AllDataDelivered' /\ AssertionsHold' /\ NoLostWriteInterest'
    BY <1>1, <2>2, <2>3 DEF IInv, Reported, Told, AllDataDelivered, AssertionsHold,
                            NoLostWriteInterest
  <2> QED  BY <2>4, <2>5, <2>6, <2>7 DEF IInv
<1>9. CASE task = "send"
  <2>1. SendTask
    BY <1>1, <1>9 DEF RunTask, task
  <2>2. /\ failure' \in {failure, "sendFreed"}
        /\ mSendBuffer' = IF mState = "Connected" THEN mSendBuffer + 1 ELSE mSendBuffer
        /\ writing' = (writing \/ mState = "Connected")
        /\ UNCHANGED <<life, mState, inSet, userHolds, userView, delivered, sends, shutdowns>>
        /\ UNCHANGED <<inbox, peerFin, ourFin, reset, soError>>
    BY <2>1 DEF SendTask, AssertTrue, userVars, socketVars
  <2>3. mSendBuffer' \in Nat /\ writing' \in BOOLEAN
    BY <2>2 DEF IInv, TypeOK
  <2>4. Counts'
    BY <1>1, <1>4, <1>5, <1>9, <2>2 DEF IInv, Counts, TypeOK
  <2>5. TypeOK'
    <3>1. mSendBuffer' \in 0 .. MaxSends
      BY <1>1, <1>2, <2>2, <2>3, <2>4, BufferTypeNext DEF IInv, TypeOK
    <3>2. failure' \in Failure
      BY <2>2 DEF IInv, TypeOK, Failure
    <3> QED  BY <1>1, <1>2, <2>2, <2>3, <3>1, <3>2 DEF IInv, TypeOK
  <2>6. DestroyQueued' /\ Life'
    BY <1>1, <1>7, <1>9, <2>2 DEF IInv, DestroyQueued, Life
  <2>7. Reported' /\ Told' /\ AllDataDelivered' /\ AssertionsHold'
    BY <1>1, <2>2 DEF IInv, Reported, Told, AllDataDelivered, AssertionsHold
  <2>8. NoLostWriteInterest'
    BY <2>2 DEF IInv, NoLostWriteInterest
  <2> QED  BY <2>4, <2>5, <2>6, <2>7, <2>8 DEF IInv
<1>10. CASE task = "shutdown"
  <2>1. ShutdownTask
    BY <1>1, <1>10 DEF RunTask, task
  <2>2. /\ failure' \in {failure, "shutdownFreed"}
        /\ UNCHANGED <<life, inSet, userHolds, userView, delivered, sends, shutdowns>>
        /\ UNCHANGED <<inbox, peerFin, reset, soError>>
    BY <2>1 DEF ShutdownTask, AssertTrue, connVars, userVars
  <2>3. \/ UNCHANGED <<mState, writing, mSendBuffer, ourFin>>
        \/ /\ mState # "DisConnected" /\ mState' = "HalfClosed"
           /\ writing' = FALSE /\ ourFin' = TRUE
           /\ mSendBuffer' \in 0 .. mSendBuffer
    BY <2>1 DEF ShutdownTask, connVars, IInv, TypeOK
  <2>4. Counts' /\ mSendBuffer' \in Nat
    BY <1>1, <1>4, <1>5, <1>10, <2>2, <2>3 DEF IInv, Counts, TypeOK
  <2>5. TypeOK'
    <3>1. mSendBuffer' \in 0 .. MaxSends
      BY <1>1, <1>2, <2>2, <2>4, BufferTypeNext DEF IInv, TypeOK
    <3>2. failure' \in Failure
      BY <2>2 DEF IInv, TypeOK, Failure
    <3>3. {peerFin', ourFin', reset', soError'} \subseteq BOOLEAN
      BY <2>2, <2>3 DEF IInv, TypeOK
    <3> QED  BY <1>1, <1>2, <2>2, <2>3, <3>1, <3>2, <3>3 DEF IInv, TypeOK
  <2>6. DestroyQueued'
    BY <1>1, <2>3 DEF IInv, DestroyQueued
  <2>7. Life'
    BY <1>7, <1>10, <2>2, <2>3 DEF IInv, Life
  <2>8. Reported' /\ Told' /\ AllDataDelivered' /\ AssertionsHold' /\ NoLostWriteInterest'
    BY <1>1, <2>2, <2>3 DEF IInv, Reported, Told, AllDataDelivered, AssertionsHold,
                            NoLostWriteInterest
  <2> QED  BY <2>4, <2>5, <2>6, <2>7, <2>8 DEF IInv
<1> QED  BY <1>3, <1>8, <1>9, <1>10 DEF task

LEMMA EndPendingTasksIInv ==
  ASSUME IInv, EndPendingTasks PROVE IInv'
<1>1. /\ loopPc = "run" /\ loopPc' = "poll"
      /\ tasksRun = Len(pendingTasks) /\ pendingTasks' = <<>> /\ tasksRun' = 0
      /\ UNCHANGED <<revents, mPendingTasks, life, mState, writing, mSendBuffer, inSet, userHolds,
                     userView, delivered, sends, shutdowns, failure>>
      /\ UNCHANGED <<inbox, peerFin, ourFin, reset, soError>>
  BY DEF EndPendingTasks, connVars, userVars, socketVars
<1>2. TypeOK'
  <2>1. <<>> \in Seq(Task) /\ 0 \in 0 .. Len(<<>>)
    OBVIOUS
  <2> QED  BY <1>1, <2>1 DEF IInv, TypeOK
<1>3. Counts'
  <2>1. SendsLeft(mPendingTasks, 0) \in Nat /\ SendsLeft(pendingTasks, tasksRun) \in Nat
    BY SendsLeftNat DEF IInv, TypeOK
  <2> QED  BY <1>1, <2>1, SendsLeftEmpty DEF IInv, Counts, TypeOK
<1>4. ~In("destroy", mPendingTasks) /\ ~In("destroy", pendingTasks')
  BY <1>1, InEmpty DEF IInv, DestroyQueued
<1>5. ~DestroyAhead
  BY <1>1, <1>4 DEF DestroyAhead, IInv, TypeOK
<1>6. DestroyQueued' /\ Life'
  BY <1>1, <1>4, <1>5 DEF IInv, DestroyQueued, Life
<1>7. Reported' /\ Told' /\ AllDataDelivered' /\ AssertionsHold' /\ NoLostWriteInterest'
  BY <1>1 DEF IInv, Reported, Told, AllDataDelivered, AssertionsHold, NoLostWriteInterest
<1> QED  BY <1>2, <1>3, <1>6, <1>7 DEF IInv
-----------------------------------------------------------------------------
LEMMA Stutter ==
  ASSUME IInv, UNCHANGED vars PROVE IInv'
<1>1. /\ UNCHANGED <<loopPc, revents, mPendingTasks, pendingTasks, tasksRun>>
      /\ UNCHANGED <<life, mState, writing, mSendBuffer, inSet>>
      /\ UNCHANGED <<userHolds, userView, delivered, sends, shutdowns>>
      /\ UNCHANGED <<inbox, peerFin, ourFin, reset, soError, failure>>
  BY DEF vars, loopVars, connVars, userVars, socketVars
<1>2. TypeOK'
  BY <1>1 DEF IInv, TypeOK
<1>3. Counts' /\ DestroyQueued' /\ Life'
  BY <1>1 DEF IInv, Counts, DestroyQueued, Life, DestroyAhead
<1>4. Reported' /\ Told' /\ AllDataDelivered' /\ AssertionsHold' /\ NoLostWriteInterest'
  BY <1>1 DEF IInv, Reported, Told, AllDataDelivered, AssertionsHold, NoLostWriteInterest
<1> QED  BY <1>2, <1>3, <1>4 DEF IInv

LEMMA Inductive ==
  ASSUME IInv, [Next]_vars PROVE IInv'
<1>1. CASE establishConnect
  BY <1>1, EstablishIInv
<1>2. CASE Loop
  BY <1>2, PollIInv, HandleEventIInv, HandleEventOutIInv, SwapIInv, RunTaskIInv,
     EndPendingTasksIInv DEF Loop
<1>3. CASE Peer
  BY <1>3, PeerIInv
<1>4. CASE User
  BY <1>4, OtherCallbackIInv, SendFromThreadIInv, DropPointerIInv DEF User
<1>5. CASE UNCHANGED vars
  BY <1>5, Stutter
<1> QED  BY <1>1, <1>2, <1>3, <1>4, <1>5 DEF Next

LEMMA Invariant == Spec => []IInv
<1>1. Init => IInv
  BY Initially
<1>2. IInv /\ [Next]_vars => IInv'
  BY Inductive
<1> QED  BY <1>1, <1>2, PTL DEF Spec
-----------------------------------------------------------------------------
(* Every variable of the connection, its loop and its socket stays in its  *)
(* range; the buffer never holds more than send was given                  *)
(* (TcpConnection.cpp:155-196).                                            *)
THEOREM Types == Spec => []TypeOK
<1>1. IInv => TypeOK
  BY DEF IInv
<1> QED  BY <1>1, Invariant, PTL

(* The assertions of handleRead, handleClose and destroyConnection         *)
(* (TcpConnection.cpp:80,133,294) never fail: the destruction that         *)
(* handleClose queues runs before the next poll can report the channel.    *)
THEOREM AssertionsNeverFail == Spec => []AssertionsHold
<1>1. IInv => AssertionsHold
  BY DEF IInv
<1> QED  BY <1>1, Invariant, PTL

(* What sendInLoop accepted (TcpConnection.cpp:155-196) is waiting for     *)
(* EPOLLOUT, for any number of sends and shutdowns in any order, if user   *)
(* code does not send in its write-complete callback.                      *)
THEOREM WriteInterestKept == Spec => []NoLostWriteInterest
<1>1. IInv => NoLostWriteInterest
  BY DEF IInv
<1> QED  BY <1>1, Invariant, PTL

(* User code that is told of the disconnection has been given all that the *)
(* peer sent before its FIN: Channel::handleEvent prefers EPOLLIN to       *)
(* EPOLLHUP (Channel.cpp:76), and a read of 0 comes last.                  *)
THEOREM DataBeforeDisconnect == Spec => []AllDataDelivered
<1>1. IInv => AllDataDelivered
  BY DEF IInv
<1> QED  BY <1>1, Invariant, PTL

(* The states of TcpConnection.h:50-54 follow one another as its state     *)
(* machine says: no close is taken back by a shutdown queued before it,    *)
(* and no connection closes twice.                                         *)
THEOREM StatesInOrder == Spec => StateMachine
<1> DEFINE Step == mState' # mState =>
                     <<mState, mState'>> \in {<<"DisConnected", "Connected">>,
                                              <<"Connected", "HalfClosed">>,
                                              <<"Connected", "DisConnected">>,
                                              <<"HalfClosed", "DisConnected">>}
<1>1. ASSUME IInv, establishConnect PROVE Step
  BY <1>1 DEF establishConnect, IInv, Life
<1>2. ASSUME IInv, Loop PROVE Step
  <2>1. CASE HandleEvent
    <3>1. mState' # mState => mState' = "DisConnected"
      BY <2>1 DEF HandleEvent, handleRead, handleClose, connVars
    <3> QED  BY <3>1, <1>2 DEF IInv, TypeOK
  <2>2. CASE RunTask
    <3>1. mState' # mState => mState' = "HalfClosed" /\ mState # "DisConnected"
      <4>1. destroyConnection \/ SendTask => mState' = mState
        BY DEF destroyConnection, SendTask
      <4>2. ShutdownTask => \/ mState' = mState
                            \/ mState' = "HalfClosed" /\ mState # "DisConnected"
        BY DEF ShutdownTask, connVars
      <4>3. pendingTasks[tasksRun'] \in {"destroy", "send", "shutdown"}
        BY <1>2, <2>2 DEF RunTask, IInv, TypeOK, Task
      <4>4. destroyConnection \/ SendTask \/ ShutdownTask
        BY <2>2, <4>3 DEF RunTask
      <4> QED  BY <4>1, <4>2, <4>4
    <3> QED  BY <3>1, <1>2 DEF IInv, TypeOK
  <2>3. CASE Poll \/ SwapPendingTasks \/ EndPendingTasks
    BY <2>3 DEF Poll, SwapPendingTasks, EndPendingTasks, connVars
  <2>4. CASE HandleEventOut
    BY <2>4 DEF HandleEventOut, handleWrite, connVars
  <2> QED  BY <1>2, <2>1, <2>2, <2>3, <2>4 DEF Loop
<1>3. ASSUME Peer \/ User \/ UNCHANGED vars PROVE Step
  BY <1>3 DEF Peer, PeerSends, PeerCloses, PeerResets, User, OtherCallback, SendFromThread,
              DropPointer, vars, connVars
<1>4. IInv /\ [Next]_vars => [Step]_vars
  BY <1>1, <1>2, <1>3 DEF Next
<1> QED  BY <1>4, Invariant, PTL DEF Spec, StateMachine
-----------------------------------------------------------------------------
(***************************************************************************)
(* What user code hears.                                                   *)
(***************************************************************************)

(* What the connection callback last said agrees with the connection's     *)
(* state, and only what was closed is destroyed.                           *)
Heard ==
    /\ userView = IF life = "listen" THEN "none"
                  ELSE IF mState = "DisConnected" THEN "disconnected" ELSE "connected"
    /\ In("destroy", mPendingTasks) \/ In("destroy", pendingTasks)
           => userView = "disconnected"

LEMMA HeardKept ==
  ASSUME Heard, UNCHANGED <<life, mState, userView, pendingTasks>>,
         In("destroy", mPendingTasks') <=> In("destroy", mPendingTasks)
  PROVE  Heard'
  BY DEF Heard

LEMMA HeardHandleEvent ==
  ASSUME IInv, Heard, HandleEvent PROVE Heard'
<1>1. loopPc = "handle" /\ UNCHANGED <<revents, pendingTasks, tasksRun>>
  BY DEF HandleEvent
<1>2. CASE handleClose /\ revents # {}
  <2>1. life = "open"
    BY <1>1, <1>2, EventOfOpen
  <2>2. /\ mState' = "DisConnected" /\ userView' = "disconnected" /\ life' = life
        /\ mPendingTasks' = Append(mPendingTasks, "destroy")
    BY <1>2 DEF handleClose
  <2> QED  BY <2>1, <2>2 DEF Heard
<1>3. CASE UNCHANGED <<life, mState, userView, mPendingTasks>>
  BY <1>1, <1>3 DEF Heard
<1>4. ASSUME NEW n \in {0, 1}, NEW m \in {0, 1}, UserCode(mState, n, m),
             UNCHANGED <<life, mState, userView>>
      PROVE  Heard'
  BY <1>1, <1>4, UserCodeEffect, HeardKept DEF IInv
<1>5. \/ handleClose /\ revents # {}
      \/ UNCHANGED <<life, mState, userView, mPendingTasks>>
      \/ /\ \E n \in {0, 1}, m \in {0, 1} : UserCode(mState, n, m)
         /\ UNCHANGED <<life, mState, userView>>
  BY DEF HandleEvent, HangUp, handleError, handleRead, Sends, connVars, userVars
<1> QED  BY <1>2, <1>3, <1>4, <1>5

LEMMA HeardRunTask ==
  ASSUME IInv, Heard, RunTask PROVE Heard'
<1>1. /\ loopPc = "run" /\ tasksRun' = tasksRun + 1
      /\ UNCHANGED <<mPendingTasks, pendingTasks>>
      /\ tasksRun + 1 \in 1 .. Len(pendingTasks)
  BY DEF RunTask, IInv, TypeOK
<1>2. pendingTasks[tasksRun + 1] \in {"destroy", "send", "shutdown"}
  BY <1>1 DEF IInv, TypeOK, Task
<1>3. CASE pendingTasks[tasksRun + 1] = "destroy"
  <2>1. In("destroy", pendingTasks)
    BY <1>1, <1>3 DEF In
  <2>2. userView = "disconnected" /\ mState = "DisConnected"
    BY <2>1 DEF IInv, DestroyQueued, Heard
  <2>3. life' = "gone" /\ UNCHANGED <<mState, userView>>
    BY <1>1, <1>3 DEF RunTask, destroyConnection, userVars
  <2> QED  BY <1>1, <2>2, <2>3 DEF Heard
<1>4. CASE pendingTasks[tasksRun + 1] = "send"
  BY <1>1, <1>4 DEF RunTask, SendTask, userVars, Heard
<1>5. CASE pendingTasks[tasksRun + 1] = "shutdown"
  <2>1. ShutdownTask
    BY <1>1, <1>5 DEF RunTask
  <2>2. UNCHANGED <<life, userView>>
    BY <2>1 DEF ShutdownTask, connVars, userVars
  <2>3. mState' # mState => mState # "DisConnected" /\ mState' # "DisConnected"
    BY <2>1 DEF ShutdownTask, connVars
  <2> QED  BY <1>1, <2>2, <2>3 DEF Heard
<1> QED  BY <1>2, <1>3, <1>4, <1>5

LEMMA HeardNext ==
  ASSUME IInv, Heard, [Next]_vars PROVE Heard'
<1>1. CASE establishConnect
  <2>1. /\ life' = "open" /\ mState' = "Connected" /\ userView' = "connected"
        /\ pendingTasks' = pendingTasks /\ userView = "none"
    BY <1>1 DEF establishConnect, Heard
  <2>2. \E n \in {0, 1}, m \in {0, 1} : UserCode("Connected", n, m)
    BY <1>1 DEF establishConnect, Sends
  <2>3. In("destroy", mPendingTasks') <=> In("destroy", mPendingTasks)
    BY <2>2, UserCodeEffect DEF IInv
  <2> QED  BY <2>1, <2>3 DEF Heard
<1>2. CASE Poll \/ HandleEventOut \/ Peer \/ DropPointer \/ UNCHANGED vars
  <2>1. UNCHANGED <<life, mState, userView, mPendingTasks, pendingTasks>>
    BY <1>2 DEF Poll, HandleEventOut, handleWrite, Peer, PeerSends, PeerCloses, PeerResets,
                DropPointer, vars, loopVars, connVars, userVars
  <2> QED  BY <2>1 DEF Heard
<1>3. CASE SwapPendingTasks \/ EndPendingTasks
  <2>1. /\ UNCHANGED <<life, mState, userView>>
        /\ \/ mPendingTasks' = <<>> /\ pendingTasks' = mPendingTasks
           \/ mPendingTasks' = mPendingTasks /\ pendingTasks' = <<>>
    BY <1>3 DEF SwapPendingTasks, EndPendingTasks, connVars, userVars
  <2> QED  BY <2>1, InEmpty DEF Heard
<1>4. CASE OtherCallback
  <2>1. \E n \in {0, 1}, m \in {0, 1} : UserCode(mState, n, m)
    BY <1>4 DEF OtherCallback
  <2>2. UNCHANGED <<life, mState, userView, pendingTasks>>
    BY <1>4 DEF OtherCallback
  <2> QED  BY <2>1, <2>2, UserCodeEffect, HeardKept DEF IInv
<1>5. CASE SendFromThread
  <2>1. /\ mPendingTasks' = Append(mPendingTasks, "send")
        /\ UNCHANGED <<life, mState, userView, pendingTasks>>
    BY <1>5 DEF SendFromThread, connVars
  <2>2. "send" \in Task /\ mPendingTasks \in Seq(Task)
    BY DEF Task, IInv, TypeOK
  <2>3. In("destroy", mPendingTasks') <=> In("destroy", mPendingTasks)
    BY <2>1, <2>2, InAppend
  <2> QED  BY <2>1, <2>3, HeardKept
<1> QED
  BY <1>1, <1>2, <1>3, <1>4, <1>5, HeardHandleEvent, HeardRunTask DEF Next, Loop, User

LEMMA HeardInvariant == Spec => [](IInv /\ Heard)
<1>1. Init => Heard
  BY InEmpty DEF Init, Heard
<1>2. IInv /\ Heard /\ [Next]_vars => Heard'
  BY HeardNext
<1> QED  BY <1>1, <1>2, Invariant, PTL DEF Spec

(* User code hears of the connection, then of its messages, then of its    *)
(* close, each of the first and the last once (TcpConnection.cpp:285, 94,  *)
(* 143), and between the two alone a send is accepted (208): however       *)
(* closes, sends and shutdowns queue up.                                   *)
UserViewInOrder ==
    [][/\ userView' # userView =>
             <<userView, userView'>> \in {<<"none", "connected">>, <<"connected", "disconnected">>}
       /\ delivered' # delivered => userView = "connected" /\ userView' = "connected"
       /\ mSendBuffer' > mSendBuffer => userView' = "connected"]_vars

THEOREM HeardInOrder == Spec => UserViewInOrder
<1> DEFINE Step ==
        /\ userView' # userView =>
              <<userView, userView'>> \in {<<"none", "connected">>, <<"connected", "disconnected">>}
        /\ delivered' # delivered => userView = "connected" /\ userView' = "connected"
        /\ mSendBuffer' > mSendBuffer => userView' = "connected"
<1>1. ASSUME IInv, Heard, Heard', [Next]_vars PROVE Step
  <2>1. CASE establishConnect
    BY <1>1, <2>1 DEF establishConnect, Heard
  <2>2. CASE HandleEvent
    <3>1. CASE revents = {}
      BY <1>1, <2>2, <3>1 DEF HandleEvent, HangUp, connVars, userVars, IInv, TypeOK
    <3>2. CASE revents # {}
      <4>1. loopPc = "handle"
        BY <2>2 DEF HandleEvent
      <4>2. life = "open" /\ mState # "DisConnected"
        BY <1>1, <3>2, <4>1, EventOfOpen
      <4>3. userView = "connected"
        BY <1>1, <4>2 DEF Heard
      <4>4. \/ userView' = userView
            \/ /\ userView' = "disconnected"
               /\ UNCHANGED <<delivered, mSendBuffer>>
        BY <2>2 DEF HandleEvent, handleRead, handleClose, userVars
      <4> QED  BY <1>1, <4>3, <4>4 DEF IInv, TypeOK
    <3> QED  BY <3>1, <3>2
  <2>3. CASE HandleEventOut
    <3>1. UNCHANGED <<life, mState, userView, delivered>>
      BY <2>3 DEF HandleEventOut, handleWrite, connVars, userVars
    <3>2. mSendBuffer' = mSendBuffer \/ mState = "Connected"
      BY <2>3 DEF HandleEventOut, handleWrite, connVars
    <3>3. mState = "Connected" => userView = "connected"
      BY <1>1 DEF Heard, IInv, Life
    <3> QED  BY <1>1, <3>1, <3>2, <3>3 DEF IInv, TypeOK
  <2>4. CASE RunTask
    <3>1. /\ tasksRun' = tasksRun + 1
          /\ pendingTasks[tasksRun + 1] \in {"destroy", "send", "shutdown"}
      BY <1>1, <2>4 DEF RunTask, IInv, TypeOK, Task
    <3>2. destroyConnection \/ SendTask \/ ShutdownTask
      BY <2>4, <3>1 DEF RunTask
    <3>3. UNCHANGED <<userView, delivered>>
      BY <3>2 DEF destroyConnection, SendTask, ShutdownTask, userVars
    <3>4. mSendBuffer' > mSendBuffer => mState = "Connected"
      BY <1>1, <3>2 DEF destroyConnection, SendTask, ShutdownTask, connVars, IInv, TypeOK
    <3>5. mState = "Connected" => userView = "connected"
      BY <1>1 DEF Heard, IInv, Life
    <3> QED  BY <3>3, <3>4, <3>5
  <2>5. CASE OtherCallback
    <3>1. UNCHANGED <<userView, delivered>>
      BY <2>5 DEF OtherCallback
    <3>2. mSendBuffer' = mSendBuffer \/ mState = "Connected"
      BY <2>5 DEF OtherCallback, UserCode
    <3>3. mState = "Connected" => userView = "connected"
      BY <1>1 DEF Heard, IInv, Life
    <3> QED  BY <1>1, <3>1, <3>2, <3>3 DEF IInv, TypeOK
  <2>6. CASE \/ Poll \/ SwapPendingTasks \/ EndPendingTasks \/ Peer
             \/ SendFromThread \/ DropPointer \/ UNCHANGED vars
    <3>1. UNCHANGED <<userView, delivered, mSendBuffer>>
      BY <2>6 DEF Poll, SwapPendingTasks, EndPendingTasks, Peer, PeerSends, PeerCloses, PeerResets,
                  SendFromThread, DropPointer, vars, connVars, userVars
    <3> QED  BY <1>1, <3>1 DEF IInv, TypeOK
  <2> QED  BY <1>1, <2>1, <2>2, <2>3, <2>4, <2>5, <2>6 DEF Next, Loop, User
<1> HIDE DEF Step
<1>2. IInv /\ Heard /\ Heard' /\ [Next]_vars => [Step]_vars
  BY <1>1
<1>3. Spec => [][Step]_vars
  BY <1>2, HeardInvariant, PTL DEF Spec
<1> QED  BY <1>3 DEF UserViewInOrder, Step
=============================================================================
