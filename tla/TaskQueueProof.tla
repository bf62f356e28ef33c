--------------------------- MODULE TaskQueueProof ---------------------------
(***************************************************************************)
(* The abstract task queue executes a task at most once, for every set of  *)
(* loops and tasks.                                                        *)
(***************************************************************************)
EXTENDS TaskQueue, SequenceTheorems, TLAPS

(* What AtMostOnce needs to be inductive: only submitted tasks are queued  *)
(* or have run, and no two places of the queues hold the same task.        *)
OnlySubmitted ==
    \A x \in Tasks : x \notin submitted => ran[x] = <<>> /\ \A l \in Loops : ~Queued(l, x)

NoDuplicates ==
    \A l, m \in Loops : \A i \in DOMAIN queue[l], j \in DOMAIN queue[m] :
        queue[l][i] = queue[m][j] => l = m /\ i = j

IInv == TypeOK /\ OnlySubmitted /\ NoDuplicates /\ AtMostOnce

(* A queue that Append extended holds what it held and the new task.       *)
LEMMA AppendEntries ==
    ASSUME NEW s \in Seq(Tasks), NEW x \in Tasks
    PROVE  /\ DOMAIN Append(s, x) = DOMAIN s \cup {Len(s) + 1}
           /\ Len(s) + 1 \notin DOMAIN s
           /\ \A i \in DOMAIN s : Append(s, x)[i] = s[i]
           /\ Append(s, x)[Len(s) + 1] = x
  BY AppendProperties, LenProperties

(* The tail of a queue holds what its places from the second on held.      *)
LEMMA TailEntries ==
    ASSUME NEW s \in Seq(Tasks), s # <<>>
    PROVE  /\ 1 \in DOMAIN s
           /\ Head(s) = s[1]
           /\ \A i \in DOMAIN Tail(s) : i + 1 \in DOMAIN s /\ i + 1 # 1 /\ Tail(s)[i] = s[i + 1]
  BY HeadTailProperties, LenProperties

(* TaskQueue starts in the inductive invariant.                            *)
LEMMA InitIInv == Init => IInv
  BY DEF Init, IInv, TypeOK, OnlySubmitted, NoDuplicates, AtMostOnce, Queued

(* Every operation keeps the types.                                        *)
LEMMA NextTypeOK == TypeOK /\ [Next]_vars => TypeOK'
<1> SUFFICES ASSUME TypeOK, [Next]_vars PROVE TypeOK'
  OBVIOUS
<1>1. ASSUME NEW l \in Loops, NEW x \in Tasks, Submit(l, x) PROVE TypeOK'
  BY <1>1, AppendProperties DEF TypeOK, Submit
<1>2. ASSUME NEW l \in Loops, Execute(l) PROVE TypeOK'
  <2>1. /\ Head(queue[l]) \in Tasks
        /\ Tail(queue[l]) \in Seq(Tasks)
    BY <1>2, HeadTailProperties DEF TypeOK, Execute
  <2>2. Append(ran[Head(queue[l])], [loop |-> l, by |-> l]) \in Seq(Execution)
    BY <2>1, AppendProperties DEF TypeOK, Execution
  <2>3. QED BY <1>2, <2>1, <2>2 DEF TypeOK, Execute
<1>3. ASSUME NEW l \in Loops, NEW t \in Loops, NEW x \in Tasks, InPlace(l, t, x) PROVE TypeOK'
  <2>1. Append(ran[x], [loop |-> l, by |-> t]) \in Seq(Execution)
    BY AppendProperties DEF TypeOK, Execution
  <2>2. QED BY <1>3, <2>1 DEF TypeOK, InPlace
<1>4. CASE UNCHANGED vars
  BY <1>4 DEF TypeOK, vars
<1>5. QED BY <1>1, <1>2, <1>3, <1>4 DEF Next

(* Every operation keeps the inductive invariant.                          *)
LEMMA NextIInv == IInv /\ [Next]_vars => IInv'
<1> SUFFICES ASSUME IInv, [Next]_vars PROVE IInv'
  OBVIOUS
<1>0. TypeOK /\ TypeOK'
  BY NextTypeOK DEF IInv
<1>1. ASSUME NEW l \in Loops, NEW x \in Tasks, Submit(l, x) PROVE IInv'
  <2> DEFINE q == queue[l]
  <2>1. /\ q \in Seq(Tasks)
        /\ queue' = [queue EXCEPT ![l] = Append(q, x)]
        /\ x \notin submitted /\ submitted' = submitted \cup {x} /\ ran' = ran
    BY <1>0, <1>1 DEF TypeOK, Submit
  <2>2. /\ \A i \in DOMAIN queue'[l] : \/ i \in DOMAIN q /\ queue'[l][i] = q[i]
                                       \/ i = Len(q) + 1 /\ queue'[l][i] = x
        /\ \A m \in Loops \ {l} : queue'[m] = queue[m]
    BY <2>1, <1>0, AppendEntries DEF TypeOK
  <2>3. \A m \in Loops : \A i \in DOMAIN queue[m] : queue[m][i] # x
    BY <2>1 DEF IInv, OnlySubmitted, Queued
  <2>4. OnlySubmitted'
    BY <2>1, <2>2 DEF IInv, OnlySubmitted, Queued
  <2>5. NoDuplicates'
    BY <2>2, <2>3 DEF IInv, NoDuplicates
  <2>6. AtMostOnce'
    BY <2>1, <2>2 DEF IInv, AtMostOnce, OnlySubmitted, Queued
  <2>7. QED BY <1>0, <2>4, <2>5, <2>6 DEF IInv
<1>2. ASSUME NEW l \in Loops, Execute(l) PROVE IInv'
  <2> DEFINE q == queue[l]
  <2>0. q \in Seq(Tasks) /\ q # <<>> /\ Head(q) \in Tasks
    BY <1>0, <1>2, HeadTailProperties DEF TypeOK, Execute
  <2> PICK x \in Tasks : x = Head(q)
    BY <2>0
  <2>1. /\ q \in Seq(Tasks) /\ q # <<>>
        /\ queue' = [queue EXCEPT ![l] = Tail(q)]
        /\ ran' = [ran EXCEPT ![x] = Append(@, [loop |-> l, by |-> l])]
        /\ submitted' = submitted
    BY <1>2, <2>0 DEF Execute
  <2>2. /\ \A i \in DOMAIN queue'[l] : i + 1 \in DOMAIN q /\ i + 1 # 1 /\ queue'[l][i] = q[i + 1]
        /\ \A m \in Loops \ {l} : queue'[m] = queue[m]
        /\ 1 \in DOMAIN q /\ x = q[1]
    BY <2>0, <2>1, <1>0, TailEntries DEF TypeOK
  <2>3. Queued(l, x)
    BY <2>2 DEF Queued
  <2>4. ran[x] = <<>> /\ x \in submitted
    BY <2>1, <2>3 DEF IInv, AtMostOnce, OnlySubmitted
  <2>5. \A m \in Loops : ~Queued(m, x)'
    BY <2>2 DEF IInv, NoDuplicates, Queued
  <2>6. \A m \in Loops, y \in Tasks : Queued(m, y)' => Queued(m, y)
    BY <2>2 DEF Queued
  <2>7. ran'[x] = <<[loop |-> l, by |-> l]>> /\ \A y \in Tasks \ {x} : ran'[y] = ran[y]
    BY <2>1, <2>4, <1>0 DEF TypeOK
  <2>8. OnlySubmitted'
    BY <2>1, <2>4, <2>6, <2>7 DEF IInv, OnlySubmitted
  <2>9. NoDuplicates'
    <3>1. ASSUME NEW m \in Loops, NEW k \in Loops, NEW i \in DOMAIN queue'[m],
                 NEW j \in DOMAIN queue'[k], queue'[m][i] = queue'[k][j]
          PROVE  m = k /\ i = j
      <4>1. queue'[m] \in Seq(Tasks) /\ queue'[k] \in Seq(Tasks)
        BY <1>0 DEF TypeOK
      <4>2. i \in Nat /\ j \in Nat
        BY <4>1, LenProperties
      <4>3. QED BY <3>1, <4>2, <2>2 DEF IInv, NoDuplicates
    <3>2. QED BY <3>1 DEF NoDuplicates
  <2>10. AtMostOnce'
    <3>1. ASSUME NEW y \in Tasks
          PROVE  Len(ran'[y]) <= 1 /\ (ran'[y] # <<>> => \A m \in Loops : ~Queued(m, y)')
      <4>1. CASE y = x
        BY <4>1, <2>5, <2>7
      <4>2. CASE y # x
        BY <4>2, <2>6, <2>7 DEF IInv, AtMostOnce
      <4>3. QED BY <4>1, <4>2
    <3>2. QED BY <3>1 DEF AtMostOnce
  <2>11. QED BY <1>0, <2>8, <2>9, <2>10 DEF IInv
<1>3. ASSUME NEW l \in Loops, NEW t \in Loops, NEW x \in Tasks, InPlace(l, t, x) PROVE IInv'
  <2>1. /\ x \notin submitted /\ submitted' = submitted \cup {x} /\ queue' = queue
        /\ ran' = [ran EXCEPT ![x] = Append(@, [loop |-> l, by |-> t])]
    BY <1>3 DEF InPlace
  <2>2. ran[x] = <<>> /\ \A m \in Loops : ~Queued(m, x)
    BY <2>1 DEF IInv, OnlySubmitted
  <2>3. ran'[x] = <<[loop |-> l, by |-> t]>> /\ \A y \in Tasks \ {x} : ran'[y] = ran[y]
    BY <2>1, <2>2, <1>0 DEF TypeOK
  <2>4. OnlySubmitted' /\ NoDuplicates' /\ AtMostOnce'
    BY <2>1, <2>2, <2>3 DEF IInv, OnlySubmitted, NoDuplicates, AtMostOnce, Queued
  <2>5. QED BY <1>0, <2>4 DEF IInv
<1>4. CASE UNCHANGED vars
  BY <1>4 DEF IInv, TypeOK, OnlySubmitted, NoDuplicates, AtMostOnce, Queued, vars
<1>5. QED BY <1>1, <1>2, <1>3, <1>4 DEF Next

(* No task is executed twice, or is still queued when it has run: what     *)
(* EventLoop::queueInLoop and runInLoop promise about their callback.      *)
THEOREM TaskQueueAtMostOnce == Spec => []AtMostOnce
<1>1. IInv => AtMostOnce
  BY DEF IInv
<1>2. QED BY <1>1, InitIInv, NextIInv, PTL DEF Spec
-----------------------------------------------------------------------------
(***************************************************************************)
(* What becomes of a submitted task.                                       *)
(***************************************************************************)

(* Loop l has the task still to run, or it has run it, once, in its own    *)
(* thread.                                                                 *)
Kept(l, x) ==
    \/ Queued(l, x) /\ ran[x] = <<>>
    \/ ran[x] = <<[loop |-> l, by |-> l]>>

(* A task is kept from the moment it is submitted.                         *)
LEMMA SubmitKeeps ==
    ASSUME IInv, NEW l \in Loops, NEW x \in Tasks, Submit(l, x)
    PROVE  Kept(l, x)'
<1>1. ran' = ran /\ ran[x] = <<>> /\ queue[l] \in Seq(Tasks)
  BY DEF Submit, IInv, TypeOK, OnlySubmitted
<1>2. queue'[l] = Append(queue[l], x)
  BY DEF Submit, IInv, TypeOK
<1>3. Len(queue[l]) + 1 \in DOMAIN queue'[l] /\ queue'[l][Len(queue[l]) + 1] = x
  BY <1>1, <1>2, AppendEntries
<1>4. QED BY <1>1, <1>3 DEF Kept, Queued

(* No operation on whatever task of whatever loop takes it away.           *)
LEMMA NextKeeps ==
    ASSUME IInv, [Next]_vars, NEW l \in Loops, NEW x \in Tasks, Kept(l, x)
    PROVE  Kept(l, x)'
<1>0. TypeOK /\ x \in submitted
  <2>1. x \notin submitted => ran[x] = <<>> /\ ~Queued(l, x)
    BY DEF IInv, OnlySubmitted
  <2>2. ran[x] = <<>> \/ ran[x] # <<>>
    OBVIOUS
  <2>3. <<[loop |-> l, by |-> l]>> # <<>>
    OBVIOUS
  <2>4. QED BY <2>1, <2>3 DEF Kept, IInv
<1>1. ASSUME NEW m \in Loops, NEW y \in Tasks, Submit(m, y) PROVE Kept(l, x)'
  <2>1. ran' = ran
    BY <1>1 DEF Submit
  <2>2. ASSUME Queued(l, x) PROVE Queued(l, x)'
    <3>1. queue'[l] = queue[l] \/ queue'[l] = Append(queue[l], y)
      BY <1>0, <1>1 DEF Submit, TypeOK
    <3>2. PICK i \in DOMAIN queue[l] : queue[l][i] = x
      BY <2>2 DEF Queued
    <3>3. queue[l] \in Seq(Tasks)
      BY <1>0 DEF TypeOK
    <3>4. i \in DOMAIN Append(queue[l], y) /\ Append(queue[l], y)[i] = x
      BY <3>2, <3>3, AppendEntries
    <3>5. i \in DOMAIN queue'[l] /\ queue'[l][i] = x
      BY <3>1, <3>2, <3>4
    <3>6. QED BY <3>5 DEF Queued
  <2>3. QED BY <2>1, <2>2 DEF Kept
<1>2. ASSUME NEW m \in Loops, Execute(m) PROVE Kept(l, x)'
  <2>1. /\ queue[m] \in Seq(Tasks) /\ queue[m] # <<>>
        /\ queue' = [queue EXCEPT ![m] = Tail(queue[m])]
    BY <1>0, <1>2 DEF Execute, TypeOK
  <2>2. 1 \in DOMAIN queue[m] /\ Head(queue[m]) = queue[m][1]
    BY <2>1, TailEntries
  <2>3. Head(queue[m]) \in Tasks
    BY <2>1, HeadTailProperties
  <2>4. CASE Head(queue[m]) = x
    <3>1. Queued(m, x)
      BY <2>2, <2>4 DEF Queued
    <3>2. ran[x] = <<>>
      BY <3>1 DEF IInv, AtMostOnce
    <3>3. Queued(l, x)
      <4>1. <<[loop |-> l, by |-> l]>> # <<>>
        OBVIOUS
      <4>2. QED BY <3>2, <4>1 DEF Kept
    <3>4. m = l
      BY <2>2, <2>4, <3>3 DEF IInv, NoDuplicates, Queued
    <3>5. ran'[x] = Append(ran[x], [loop |-> m, by |-> m])
      BY <1>0, <1>2, <2>4 DEF Execute, TypeOK
    <3>6. ran'[x] = <<[loop |-> l, by |-> l]>>
      BY <3>2, <3>4, <3>5
    <3>7. QED BY <3>6 DEF Kept
  <2>5. CASE Head(queue[m]) # x
    <3>1. ran'[x] = ran[x]
      BY <1>0, <1>2, <2>3, <2>5 DEF Execute, TypeOK
    <3>2. ASSUME Queued(l, x) PROVE Queued(l, x)'
      <4>1. CASE l # m
        BY <1>0, <2>1, <3>2, <4>1 DEF Queued, TypeOK
      <4>2. CASE l = m
        <5>1. PICK i \in DOMAIN queue[l] : queue[l][i] = x
          BY <3>2 DEF Queued
        <5>2. i # 1
          BY <2>2, <2>5, <4>2, <5>1
        <5>3. i - 1 \in DOMAIN Tail(queue[l]) /\ Tail(queue[l])[i - 1] = x
          BY <2>1, <4>2, <5>1, <5>2
        <5>4. queue'[l] = Tail(queue[l])
          BY <1>0, <2>1, <4>2 DEF TypeOK
        <5>5. QED BY <5>3, <5>4 DEF Queued
      <4>3. QED BY <4>1, <4>2
    <3>3. QED BY <3>1, <3>2 DEF Kept
  <2>6. QED BY <2>4, <2>5
<1>3. ASSUME NEW m \in Loops, NEW t \in Loops, NEW y \in Tasks, InPlace(m, t, y) PROVE Kept(l, x)'
  BY <1>0, <1>3 DEF InPlace, TypeOK, Kept, Queued
<1>4. CASE UNCHANGED vars
  BY <1>4 DEF vars, Kept, Queued
<1>5. QED BY <1>1, <1>2, <1>3, <1>4 DEF Next

LEMMA TaskQueueIInv == Spec => []IInv
  BY InitIInv, NextIInv, PTL DEF Spec

(* A task submitted to a loop is never lost, and never run by another      *)
(* loop: what EventLoop::queueInLoop promises (EventLoop.cpp:159).         *)
THEOREM TaskQueueKeeps ==
    ASSUME NEW l \in Loops, NEW x \in Tasks
    PROVE  Spec => [][Submit(l, x) \/ Kept(l, x) => Kept(l, x)']_vars
<1>1. IInv /\ [Next]_vars => [Submit(l, x) \/ Kept(l, x) => Kept(l, x)']_vars
  BY SubmitKeeps, NextKeeps
<1>2. QED BY <1>1, TaskQueueIInv, PTL DEF Spec
=============================================================================
