------------------------------ MODULE TaskQueue ------------------------------
(***************************************************************************)
(* What an EventLoop promises to the code that gives it work, without      *)
(* threads, locks, wakeups or polling.                                     *)
(*                                                                         *)
(* Every loop owns a FIFO of tasks.  A task is submitted once, to one      *)
(* loop, and executing it takes it from the head of that loop's FIFO.  A   *)
(* thread that owns a loop may instead run a task of its own in place,     *)
(* without queueing it (runInLoop).  ran[x] is the history of the          *)
(* executions of task x: the loop it was meant for and the loop whose      *)
(* thread executed it.                                                     *)
(***************************************************************************)
EXTENDS Naturals, Sequences

CONSTANTS Loops,    \* the event loops; a loop also names the thread owning it
          Tasks     \* the callbacks handed to queueInLoop and runInLoop

VARIABLES queue,        \* [Loops -> Seq(Tasks)]: accepted, not yet executed
          submitted,    \* the tasks handed to some loop so far
          ran           \* [Tasks -> Seq(Execution)]

vars == <<queue, submitted, ran>>

Execution == [loop : Loops, by : Loops]

TypeOK ==
    /\ queue \in [Loops -> Seq(Tasks)]
    /\ submitted \in SUBSET Tasks
    /\ ran \in [Tasks -> Seq(Execution)]

Init ==
    /\ queue = [l \in Loops |-> <<>>]
    /\ submitted = {}
    /\ ran = [x \in Tasks |-> <<>>]

Submit(l, x) ==
    /\ x \notin submitted
    /\ submitted' = submitted \cup {x}
    /\ queue' = [queue EXCEPT ![l] = Append(@, x)]
    /\ UNCHANGED ran

Execute(l) ==
    /\ queue[l] # <<>>
    /\ queue' = [queue EXCEPT ![l] = Tail(@)]
    /\ ran' = [ran EXCEPT ![Head(queue[l])] = Append(@, [loop |-> l, by |-> l])]
    /\ UNCHANGED submitted

InPlace(l, t, x) ==
    /\ x \notin submitted
    /\ submitted' = submitted \cup {x}
    /\ ran' = [ran EXCEPT ![x] = Append(@, [loop |-> l, by |-> t])]
    /\ UNCHANGED queue

Next ==
    \E l \in Loops :
        \/ Execute(l)
        \/ \E x \in Tasks : Submit(l, x)
        \/ \E t \in Loops, x \in Tasks : InPlace(l, t, x)

Spec == Init /\ [][Next]_vars

-----------------------------------------------------------------------------
Queued(l, x) == \E i \in DOMAIN queue[l] : queue[l][i] = x

(* A task is executed at most once, and never while it is still queued:    *)
(* queueInLoop's caller may free what the task uses once it has run.       *)
AtMostOnce ==
    \A x \in Tasks :
        /\ Len(ran[x]) <= 1
        /\ ran[x] # <<>> => \A l \in Loops : ~Queued(l, x)
=============================================================================
