# SimpleTcp in TLA+

A verification project for SimpleTcp, a C++ reactor library in the style of
muduo: event loops over epoll, TCP connections, a server and a reconnecting
client, an HTTP server, and an asynchronous log. Paths in this document are
relative to the repository's root.

## 1. Inventory

| component | code | state | operations | correct when |
|---|---|---|---|---|
| EventLoop | `src/net/EventLoop.cpp` | `mIsExit`, `mIsLoopingNow`, `mPendingTasks` under `mMutex`, the active channels | `startLoop`, `quitLoop`, `queueInLoop`, `runInLoop`, `addChannel`, `removeChannel`, timers | every task runs once, in order, promptly, in the loop's thread; `quitLoop` ends the loop; no dangling channel is dispatched |
| Epoller, EventFd | `src/net/Epoller.cpp`, `src/net/EventFd.cpp` | registered channels, the count of the eventfd | `addChannel`, `updateChannel`, `removeChannel`, `poll`, `wakeup`, `handleRead` | kernel and maps agree; a wakeup is never lost |
| Channel | `src/net/Channel.cpp` | interest mask `mEvent`, last events `mRevent` | `handleEvent`, enable and disable | callbacks match the state they run in |
| TcpBuffer | `src/tcp/TcpBuffer.cpp` | a vector and two positions | `readFromSocket`, `appendToBuffer`, `read`, `extract`, `writeToSocket` | a FIFO of bytes with room to read, no access behind the vector |
| TcpConnection | `src/tcp/TcpConnection.cpp` | `mState`, the two buffers, channel and socket | `handleRead`, `handleWrite`, `handleClose`, `handleError`, `send`, `shutdownConnection`, `establishConnect`, `destroyConnection` | its state machine and assertions hold; data are delivered before the close; accepted data get written; it is destroyed once, and not used afterwards |
| TcpServer | `src/tcp/TcpServer.cpp` | `mConnectionSet` | `start`, `createNewConnection`, the close callback, destructor | at most 256 connections; each held while epoll can report it, and released once closed |
| TcpClient | `src/tcp/TcpClient.cpp` | `mState`, `mConnection`, the connecting channel, the retry delay | `connect`, `disconnect`, `transStateInLoop`, `retry` | the state diagram of `TcpClient.h`; always something to wait for; no reconnect after `disconnect` |
| EventLoopPool | `src/net/EventLoopPool.cpp` | sub loops and their states | constructor, `acquireLoop`, destructor | round robin; the destructor returns |
| TimerQueue, Timer | `src/net/TimerQueue.cpp`, `src/net/Timer.cpp` | `mTimerMap`, timerfds | add, remove, expiry | a timer fires once (or periodically), and not after its removal |
| LogServer, LogBuffer | `src/base/LogServer.cpp` | current, pending, available and flushing buffers, two flags | `write`, `forceFlush`, `forceDestroy`, `doFlushAsync` | lines in the file once and in order, bounded memory, nothing lost at a fatal error |
| ThreadPool | `include/base/ThreadPool.h` | task deque, `mExited` | `enqueue`, `exit`, destructor | each task once; exit returns |
| HTTP | `src/http/*.cpp` | none beyond the receive buffer | `onMessage`, `parseHttpRequest`, `setContentByFilePath`, `generateResponse` | each request handled once, whatever the packets' boundaries; encodings the client accepts |
| StringHelper | `include/base/StringHelper.h` | none | `split`, `strip` | the pieces are items of the list |
| Socket | `src/net/Socket.cpp` | the descriptor | `accept`, `createTcpClientSocket`, `getSocketError`, `shutdown` | modelled where they are called |
| Compress, Backtrace, Log macros | `src/base/*.cpp` | none of their own | wrappers of libraries | not modelled |

How they interact. A thread owns at most one EventLoop (a `thread_local`
pointer). The loop polls, calls `Channel::handleEvent` of each ready channel,
then swaps and runs its queue of tasks. A channel calls the handlers of a
TcpConnection, a timer, the listening socket or the wakeup descriptor; these
call user callbacks, which call `send`, `shutdownConnection`, `queueInLoop`,
`runAfter`, `quitLoop`. Other threads reach a loop through `queueInLoop` and its
mutex only. A close is two steps: `handleClose` in the dispatch, and
`destroyConnection` in a task behind it. All of them log through the one
LogServer, whose flush thread is separate.

Hard behaviours: wakeups against the swap of the queue; state read in one
callback and used in the next one of the same event; raw pointers in queued
tasks; "in a loop thread" taken for "in this loop's thread"; unsynchronised
flags; retries against late closes; joins under a lock; buffer arithmetic. The
hazards are listed, each at its line, in `PROJECT.json`.

## 2. Modules

| module | models | used by |
|---|---|---|
| `TaskQueue` | abstract: a FIFO of tasks per loop | `EventLoop`, which implements it |
| `EventLoop` | EventLoop, Epoller's set and poll, EventFd | `MCEventLoop` |
| `TcpBuffer` | the buffer, as receive buffer (`RecvSpec`) and as send buffer (`SendSpec`) | `MCTcpBuffer` |
| `TcpConnection` | one server connection, its channel, socket, peer, users, and its loop | `MCTcpConnection` |
| `LogServer` | LogServer with its flush thread, and the threads that log | `MCLogServer` |
| `ClientDiagram` | abstract: the diagram of `TcpClient.h`, and what user code is told | `TcpClient`, which implements it |
| `TcpClient` | TcpClient with its loop, one-shot timers, socket, connection and peer | `MCTcpClient` |
| `TcpServer` | TcpServer and EventLoopPool: main thread, sub threads with their loops, clients | `MCTcpServer` |
| `StringHelper` | `split`, `strip` | `HttpRequest` |
| `HttpRequest` | `parseHttpRequest`, as an operator on a packet of tokens | `HttpServer` |
| `HttpResponse` | the choice of an encoding, and when a response is valid | `HttpServer` |
| `HttpServer` | `onMessage` on one connection, and a client that sends in fragments | `MCHttpServer` |
| `TaskQueueProof`, `EventLoopProof`, `TcpBufferProof`, `TcpConnectionProof`, `LogServerProof`, `TcpClientProof`, `TcpServerProof`, `HttpServerProof` | the theorems (section 4) | |

Operators that carry the comment "Mutant:" are variants of an action with one
plausible mistake. No specification uses them; they show that a property can
tell the code from a broken one (`PROJECT.json`, "mutants").

### EventLoop

`loopPc` is the place in `startLoop` (check, poll, dispatch) and in
`doPendingTasks` (swap, run). One step is one access to shared state: the push
of `queueInLoop` takes the mutex, `WakeupAndUnlock` writes the eventfd and
releases it; `quitLoop` sets the flag, `QuitWakeup` writes the eventfd. The
order of active channels is free, since every channel but a timer's has the same
priority, and timers are not in this model. The eventfd's count is positive or
zero. `mIsExit` is a plain `bool` read by the loop and written by other threads:
since the loop makes opaque calls in each round, the build re-reads it, and it is
modelled as an atomic variable. A failed assertion ends the process, so the step
that would fail it is not taken.

A callback may throw (`Throw`), and `epoll_wait` may fail (`PollFails`). While
`unwinding[l]`, the loop's thread has an uncaught exception, destructors run and
may make the same calls; the exception is then caught in the callback (`Catch`) or
leaves `startLoop` (`Escape`). No code in `src/` catches it around `startLoop`, so
that loop stays "failed", and the tasks of its local vector are never run.
`removeChannel` tests, as the code does, that the loop is not dispatching *or* that
an exception is uncaught, in the thread of any loop; `Epoller::removeChannel` is the
separate step `EraseChannel`, since another loop may enter its poll in between.
Neither map of Epoller has a lock; what a data race does to a container is left out.

### TcpBuffer

A byte stands for its place in the stream, so that "in order" is arithmetic.
`writablebytes` keeps the width of `size_t` (`Width`), because `appendToBuffer`
can make the subtraction wrap.

### TcpConnection

`loopPc` splits `Channel::handleEvent` at its test of `EPOLLOUT`, for the events
it tests are those of before its read callback. A batch of tasks counts those
that have run (`tasksRun`) and still holds what all its closures captured;
only when all have run are the references dropped. `failure` says how the
process ended: a failed assertion, an exception that leaves `startLoop`, or a
task that used a freed connection. The kernel's socket is external; a reset may
be reported before the socket is readable, and sets an error that the first of
`read` and `getsockopt` clears. Send data are counted in units and a write takes
any part of them.

### LogServer

A line is its number in the order of `write`'s critical sections and a buffer is
a sequence of lines. The critical sections are single steps, except that the
flush thread holds the mutex between the test of `wait_for`'s predicate and the
block, because `forceFlush` and `forceDestroy` set their flags and notify
without it. The rotation of files only chooses a file, and is left out.

### TcpClient

`loopPc` is poll, dispatch or run; the two vectors of tasks are sequences of
task names, and each runs with the state it finds. A retry timer is a count:
`addTimer` queued, then `armed`, then in `expired` if poll reported it, then
`fired` until the task of `removeTimer` has run. `transStateInLoop` is split
into its guards (`Allowed`) and one operator for each state. `retries` counts
the doublings of the delay; `MaxRetries` stands for `TCP_MAX_RETRY_TIMEOUT`.

`getSocketError` returns `SO_ERROR`, which is 0 and never `EINPROGRESS` while a
connect is under way. So the branch at `src/tcp/TcpClient.cpp:147-166` is dead
and not modelled, and a connection is announced (line 169) whatever the socket's
state; `Progress` lets the socket be established or fail at any later time.

`ClientDiagram` is the diagram of `TcpClient.h:15-37`, edge by edge, where
ForceDisconnected is a sink (`DiagramSpec`). It also says that user code hears
"connected" on entering Connected and "disconnected" once before it is left for
Disconnect. The code leaves the sink in two ways, which are actions of their own:
`reconnect`, a call of `connect()`, and `strayRetry`, a retry timer that no one
cancelled; each is tied to its cause, a new call (`calls`) or an attempt that a
call met under way (`stray`). `TcpClient` implements the diagram with these
departures, with `state <- mState`, `calls <- connects`, `stray <- overlapped`; a
client that is left alone once disconnected implements the strict one (section 4).

### TcpServer

`mSubThreads` is empty (a server with `maxThreadNum` 0) or all of `Loops`; both
kinds start in `Init`. Because `isInLoopThread` is true in any loop's thread
(see `EventLoop`), `runInLoop` at `src/tcp/TcpServer.cpp:117` runs its task in
the main thread. The set-up of a connection is therefore not atomic for the
loop that owns it, and is split at each access the other thread can observe:
`epoll_ctl`, the maps, `enableRead`, `mState`, the callback, the insertion.
The thread of a sub loop is split at its mutex, its wait and `startLoop`.

`HandleEvent(c)` is what one poll of `c`'s loop does with `c`; the queue of a
loop holds only tasks that destroy connections, in a set, since they commute.
`failure` names a failed assertion (`fdNotExisted`, `handleRead`,
`handleClose`, `removeChannel`), an exception that leaves `startLoop`
(`accept`), the division by zero of `acquireLoop` (`noLoop`) or the use of a
destroyed set (`freedSet`). All but `accept` need sub threads; that is what
`SingleLoopOrderly` says. Two threads that change the maps of one epoller, or
read and change `mConnectionSet`, at the same time are a data race: the model
has each access see the other's before or after, and says nothing of a
corrupted container.

### HTTP

A packet is a sequence of tokens (a line, a CRLF, a byte of a body), and
`parseHttpRequest` finds CRLF and blank line in it as the code does. A fragment
may end inside a line or a CRLF. While the parser still looks for complete lines
it refuses such a packet, as it would without the part, and parses all of it again
with the next fragment (`Receive`). Once the blank line is there, the part counts
as bytes of the body: `ReceiveTorn` takes it, as one byte, and leaves the rest, which
is no line any more, as another. The key of a token says what it is, so a header's is never
a method, `CRLF` or `byte` (`HttpAssumption`). `split` and `strip` are functions on sequences of symbols;
list items are single symbols. A response is what user code can set of it:
version, status, keep-alive, and the extension of the file.

## 3. Runs

| run | checks | bounds, and why they are enough |
|---|---|---|
| `event_loop` | refinement of `TaskQueue`, no lost wakeup, quit wakes poll, no removed channel dispatched, tasks run, quit stops | one loop, two users, two tasks, two channels: a handler, or the unwinding of its exception, may touch the channel dispatched next, and one task may be in the local vector, or running, while the other is being pushed |
| `event_loop_two_loops` | violation of `RunsInSpecificLoop` | two loops, two tasks |
| `tcp_buffer_recv` | room, order of unread bytes, of returned bytes, disjoint moves | vector of 3, stream of 12: two doublings, with every position of a move |
| `tcp_buffer_send` | violation of `PositionsInOrder` | vector of 4, stream of 10 |
| `tcp_connection` | assertions, write interest, delivery before close, state machine, completion of the close | two messages, sends and shutdowns each: one in flight while another is handled; all interleavings of peer, callbacks and another thread |
| `tcp_connection_close` | violation of `NoWriteAfterClose` | one of each |
| `tcp_connection_send` | violation of `SendIsThreadSafe` | one of each |
| `log_server` | order and conservation of lines, bounded buffers, forced flush, notification, flushing, shutdown | two threads, six lines, buffers of one line, `MAX_PENDING_BUFFERS` 1: lines are discarded and buffers recycled, and the bound on buffers is reached |
| `log_server_fatal` | violation of `FatalFlushesAll` | one thread, two lines |
| `tcp_client` | refinement of `ClientDiagram` (the diagram and its two departures), something to wait for, causes of each failure, disconnect is final, failed connects noticed | three calls of connect, two of disconnect, two doublings: two attempts overlap, and a disconnect falls before, between and after them |
| `tcp_server` | limit, ownership, single-loop order, where assertions fail with sub threads, release | two sub loops, three clients, limit 1: one connection is open, one closing and one refused, and the loops are used in turn |
| `http_server` | well-formed requests handled once, encodings accepted | up to two requests of eight kinds in every fragmentation; every `Accept-Encoding` of up to five symbols |

Deadlock is not checked where the process ends, or the last client or fragment
is done (`TcpConnection`, `LogServer`, `TcpClient`, `TcpServer`, `HttpServer`),
and behaviours stop there. Assertions are fatal in both build types:
`CMakeLists.txt` defines `DEBUG_BUILD` as 1 or 0, and `Log.h:102` only asks
whether it is defined.

Fairness. The loop's thread and a thread inside a call are scheduled (weak
fairness); `epoll_wait` returns at the latest after its timeout, which is a step
of the loop. A callback terminates whatever it throws and catches on the way, so an
exception that comes again and again is caught, and the callback returns or is left,
in the end (strong fairness of `Catch`, and of `CallbackReturns` or `Escape`; weak
fairness is not enough, for a callback may throw and catch in turn). Nobody has to
throw, make a call, send a message or close. The flush
thread is scheduled, and its 2000 ms deadline is absolute, so that spurious
wakeups cannot postpone it for ever: hence strong fairness of `FlushInterval`.
A client's armed timer expires although the loop polls many times before
(strong fairness of the poll that reports it). In a server each thread is
scheduled, and level-triggered epoll reports each ready channel (weak fairness
of each `HandleEvent(c)`). Peers, user code, accept and the destructor owe
nothing.

### What the passing runs say of failures

A client that connects once and never disconnects ends only by giving up, or by
the error of a connect announced too early. After `disconnect` it can fail in
`handleRead` or `destroyConnection` (the close is refused at
`src/tcp/TcpClient.cpp:93`), in a task that holds a freed connection, or on a
null `mConnection` (232) if a connect overlapped. `disconnect` does not cancel
a retry timer, so "final" is stated for calls that met no attempt under way.

A server with sub threads can fail in ways that one without cannot (above),
may tell user code of a message or a close before "connected", and keeps an
entry in its set for ever when a connection is erased before its insertion.
`FailsOnlyInSetUp` bounds this: an assertion fails in one of three steps of the
set-up of a connection whose loop already polls it, or during the destruction,
and a connection that is set up fails none. The destructor does not return: it
joins under the mutex the threads need (`src/net/EventLoopPool.cpp:59`). No
document promises that it does, so no run asks for it; the theorem `NeverJoins`
states it. `OpenBounded` holds nevertheless, since only the main thread inserts.

Not every request gets an answer: a request without headers is refused; one cut
inside its headers is answered with a 400 and handled later; a refused packet
stays in the buffer and spoils what follows; a GET takes pipelined requests as
its body; a POST without `Content-Type`, or with more bytes than its length,
waits for ever; without a handler the answer has no version, and the
`ResponseError` leaves `startLoop`. `WellFormedHandled` says what remains.
A client that lists `br` first gets deflate.

### Disagreements of code and documents

- `runInLoop` runs the callback in the caller's thread when that thread owns
  another loop (`src/net/EventLoop.cpp:167`), against `EventLoop.h:73`.
- `appendToBuffer` sizes the vector by the new data alone
  (`src/tcp/TcpBuffer.cpp:92`), against the diagram of `TcpBuffer.h:14`.
- `handleWrite` runs after `handleClose` in one event
  (`src/tcp/TcpConnection.cpp:111`), against the comment at line 127.
- A queued send outlives its connection (`src/tcp/TcpConnection.cpp:165`),
  against "Thread-safety" in `TcpConnection.h:81`.
- `forceDestroy` can end the flush thread without a flush
  (`src/base/LogServer.cpp:232`), against `LogServer.h:30`.

These five are runs. Two more are stated in the models:

- A client leaves ForceDisconnected again, by `connect()` or by a retry timer that
  `disconnect()` did not cancel (`src/tcp/TcpClient.cpp:100-110,241`); in the
  diagram of `TcpClient.h:15-37` no edge leads out of it. These are the two
  departures of `ClientDiagram`.
- `removeChannel` asserts that the loop is not dispatching
  (`src/net/EventLoop.cpp:103`, "Don't remove channel in loop"). The assertion
  passes while an exception unwinds, as the FIXME at line 100 says; the test at line
  131 then keeps the channel from being dispatched. `DispatchIsSafe` allows for that.
  It also passes in another loop's thread, which may test the flag just before the
  loop polls and erase the channel after it. With two loops `DispatchIsSafe` fails so;
  it is checked for one loop, and proved where each loop's thread removes its own.

## 4. Proofs

All theorems hold for every value of the constants, from the named assumptions of
the modules (`ThreadsAssumption`, `SizeAssumption`, `ModulusAssumption`, which says
that 2^Width is a positive number, `BoundsAssumption`,
`LogServerAssumption`, `ClientAssumption`, `ServerAssumption`, `HttpAssumption`).
Every safety property that a run checks to hold is proved (`QuitWakesPoll` for a
single loop, `DispatchIsSafe` for one or where each thread removes its own loop's
channels), and so are both refinements.

- `TaskQueueProof`: a task is run at most once. Invariant: a task that is queued
  was submitted, has not run, and is in one place of one queue. Also that a task
  is kept (`TaskQueueKeeps`): from its submission it is in the queue of its loop
  until that loop runs it.
- `EventLoopProof`: `TypeOK`; `NoLostWakeup`, which is inductive beside `TypeOK`;
  `DispatchIsSafe`, for any number of loops if each loop's channels are removed in its
  own thread (`OwnRemovals`), and without that condition for a single loop, from an
  invariant that ties `mIsLoopingNow`, the active channels and the current callback to
  `loopPc`, and a second one that a thread between the two assertions of a removal is
  still in its callback and, if the loop dispatches, still unwinding; `QuitWakesPoll`, for a
  single loop, because with two it fails (`quitLoop` from another loop's thread
  does not wake); and the refinement of `TaskQueue`: a push is a Submit, a task
  run is an Execute, a swap is a stutter since the concatenation of the two
  vectors does not change. At most once then follows from the abstract theorem,
  and so does what `runInLoop` promises a thread that has to wait, for any number
  of loops: its task is still queued at its loop or has run there, once
  (`EventLoopAwaitedTaskKept`), and it has when the call returns
  (`EventLoopRunInLoopReturns`). That it does return is not promised: a loop that
  stops leaves the caller waiting.
- `TcpBufferProof`: for the receive buffer, from one invariant (positions in
  order with room, no more space in front of the unread bytes than they take,
  unread bytes in order, returned bytes in order). For the send buffer a run
  shows `PositionsInOrder` violated; `SendInOrder` and `SendMoveDisjoint` say
  when it holds, with the order of the bytes: when each append fits
  (`AppendFits`), that is, there is room for it, or it is at least as long as
  `mWritePos`, so that the resize to twice its length cuts nothing off. Nothing is
  assumed of what happens between appends. `SendWhenDrained` is what a user can do
  about it: append only when all was written, as the write-complete callback tells
  it; a drained buffer has its positions at 0, so every append fits.
- `TcpConnectionProof`: `TypeOK`, `AssertionsHold`, `NoLostWriteInterest`,
  `AllDataDelivered` and `StateMachine`, for any number of messages, sends and
  shutdowns. The assertions that could fail ask that a connection is closed, and
  destroyed, once. The invariant says where its destruction can be queued: by the
  close, never before it, and run before the next poll. It also counts the sends
  in both vectors of tasks against those that were called, and says what poll
  reported and what user code has been told. `HeardInOrder` orders what it is
  told: "connected" once, then messages, then "closed" once, with sends accepted
  in between only. Its invariant (`Heard`) ties what was told to `mState`, and a
  queued destruction to "closed".
- `LogServerProof`: `TypeOK`, `LinesInOrder`, `BuffersBounded`,
  `ForceFlushCovers` and `NoLostNotify`. The bounds and the notification are not
  inductive alone. The bound on the buffers needs that a new one is made only
  when none is recycled, that recycled ones are empty (or the reused buffer would
  overflow), and that the local vector of `doFlushAsync` holds buffers only during
  a flush; the notification needs that the thread blocks on an empty vector. The
  order of the lines needs lemmas on `Flat`, the concatenation of a vector of
  buffers: that this recursive function exists, and what it returns with one
  more buffer at the end or one less at the front (below).
- `TcpClientProof`: `TypeOK`, `NeverStuck`, `DisconnectIsFinal`, `FailureCauses`,
  and the refinement of `ClientDiagram` with its two departures, for any number of
  calls and retries; and of the strict diagram (`DiagramWhenLeftAlone`), for a client
  that is not told to connect while it is disconnected by force and whose calls never
  met an attempt under way.
  Invariant: what user code was last told follows from the connection's state;
  whatever state the client is in, a timer is armed, or one of the two vectors of tasks holds the task that
  carries on; after a `disconnect` that met no attempt there is neither. It needs
  lemmas on what a concatenation, a tail and a vector of dangling references hold.
  The causes of a failure take a second invariant (`Causes`): without two
  attempts that overlap, the tasks and timers that carry an attempt on are at
  most one, so it counts the tasks of each kind in both vectors and says which
  come before which, and who holds the connection in every state.
- `TcpServerProof`: `TypeOK`, `HeldWhileOpen`, `OpenBounded`,
  `FailsOnlyInSetUp` and `SingleLoopOrderly`, for any number of loops and
  clients and any limit; and that the destructor returns only without sub threads
  (`NeverJoins`). Until the destructor has
  cleared the set, an open connection is in the set or being set up; if it is no
  longer Connected, its task is queued; hence what the destructor leaves is held
  by a task. The connection being set up counts from the test of the limit, and
  only its insertion enlarges the set; after the set is gone nothing is opened.
  No thread of the pool is past its loop before the destructor has `mMutex`. For
  a server without sub threads a second invariant (`Detail`) says at each place
  of the main thread which connections are registered, open, queued and told.
  `FailsOnlyInSetUp` needs, with sub threads, what the set-up has reached
  (`InStages`): only the connection being set up is known to epoll in part, and
  then the main thread is at the step that completes it.
- `HttpServerProof`: `TypeOK`, `EncodingAccepted` and `WellFormedHandled`, for
  any requests, lists and fragments. The encoding rests on what `strip` (the part
  between the first and the last symbol that is no blank) and `split` return. For
  the requests, `FlattenSeq` gives each request a place in the stream; the
  invariant says that some number k of requests is handled, and that the buffer
  is what was received of request k + 1. Such a prefix is refused while its
  headers are not complete, is partial while its body is not, and is accepted as
  soon as it is whole. A fragment that ends within a line is refused as long as no
  second request has arrived, so `ReceiveTorn` is never taken before.

Recursive definitions. The induction theorems of the library take an operator
as a parameter and cannot be used; but the well-foundedness of `<` on the
natural numbers gives each set of them a least element (`WFMin`), and with it
induction for a predicate written as a set. So what the recursive functions
`Flat`, `FlattenSeq`, `strip` and `split` return is proved from their
definitions; that a function with such an equation exists is proved as well.

Only model-checked: the liveness properties (`PendingTasksRun`,
`QuitStopsLoop`, `CloseCompletes`, `LinesFlushed`, `DestroyReturns`,
`FailedConnectRetried`, `CloseReleases`), which are out of the prover's reach,
and the violations, which are behaviours that TLC exhibits.

## 5. Not modelled, and what is left

Not modelled: ThreadPool and Jthread (a header that only tests and an example
use); repeating timers, absolute times and timer ids (no other library code uses
them; two timers made in one tick of the clock share an id,
`src/net/TimerQueue.cpp:60`); the Range header and Content-Range, reading of
files, compression; Backtrace, the Log macros and the rest of Socket, which
only pass calls on; the vendored `lib/` and `include/base/Expected.h`, which no
modelled code relies on.

Seen on the way, and outside the models: a connect that fails at once leaks its
descriptor (`src/net/Socket.cpp:97`); `retry` ignores that no timer could be
made (`src/tcp/TcpClient.cpp:241`); a request line without a path makes the
length of the url wrap around (`src/http/HttpRequest.cpp:60`); the header key
"Connections" (line 124) is not the one HTTP has; the comments at
`src/tcp/TcpServer.cpp:115` and `152` describe another thread than the one the
code runs in.

Every run that is expected to pass has its safety properties, action properties
and refinements proved, and two of the violations a theorem that says what
remains true (`SendInOrder` and `SendWhenDrained`, `EventLoopRunInLoopReturns`).
Open: what a client of several overlapping attempts, and a server with sub
threads, still promise to user code, where `FailureCauses` and `SingleLoopOrderly`
say little and `FailsOnlyInSetUp` only where it goes wrong.
