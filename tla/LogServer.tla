------------------------------ MODULE LogServer ------------------------------
(***************************************************************************)
(* base::LogServer: threads append log lines to a current buffer; a flush  *)
(* thread takes full buffers, or the current one every 2000 ms or when     *)
(* forceFlush asks for it, writes them to the file and recycles them.      *)
(* LOG_ERR is write then forceFlush, LOG_FATAL is write, forceDestroy and  *)
(* std::terminate; the destructor of the singleton is forceDestroy.        *)
(*                                                                         *)
(* A line is its number in the order of the critical sections of write, a  *)
(* buffer is a sequence of lines, and all lines have the same length.      *)
(* mMutex is held by the flush thread while it is at "predicate" or        *)
(* "block"; every other critical section is one action.  mStopThread and   *)
(* mNeedFlushNow are read and written without mMutex.  Which file a buffer *)
(* goes to (rotation, createLogFileStream) is not modelled: `file` is the  *)
(* lines of all files in the order they are written.                       *)
(***************************************************************************)
EXTENDS Integers, Sequences, FiniteSets

CONSTANTS Threads,              \* threads that log
          BufferLines,          \* lines that fit in a LogBuffer
          MAX_PENDING_BUFFERS,
          MaxLines              \* bounds the lines accepted (for TLC)

ASSUME LogServerAssumption ==
    /\ BufferLines \in Nat \ {0}
    /\ MAX_PENDING_BUFFERS \in Nat
    /\ MaxLines \in Nat

VARIABLES
    mpCurrentBuffer,
    mvPendingBuffers,
    mvAvailbleBuffers,
    needFlushBuffers,   \* doFlushAsync's local vector ...
    flushed,            \* ... and how many of its buffers are in the file
    mStopThread,
    mNeedFlushNow,
    flushPc,            \* top, predicate, block, asleep, flush, returned
    notified,           \* mCond was notified while the flush thread waits on it
    file,
    accepted,           \* history: lines that write put in a buffer
    threadPc,           \* run, error or fatal (written, to force), join
    lastForced,         \* history: lines accepted when the thread last forced a flush
    ended               \* std::terminate was called, or main has returned

bufferVars == <<mpCurrentBuffer, mvPendingBuffers, mvAvailbleBuffers>>
flushVars == <<needFlushBuffers, flushed, flushPc, file>>
threadVars == <<threadPc, lastForced, ended>>
vars == <<bufferVars, flushVars, accepted, threadVars, mStopThread, mNeedFlushNow, notified>>

Lines == 1 .. MaxLines
Buffer == Seq(Lines)

TypeOK ==
    /\ mpCurrentBuffer \in Buffer
    /\ Len(mpCurrentBuffer) <= BufferLines     \* memcpy stays inside
    /\ mvPendingBuffers \in Seq(Buffer)
    /\ mvAvailbleBuffers \in Seq(Buffer)
    /\ needFlushBuffers \in Seq(Buffer)
    /\ flushed \in 0 .. Len(needFlushBuffers)
    /\ mStopThread \in BOOLEAN
    /\ mNeedFlushNow \in BOOLEAN
    /\ flushPc \in {"top", "predicate", "block", "asleep", "flush", "returned"}
    /\ notified \in BOOLEAN
    /\ file \in Seq(Lines)
    /\ accepted \in 0 .. MaxLines
    /\ threadPc \in [Threads -> {"run", "error", "fatal", "join"}]
    /\ lastForced \in [Threads -> 0 .. MaxLines]
    /\ ended \in BOOLEAN

Init ==
    /\ mpCurrentBuffer = <<>>
    /\ mvPendingBuffers = <<>>
    /\ mvAvailbleBuffers = <<>>
    /\ needFlushBuffers = <<>>
    /\ flushed = 0
    /\ mStopThread = FALSE
    /\ mNeedFlushNow = FALSE
    /\ flushPc = "top"
    /\ notified = FALSE
    /\ file = <<>>
    /\ accepted = 0
    /\ threadPc = [t \in Threads |-> "run"]
    /\ lastForced = [t \in Threads |-> 0]
    /\ ended = FALSE
-----------------------------------------------------------------------------
(* Mutant: the mutex is given up before the thread is blocked.             *)
MutexFreeUnlessBlocking == flushPc # "predicate"

MutexFree == flushPc \notin {"predicate", "block"}

(* mCond.notify_one: heard only by a thread that is blocked.               *)
NotifyOne == notified' = (notified \/ flushPc = "asleep")

(* Mutant: one line too many.                                              *)
WritableOneMore(buffer) == Len(buffer) <= BufferLines

(* LogBuffer::writable.                                                    *)
writable(buffer) == Len(buffer) < BufferLines

(* The current buffer joins the pending ones, and a recycled buffer, or a  *)
(* new one, takes its place with these lines.                              *)
ReplaceCurrent(pending, lines) ==
    /\ pending = Append(mvPendingBuffers, mpCurrentBuffer)
    /\ IF mvAvailbleBuffers = <<>>
       THEN /\ mpCurrentBuffer' = lines
            /\ UNCHANGED mvAvailbleBuffers
       ELSE LET last == Len(mvAvailbleBuffers)
            IN  /\ mpCurrentBuffer' = mvAvailbleBuffers[last] \o lines
                /\ mvAvailbleBuffers' = SubSeq(mvAvailbleBuffers, 1, last - 1)

(* Mutant: no line is ever discarded.                                      *)
WriteWithoutLimit ==
    /\ MutexFree
    /\ accepted < MaxLines
    /\ accepted' = accepted + 1
    /\ IF writable(mpCurrentBuffer)
       THEN /\ mpCurrentBuffer' = Append(mpCurrentBuffer, accepted')
            /\ UNCHANGED <<mvPendingBuffers, mvAvailbleBuffers, notified>>
       ELSE ReplaceCurrent(mvPendingBuffers', <<accepted'>>) /\ NotifyOne

(* write's critical section: into the current buffer, into its             *)
(* replacement, or nowhere when too many buffers are pending.              *)
write ==
    LET line == accepted + 1
    IN  /\ MutexFree
        /\ \/ /\ writable(mpCurrentBuffer)
              /\ line \in Lines
              /\ mpCurrentBuffer' = Append(mpCurrentBuffer, line)
              /\ accepted' = line
              /\ UNCHANGED <<mvPendingBuffers, mvAvailbleBuffers, notified>>
           \/ /\ ~writable(mpCurrentBuffer)
              /\ Len(mvPendingBuffers) <= MAX_PENDING_BUFFERS
              /\ line \in Lines
              /\ ReplaceCurrent(mvPendingBuffers', <<line>>)
              /\ accepted' = line
              /\ NotifyOne
           \/ /\ ~writable(mpCurrentBuffer)
              /\ Len(mvPendingBuffers) > MAX_PENDING_BUFFERS
              /\ NotifyOne
              /\ UNCHANGED <<bufferVars, accepted>>

(* LOG_INFO and the like; LOG_ERR and LOG_FATAL go on to a second call.    *)
Log(t) ==
    /\ threadPc[t] = "run"
    /\ write
    /\ \E then \in {"run", "error", "fatal"} : threadPc' = [threadPc EXCEPT ![t] = then]
    /\ UNCHANGED <<flushVars, lastForced, ended, mStopThread, mNeedFlushNow>>

(* forceFlush, from LOG_ERR.  It does not take mMutex.                     *)
forceFlush(t) ==
    /\ threadPc[t] = "error"
    /\ mNeedFlushNow' = TRUE
    /\ NotifyOne
    /\ threadPc' = [threadPc EXCEPT ![t] = "run"]
    /\ lastForced' = [lastForced EXCEPT ![t] = accepted]
    /\ UNCHANGED <<bufferVars, flushVars, accepted, ended, mStopThread>>

(* Mutant: the flush thread is not told to stop.                           *)
ForceDestroySilently(t) ==
    /\ threadPc[t] \in {"run", "fatal"}
    /\ threadPc' = [threadPc EXCEPT ![t] = "join"]
    /\ lastForced' = [lastForced EXCEPT ![t] = accepted]
    /\ UNCHANGED <<bufferVars, flushVars, accepted, ended, mStopThread, mNeedFlushNow, notified>>

(* forceDestroy up to the join, from LOG_FATAL or from the destructor.     *)
forceDestroy(t) ==
    /\ threadPc[t] \in {"run", "fatal"}
    /\ mStopThread' = TRUE
    /\ NotifyOne
    /\ threadPc' = [threadPc EXCEPT ![t] = "join"]
    /\ lastForced' = [lastForced EXCEPT ![t] = accepted]
    /\ UNCHANGED <<bufferVars, flushVars, accepted, ended, mNeedFlushNow>>

(* The join returns when the flush thread has; a thread that joins while   *)
(* another does may get an error, which it ignores.  Then the process ends.*)
Join(t) ==
    /\ threadPc[t] = "join"
    /\ flushPc = "returned" \/ \E other \in Threads \ {t} : threadPc[other] = "join"
    /\ ended' = TRUE
    /\ UNCHANGED <<bufferVars, flushVars, accepted, threadPc, lastForced, mStopThread,
                   mNeedFlushNow, notified>>
-----------------------------------------------------------------------------
(***************************************************************************)
(* doFlushAsync.                                                           *)
(***************************************************************************)

(* The loop's condition, and the lock.                                     *)
Top ==
    /\ flushPc = "top"
    /\ flushPc' = IF mStopThread THEN "returned" ELSE "predicate"
    /\ UNCHANGED <<bufferVars, needFlushBuffers, flushed, file, accepted, threadVars,
                   mStopThread, mNeedFlushNow, notified>>

Predicate == mStopThread \/ mvPendingBuffers # <<>> \/ mNeedFlushNow

(* Concatenation of the buffers.                                           *)
Flat(buffers) ==
    LET f[n \in 0 .. Len(buffers)] == IF n = 0 THEN <<>> ELSE f[n - 1] \o buffers[n]
    IN  f[Len(buffers)]

(* wait_for has returned with the lock: everything is flushed when the     *)
(* thread must stop; otherwise the pending buffers are taken, with the     *)
(* current one after a timeout or a forceFlush.                            *)
TakeBuffers(timeout) ==
    \/ /\ mStopThread
       /\ file' = file \o Flat(mvPendingBuffers) \o mpCurrentBuffer
       /\ mvPendingBuffers' = [i \in DOMAIN mvPendingBuffers |-> <<>>]
       /\ mpCurrentBuffer' = <<>>
       /\ flushPc' = "returned"
       /\ UNCHANGED <<mvAvailbleBuffers, needFlushBuffers, flushed, mNeedFlushNow>>
    \/ /\ ~mStopThread
       /\ \/ /\ timeout \/ mNeedFlushNow
             /\ ReplaceCurrent(needFlushBuffers', <<>>)
             /\ mNeedFlushNow' = FALSE
          \/ /\ ~timeout /\ ~mNeedFlushNow
             /\ needFlushBuffers' = mvPendingBuffers
             /\ UNCHANGED <<mpCurrentBuffer, mvAvailbleBuffers, mNeedFlushNow>>
       /\ mvPendingBuffers' = <<>>
       /\ flushed' = 0
       /\ flushPc' = "flush"
       /\ UNCHANGED file

(* wait_for tests its predicate with the lock held.                        *)
TestPredicate ==
    /\ flushPc = "predicate"
    /\ \/ /\ Predicate
          /\ TakeBuffers(FALSE)
       \/ /\ ~Predicate
          /\ flushPc' = "block"
          /\ UNCHANGED <<bufferVars, needFlushBuffers, flushed, file, mNeedFlushNow>>
    /\ UNCHANGED <<accepted, threadVars, mStopThread, notified>>

(* It releases the lock and sleeps, ...                                    *)
Block ==
    /\ flushPc = "block"
    /\ flushPc' = "asleep"
    /\ notified' = FALSE
    /\ UNCHANGED <<bufferVars, needFlushBuffers, flushed, file, accepted, threadVars,
                   mStopThread, mNeedFlushNow>>

(* ... until a notification, or for no reason, ...                         *)
Wake ==
    /\ flushPc = "asleep"
    /\ flushPc' = "predicate"
    /\ UNCHANGED <<bufferVars, needFlushBuffers, flushed, file, accepted, threadVars,
                   mStopThread, mNeedFlushNow, notified>>

(* Mutant: a timeout does not take the current buffer.                     *)
FlushIntervalLeavesCurrent ==
    /\ flushPc = "asleep"
    /\ TakeBuffers(FALSE)
    /\ UNCHANGED <<accepted, threadVars, mStopThread, notified>>

(* ... or until 2000 ms have passed, when its last test decides.           *)
FlushInterval ==
    /\ flushPc = "asleep"
    /\ TakeBuffers(~Predicate)
    /\ UNCHANGED <<accepted, threadVars, mStopThread, notified>>

(* Mutant: mUsedSize is not reset.                                         *)
FlushBufferKeepsLines ==
    /\ flushPc = "flush"
    /\ flushed < Len(needFlushBuffers)
    /\ flushed' = flushed + 1
    /\ file' = file \o needFlushBuffers[flushed']
    /\ UNCHANGED <<bufferVars, needFlushBuffers, flushPc, accepted, threadVars, mStopThread,
                   mNeedFlushNow, notified>>

(* One buffer is written, and emptied, without the lock.                   *)
FlushBuffer ==
    /\ flushPc = "flush"
    /\ flushed < Len(needFlushBuffers)
    /\ flushed' = flushed + 1
    /\ file' = file \o needFlushBuffers[flushed']
    /\ needFlushBuffers' = [needFlushBuffers EXCEPT ![flushed'] = <<>>]
    /\ UNCHANGED <<bufferVars, flushPc, accepted, threadVars, mStopThread, mNeedFlushNow, notified>>

(* Mutant: mNeedFlushNow is cleared when the flush is done.                *)
ReturnBuffersThenReset ==
    /\ flushPc = "flush"
    /\ flushed = Len(needFlushBuffers)
    /\ mvAvailbleBuffers' = mvAvailbleBuffers \o needFlushBuffers
    /\ needFlushBuffers' = <<>>
    /\ flushed' = 0
    /\ flushPc' = "top"
    /\ mNeedFlushNow' = FALSE
    /\ UNCHANGED <<mpCurrentBuffer, mvPendingBuffers, file, accepted, threadVars, mStopThread,
                   notified>>

(* The buffers are recycled.                                               *)
ReturnBuffers ==
    /\ flushPc = "flush"
    /\ flushed = Len(needFlushBuffers)
    /\ mvAvailbleBuffers' = mvAvailbleBuffers \o needFlushBuffers
    /\ needFlushBuffers' = <<>>
    /\ flushed' = 0
    /\ flushPc' = "top"
    /\ UNCHANGED <<mpCurrentBuffer, mvPendingBuffers, file, accepted, threadVars, mStopThread,
                   mNeedFlushNow, notified>>
-----------------------------------------------------------------------------
FlushThread ==
    \/ Top \/ TestPredicate \/ Block \/ Wake \/ FlushInterval
    \/ FlushBuffer \/ ReturnBuffers

Next ==
    /\ ~ended
    /\ \/ FlushThread
       \/ \E t \in Threads : Log(t) \/ forceFlush(t) \/ forceDestroy(t) \/ Join(t)

Spec == Init /\ [][Next]_vars

(* The flush thread is scheduled, and its wait ends after 2000 ms at the   *)
(* latest, whatever else wakes it; a thread finishes the call it is in.    *)
Fairness ==
    /\ WF_vars(~ended /\ FlushThread)
    /\ SF_vars(~ended /\ FlushInterval)
    /\ \A t \in Threads : WF_vars(~ended /\ (forceFlush(t) \/ Join(t)))

FairSpec == Spec /\ Fairness
-----------------------------------------------------------------------------
(***************************************************************************)
(* Properties.                                                             *)
(***************************************************************************)

(* Every line that write put in a buffer is in the file or in exactly one  *)
(* buffer, and the file, the buffers being flushed, the pending ones and   *)
(* the current one hold them in the order of the calls: through swaps and  *)
(* recycling no line is lost, doubled or overtaken (write, doFlushAsync).  *)
LinesInOrder ==
    file \o Flat(needFlushBuffers) \o Flat(mvPendingBuffers) \o mpCurrentBuffer
        = [n \in 1 .. accepted |-> n]

(* MAX_PENDING_BUFFERS (6) bounds the memory of the log: a new buffer is   *)
(* made only when none is available, so that at most 7 that clients        *)
(* filled, 8 that are being flushed and the current one ever exist.        *)
BuffersBounded ==
    /\ Len(mvPendingBuffers) <= MAX_PENDING_BUFFERS + 1
    /\ 1 + Len(mvPendingBuffers) + Len(mvAvailbleBuffers) + Len(needFlushBuffers)
            <= 2 * MAX_PENDING_BUFFERS + 4

(* "Call by LOG_ERR, force flush current log buffer" (LogServer.h:34): no  *)
(* line is left behind in the current buffer once the request it preceded  *)
(* is taken, although mNeedFlushNow is set without the mutex.              *)
ForceFlushCovers ==
    \A t \in Threads :
        threadPc[t] # "join" /\ ~mNeedFlushNow
            => \A i \in DOMAIN mpCurrentBuffer : mpCurrentBuffer[i] > lastForced[t]

(* The flush thread never sleeps on a pending buffer without having been   *)
(* notified: write holds the mutex that wait_for gives up as it blocks.    *)
NoLostNotify == flushPc = "asleep" /\ mvPendingBuffers # <<>> => notified

(* A line that was put in a buffer reaches the file, unless the log is     *)
(* shut down first: doFlushAsync takes the current buffer on a timeout.    *)
LinesFlushed ==
    \A n \in Lines : accepted >= n ~> (Len(file) >= n \/ mStopThread)

(* forceDestroy's join returns and the process ends (LogServer.cpp:93).    *)
DestroyReturns == (\E t \in Threads : threadPc[t] = "join") ~> ended

(* LogServer.h:30 "force flush all log files and terminate process": when  *)
(* the process ends, all lines accepted when forceDestroy was called are   *)
(* in the file.                                                            *)
FatalFlushesAll ==
    ended => \A t \in Threads : threadPc[t] = "join" => Len(file) >= lastForced[t]
=============================================================================
