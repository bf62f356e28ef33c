--------------------------- MODULE LogServerProof ---------------------------
(***************************************************************************)
(* The buffers of LogServer, for any number of threads and any sizes: they *)
(* are bounded, a forced flush leaves no line behind, the flush thread     *)
(* does not sleep on a pending buffer, and the file and the buffers hold   *)
(* the lines in order.  The last needs what the recursive Flat computes,   *)
(* which is proved by induction over sets of numbers.                      *)
(***************************************************************************)
EXTENDS LogServer, SequenceTheorems, WellFoundedInduction, TLAPS

(* The types that the bounds and the flags need; FileTypes has the others. *)
BufferTypes ==
    /\ mpCurrentBuffer \in Buffer
    /\ Len(mpCurrentBuffer) <= BufferLines
    /\ mvPendingBuffers \in Seq(Buffer)
    /\ mvAvailbleBuffers \in Seq(Buffer)
    /\ needFlushBuffers \in Seq(Buffer)
    /\ flushed \in Nat
    /\ accepted \in 0 .. MaxLines
    /\ lastForced \in [Threads -> 0 .. accepted]
    /\ threadPc \in [Threads -> {"run", "error", "fatal", "join"}]

(* Recycled buffers, and those already written, are empty.                 *)
Recycled ==
    /\ \A i \in 1 .. Len(mvAvailbleBuffers) : mvAvailbleBuffers[i] = <<>>
    /\ \A i \in 1 .. Len(needFlushBuffers) : i <= flushed => needFlushBuffers[i] = <<>>

(* The local vector has buffers only while they are flushed, and never     *)
(* more than the pending ones and the current one were.                    *)
FlushBounded ==
    /\ flushPc # "flush" => needFlushBuffers = <<>>
    /\ Len(needFlushBuffers) <= MAX_PENDING_BUFFERS + 2

(* The flush thread blocks only when it saw no pending buffer, and write   *)
(* cannot add one until it has given the mutex up.                         *)
BlocksOnNothing == flushPc = "block" => mvPendingBuffers = <<>>

IInv ==
    /\ BufferTypes
    /\ Recycled
    /\ FlushBounded
    /\ BuffersBounded
    /\ ForceFlushCovers
    /\ BlocksOnNothing
    /\ NoLostNotify

(* The server starts with one empty buffer.                                *)
LEMMA InitIInv == Init => IInv
<1> SUFFICES ASSUME Init PROVE IInv
  OBVIOUS
<1>1. BufferTypes
  BY LogServerAssumption, EmptySeq DEF Init, BufferTypes, Buffer
<1>2. QED
  BY <1>1, LogServerAssumption, EmptySeq
  DEF Init, IInv, Recycled, FlushBounded, BuffersBounded, ForceFlushCovers, BlocksOnNothing,
      NoLostNotify

(* A vector without its last element.                                      *)
LEMMA FrontProperties ==
    ASSUME NEW S, NEW s \in Seq(S), NEW n \in Nat, n <= Len(s)
    PROVE  /\ SubSeq(s, 1, n) \in Seq(S)
           /\ Len(SubSeq(s, 1, n)) = n
           /\ \A i \in 1 .. n : SubSeq(s, 1, n)[i] = s[i]
<1>1. \A i \in 1 .. n : s[i] \in S
  BY LenProperties
<1>2. Len(SubSeq(s, 1, n)) = IF 1 <= n THEN n - 1 + 1 ELSE 0
  BY <1>1, SubSeqProperties
<1>3. SubSeq(s, 1, n) \in Seq(S)
  BY <1>1, SubSeqProperties
<1>4. \A i \in 1 .. n : SubSeq(s, 1, n)[i] = s[1 + i - 1]
  BY <1>1, SubSeqProperties
<1>5. QED BY <1>1, <1>2, <1>3, <1>4

(* What replacing the current buffer leaves behind.                        *)
LEMMA ReplaceCurrentEffect ==
    ASSUME BufferTypes, Recycled, NEW lines \in Buffer, NEW pending, ReplaceCurrent(pending, lines)
    PROVE  /\ pending \in Seq(Buffer)
           /\ Len(pending) = Len(mvPendingBuffers) + 1
           /\ mpCurrentBuffer' = lines
           /\ mvAvailbleBuffers' \in Seq(Buffer)
           /\ \A i \in 1 .. Len(mvAvailbleBuffers') : mvAvailbleBuffers'[i] = <<>>
           /\ Len(mvAvailbleBuffers') = IF mvAvailbleBuffers = <<>>
                                        THEN 0 ELSE Len(mvAvailbleBuffers) - 1
<1>1. pending = Append(mvPendingBuffers, mpCurrentBuffer)
  BY DEF ReplaceCurrent
<1>2. pending \in Seq(Buffer) /\ Len(pending) = Len(mvPendingBuffers) + 1
  BY <1>1, AppendProperties DEF BufferTypes
<1>3. CASE mvAvailbleBuffers = <<>>
  BY <1>2, <1>3, EmptySeq DEF ReplaceCurrent, BufferTypes
<1>4. CASE mvAvailbleBuffers # <<>>
  <2> DEFINE last == Len(mvAvailbleBuffers)
  <2>1. last \in Nat /\ last >= 1
    BY <1>4, EmptySeq, LenProperties DEF BufferTypes
  <2>2. /\ mpCurrentBuffer' = mvAvailbleBuffers[last] \o lines
        /\ mvAvailbleBuffers' = SubSeq(mvAvailbleBuffers, 1, last - 1)
    BY <1>4 DEF ReplaceCurrent
  <2>3. mvAvailbleBuffers[last] = <<>>
    BY <2>1 DEF Recycled
  <2>4. mpCurrentBuffer' = lines
    BY <2>2, <2>3, ConcatEmptySeq DEF Buffer
  <2>5. /\ SubSeq(mvAvailbleBuffers, 1, last - 1) \in Seq(Buffer)
        /\ Len(SubSeq(mvAvailbleBuffers, 1, last - 1)) = last - 1
        /\ \A i \in 1 .. last - 1 :
              SubSeq(mvAvailbleBuffers, 1, last - 1)[i] = mvAvailbleBuffers[i]
    <3>1. last - 1 \in Nat /\ last - 1 <= Len(mvAvailbleBuffers)
      BY <2>1
    <3>2. mvAvailbleBuffers \in Seq(Buffer)
      BY DEF BufferTypes
    <3>3. QED BY <3>1, <3>2, FrontProperties, Zenon
  <2>6. \A i \in 1 .. last - 1 : mvAvailbleBuffers[i] = <<>>
    BY <2>1 DEF Recycled
  <2>7. QED BY <1>2, <1>4, <2>2, <2>4, <2>5, <2>6
<1>5. QED BY <1>3, <1>4
-----------------------------------------------------------------------------
(* write keeps the invariant.                                              *)
LEMMA LogIInv ==
    ASSUME IInv, NEW t \in Threads, Log(t)
    PROVE  IInv'
<1> DEFINE line == accepted + 1
<1>1. /\ UNCHANGED <<needFlushBuffers, flushed, flushPc, lastForced, mNeedFlushNow>>
      /\ threadPc[t] = "run" /\ write /\ MutexFree
      /\ \E then \in {"run", "error", "fatal"} : threadPc' = [threadPc EXCEPT ![t] = then]
  BY DEF Log, write, flushVars
<1>2. BufferTypes /\ Recycled /\ FlushBounded /\ BuffersBounded /\ ForceFlushCovers
  BY DEF IInv
<1>3. /\ \A s \in Threads : threadPc'[s] # "join" => threadPc[s] # "join"
      /\ threadPc' \in [Threads -> {"run", "error", "fatal", "join"}]
  BY <1>1, <1>2 DEF BufferTypes
<1>4. lastForced \in [Threads -> 0 .. accepted] /\ accepted \in Nat
      /\ \A s \in Threads : lastForced[s] \in Nat /\ line > lastForced[s]
  BY <1>2, LogServerAssumption DEF BufferTypes
<1>5. CASE /\ writable(mpCurrentBuffer)
           /\ line \in Lines
           /\ mpCurrentBuffer' = Append(mpCurrentBuffer, line)
           /\ accepted' = line
           /\ UNCHANGED <<mvPendingBuffers, mvAvailbleBuffers, notified>>
  <2>1. /\ mpCurrentBuffer' \in Buffer /\ Len(mpCurrentBuffer') = Len(mpCurrentBuffer) + 1
        /\ \A i \in 1 .. Len(mpCurrentBuffer) : mpCurrentBuffer'[i] = mpCurrentBuffer[i]
        /\ mpCurrentBuffer'[Len(mpCurrentBuffer) + 1] = line
        /\ Len(mpCurrentBuffer) \in Nat
    BY <1>2, <1>5, AppendProperties, LenProperties DEF BufferTypes, Buffer
  <2>2. Len(mpCurrentBuffer') <= BufferLines
    BY <1>5, <2>1, LogServerAssumption DEF writable
  <2>3. BufferTypes'
    BY <1>1, <1>2, <1>3, <1>4, <1>5, <2>1, <2>2, LogServerAssumption DEF BufferTypes, Lines
  <2>4. ForceFlushCovers'
    <3>1. SUFFICES ASSUME NEW s \in Threads, threadPc'[s] # "join", ~mNeedFlushNow',
                          NEW i \in DOMAIN mpCurrentBuffer'
                   PROVE  mpCurrentBuffer'[i] > lastForced[s]
      BY <1>1 DEF ForceFlushCovers
    <3>2. i \in 1 .. Len(mpCurrentBuffer) + 1
      BY <2>1, LenProperties DEF Buffer
    <3>3. CASE i \in 1 .. Len(mpCurrentBuffer)
      <4>1. i \in DOMAIN mpCurrentBuffer
        BY <1>2, <3>3, LenProperties DEF BufferTypes, Buffer
      <4>2. QED BY <1>1, <1>2, <1>3, <2>1, <3>1, <3>3, <4>1 DEF ForceFlushCovers
    <3>4. CASE i = Len(mpCurrentBuffer) + 1
      BY <1>4, <2>1, <3>4
    <3>5. QED BY <2>1, <3>2, <3>3, <3>4
  <2>5. QED
    BY <1>1, <1>5, <2>3, <2>4
    DEF IInv, Recycled, FlushBounded, BuffersBounded, BlocksOnNothing, NoLostNotify
<1>6. CASE /\ Len(mvPendingBuffers) <= MAX_PENDING_BUFFERS
           /\ line \in Lines
           /\ ReplaceCurrent(mvPendingBuffers', <<line>>)
           /\ accepted' = line
           /\ NotifyOne
  <2>1. <<line>> \in Buffer /\ Len(<<line>>) = 1 /\ <<line>>[1] = line
    BY <1>6 DEF Buffer
  <2>2. /\ mvPendingBuffers' \in Seq(Buffer)
        /\ Len(mvPendingBuffers') = Len(mvPendingBuffers) + 1
        /\ mpCurrentBuffer' = <<line>>
        /\ mvAvailbleBuffers' \in Seq(Buffer)
        /\ \A i \in 1 .. Len(mvAvailbleBuffers') : mvAvailbleBuffers'[i] = <<>>
        /\ Len(mvAvailbleBuffers') = IF mvAvailbleBuffers = <<>>
                                     THEN 0 ELSE Len(mvAvailbleBuffers) - 1
    BY <1>2, <1>6, <2>1, ReplaceCurrentEffect
  <2>3. BufferTypes'
    BY <1>1, <1>2, <1>3, <1>4, <1>6, <2>1, <2>2, LogServerAssumption DEF BufferTypes, Lines
  <2>4. ForceFlushCovers'
    BY <1>1, <1>4, <2>1, <2>2 DEF ForceFlushCovers
  <2>5. BuffersBounded'
    <3>1. /\ Len(mvPendingBuffers) \in Nat /\ Len(needFlushBuffers) \in Nat
          /\ Len(mvAvailbleBuffers) \in Nat
          /\ mvAvailbleBuffers # <<>> => Len(mvAvailbleBuffers) > 0
      BY <1>2, LenProperties, EmptySeq DEF BufferTypes
    <3>2. Len(<<>>) = 0
      BY EmptySeq
    <3>3. /\ Len(needFlushBuffers) <= MAX_PENDING_BUFFERS + 2 /\ MAX_PENDING_BUFFERS \in Nat
          /\ 1 + Len(mvPendingBuffers) + Len(mvAvailbleBuffers) + Len(needFlushBuffers)
                <= 2 * MAX_PENDING_BUFFERS + 4
      BY <1>2, LogServerAssumption DEF BuffersBounded, FlushBounded
    <3>4. Len(mvPendingBuffers') <= MAX_PENDING_BUFFERS + 1
      BY <1>6, <2>2, <3>1, <3>3
    <3>5. 1 + Len(mvPendingBuffers') + Len(mvAvailbleBuffers') + Len(needFlushBuffers)
             <= 2 * MAX_PENDING_BUFFERS + 4
      <4>1. CASE mvAvailbleBuffers = <<>>
        <5>1. Len(mvAvailbleBuffers') = 0
          BY <2>2, <4>1
        <5>2. Len(mvPendingBuffers') \in Nat
          BY <2>2, <3>1
        <5>3. QED BY <3>1, <3>3, <3>4, <5>1, <5>2
      <4>2. CASE mvAvailbleBuffers # <<>>
        <5>1. /\ Len(mvAvailbleBuffers') = Len(mvAvailbleBuffers) - 1
              /\ Len(mvPendingBuffers') = Len(mvPendingBuffers) + 1
          BY <2>2, <4>2
        <5>2. QED BY <3>1, <3>3, <5>1
      <4>3. QED BY <4>1, <4>2
    <3>6. QED BY <1>1, <3>4, <3>5 DEF BuffersBounded
  <2>6. Recycled' /\ FlushBounded' /\ BlocksOnNothing'
    BY <1>1, <1>2, <2>2 DEF Recycled, FlushBounded, BlocksOnNothing, MutexFree
  <2>7. NoLostNotify'
    BY <1>1, <1>6 DEF NoLostNotify, NotifyOne
  <2>8. QED BY <2>3, <2>4, <2>5, <2>6, <2>7 DEF IInv
<1>7. CASE NotifyOne /\ UNCHANGED <<bufferVars, accepted>>
  <2>1. ForceFlushCovers'
    BY <1>1, <1>2, <1>3, <1>7 DEF ForceFlushCovers, bufferVars
  <2>2. NoLostNotify'
    BY <1>1, <1>7 DEF NoLostNotify, NotifyOne
  <2>3. BufferTypes' /\ Recycled' /\ FlushBounded' /\ BuffersBounded' /\ BlocksOnNothing'
    BY <1>1, <1>2, <1>3, <1>7
    DEF IInv, BufferTypes, Recycled, FlushBounded, BuffersBounded, BlocksOnNothing, bufferVars
  <2>4. QED BY <2>1, <2>2, <2>3 DEF IInv
<1>8. QED BY <1>1, <1>5, <1>6, <1>7 DEF write

(* Steps that leave the buffers alone, except that they take or set a flag, *)
(* keep all but what the flags are about.                                  *)
LEMMA CallIInv ==
    ASSUME IInv, NEW t \in Threads, forceFlush(t) \/ forceDestroy(t) \/ Join(t)
    PROVE  IInv'
<1>1. BufferTypes /\ Recycled /\ FlushBounded /\ BuffersBounded /\ ForceFlushCovers
      /\ BlocksOnNothing /\ NoLostNotify
  BY DEF IInv
<1>2. UNCHANGED <<bufferVars, flushVars, accepted>>
  BY DEF forceFlush, forceDestroy, Join
<1>3. BufferTypes'
  <2>1. lastForced' = lastForced \/ lastForced' = [lastForced EXCEPT ![t] = accepted]
    BY DEF forceFlush, forceDestroy, Join
  <2>2. lastForced \in [Threads -> 0 .. accepted] /\ accepted \in 0 .. accepted
    BY <1>1, LogServerAssumption DEF BufferTypes
  <2>3. lastForced' \in [Threads -> 0 .. accepted']
    BY <1>2, <2>1, <2>2
  <2>4. threadPc' \in [Threads -> {"run", "error", "fatal", "join"}]
    BY <1>1 DEF BufferTypes, forceFlush, forceDestroy, Join
  <2>5. QED BY <1>1, <1>2, <2>3, <2>4 DEF BufferTypes, bufferVars, flushVars
<1>4. Recycled' /\ FlushBounded' /\ BuffersBounded' /\ BlocksOnNothing'
  BY <1>1, <1>2
  DEF Recycled, FlushBounded, BuffersBounded, BlocksOnNothing, bufferVars, flushVars
<1>5. NoLostNotify'
  BY <1>1, <1>2
  DEF NoLostNotify, NotifyOne, forceFlush, forceDestroy, Join, bufferVars, flushVars
<1>6. ForceFlushCovers'
  <2>1. CASE forceFlush(t)
    BY <2>1 DEF forceFlush, ForceFlushCovers
  <2>2. CASE forceDestroy(t)
    <3>1. /\ threadPc'[t] = "join"
          /\ \A s \in Threads \ {t} : threadPc'[s] = threadPc[s] /\ lastForced'[s] = lastForced[s]
          /\ mNeedFlushNow' = mNeedFlushNow /\ mpCurrentBuffer' = mpCurrentBuffer
      BY <1>1, <1>2, <2>2 DEF forceDestroy, bufferVars, BufferTypes
    <3>2. QED BY <1>1, <3>1 DEF ForceFlushCovers
  <2>3. CASE Join(t)
    BY <1>1, <1>2, <2>3 DEF Join, ForceFlushCovers, bufferVars
  <2>4. QED BY <2>1, <2>2, <2>3
<1>7. QED BY <1>3, <1>4, <1>5, <1>6 DEF IInv

(* Taking the buffers, from either way out of wait_for.                    *)
LEMMA TakeBuffersIInv ==
    ASSUME IInv, flushPc \in {"predicate", "asleep"}, NEW timeout \in BOOLEAN,
           TakeBuffers(timeout), UNCHANGED <<accepted, threadVars, mStopThread, notified>>
    PROVE  IInv'
<1>1. BufferTypes /\ Recycled /\ FlushBounded /\ BuffersBounded /\ ForceFlushCovers
  BY DEF IInv
<1>2. UNCHANGED <<accepted, threadPc, lastForced>>
  BY DEF threadVars
<1>3. needFlushBuffers = <<>> /\ Len(needFlushBuffers) = 0 /\ <<>> \in Buffer
      /\ <<>> \in Seq(Buffer) /\ MAX_PENDING_BUFFERS \in Nat /\ BufferLines \in Nat
  BY <1>1, EmptySeq, LogServerAssumption DEF FlushBounded, Buffer
<1>4. /\ Len(mvPendingBuffers) \in Nat /\ Len(mvAvailbleBuffers) \in Nat
      /\ mvAvailbleBuffers # <<>> => Len(mvAvailbleBuffers) > 0
      /\ Len(mvPendingBuffers) <= MAX_PENDING_BUFFERS + 1
      /\ 1 + Len(mvPendingBuffers) + Len(mvAvailbleBuffers) <= 2 * MAX_PENDING_BUFFERS + 4
  BY <1>1, <1>3, LenProperties, EmptySeq DEF BufferTypes, BuffersBounded
<1>5. CASE /\ mStopThread
           /\ mvPendingBuffers' = [i \in DOMAIN mvPendingBuffers |-> <<>>]
           /\ mpCurrentBuffer' = <<>>
           /\ flushPc' = "returned"
           /\ UNCHANGED <<mvAvailbleBuffers, needFlushBuffers, flushed, mNeedFlushNow>>
  <2>1. mvPendingBuffers' \in Seq(Buffer) /\ Len(mvPendingBuffers') = Len(mvPendingBuffers)
    <3>1. DOMAIN mvPendingBuffers = 1 .. Len(mvPendingBuffers)
      BY <1>1, LenProperties DEF BufferTypes
    <3>2. mvPendingBuffers' = [i \in 1 .. Len(mvPendingBuffers) |-> <<>>]
      BY <1>5, <3>1
    <3>3. QED BY <1>3, <1>4, <3>2
  <2>2. BufferTypes'
    BY <1>1, <1>2, <1>3, <1>5, <2>1, EmptySeq DEF BufferTypes
  <2>3. Recycled' /\ FlushBounded' /\ BuffersBounded' /\ BlocksOnNothing' /\ NoLostNotify'
    BY <1>1, <1>3, <1>5, <2>1
    DEF Recycled, FlushBounded, BuffersBounded, BlocksOnNothing, NoLostNotify
  <2>4. ForceFlushCovers'
    BY <1>5 DEF ForceFlushCovers
  <2>5. QED BY <2>2, <2>3, <2>4 DEF IInv
<1>6. CASE /\ ReplaceCurrent(needFlushBuffers', <<>>)
           /\ mvPendingBuffers' = <<>>
           /\ flushed' = 0
           /\ flushPc' = "flush"
  <2>1. /\ needFlushBuffers' \in Seq(Buffer)
        /\ Len(needFlushBuffers') = Len(mvPendingBuffers) + 1
        /\ mpCurrentBuffer' = <<>>
        /\ mvAvailbleBuffers' \in Seq(Buffer)
        /\ \A i \in 1 .. Len(mvAvailbleBuffers') : mvAvailbleBuffers'[i] = <<>>
        /\ Len(mvAvailbleBuffers') = IF mvAvailbleBuffers = <<>>
                                     THEN 0 ELSE Len(mvAvailbleBuffers) - 1
    BY <1>1, <1>3, <1>6, ReplaceCurrentEffect
  <2>2. Len(mvPendingBuffers') = 0
    BY <1>6, EmptySeq
  <2>3. BufferTypes'
    BY <1>1, <1>2, <1>3, <1>6, <2>1, EmptySeq DEF BufferTypes
  <2>4. BuffersBounded'
    <3>1. Len(mvPendingBuffers') <= MAX_PENDING_BUFFERS + 1
      BY <1>3, <2>2
    <3>2. Len(needFlushBuffers') = Len(mvPendingBuffers) + 1
      BY <2>1
    <3>3. 1 + Len(mvPendingBuffers') + Len(mvAvailbleBuffers') + Len(needFlushBuffers')
             <= 2 * MAX_PENDING_BUFFERS + 4
      <4>1. CASE mvAvailbleBuffers = <<>>
        <5>1. Len(mvAvailbleBuffers') = 0
          BY <2>1, <4>1
        <5>2. QED BY <1>3, <1>4, <2>2, <3>2, <5>1
      <4>2. CASE mvAvailbleBuffers # <<>>
        <5>1. Len(mvAvailbleBuffers') = Len(mvAvailbleBuffers) - 1
          BY <2>1, <4>2
        <5>2. QED BY <1>3, <1>4, <2>2, <3>2, <5>1
      <4>3. QED BY <4>1, <4>2
    <3>4. QED BY <3>1, <3>3 DEF BuffersBounded
  <2>5. Recycled' /\ FlushBounded' /\ BlocksOnNothing' /\ NoLostNotify'
    BY <1>3, <1>4, <1>6, <2>1 DEF Recycled, FlushBounded, BlocksOnNothing, NoLostNotify
  <2>6. ForceFlushCovers'
    BY <2>1 DEF ForceFlushCovers
  <2>7. QED BY <2>3, <2>4, <2>5, <2>6 DEF IInv
<1>7. CASE /\ needFlushBuffers' = mvPendingBuffers
           /\ UNCHANGED <<mpCurrentBuffer, mvAvailbleBuffers, mNeedFlushNow>>
           /\ mvPendingBuffers' = <<>>
           /\ flushed' = 0
           /\ flushPc' = "flush"
  <2>1. Len(mvPendingBuffers') = 0
    BY <1>7, EmptySeq
  <2>2. BufferTypes'
    BY <1>1, <1>2, <1>3, <1>7 DEF BufferTypes
  <2>3. BuffersBounded'
    BY <1>3, <1>4, <1>7, <2>1 DEF BuffersBounded
  <2>4. Recycled' /\ FlushBounded' /\ BlocksOnNothing' /\ NoLostNotify'
    BY <1>1, <1>3, <1>4, <1>7 DEF Recycled, FlushBounded, BlocksOnNothing, NoLostNotify
  <2>5. ForceFlushCovers'
    BY <1>1, <1>2, <1>7 DEF ForceFlushCovers
  <2>6. QED BY <2>2, <2>3, <2>4, <2>5 DEF IInv
<1>8. QED BY <1>5, <1>6, <1>7 DEF TakeBuffers

(* The flush thread keeps the invariant.                                   *)
LEMMA FlushThreadIInv ==
    ASSUME IInv, FlushThread
    PROVE  IInv'
<1>1. BufferTypes /\ Recycled /\ FlushBounded /\ BuffersBounded /\ ForceFlushCovers
      /\ BlocksOnNothing /\ NoLostNotify
  BY DEF IInv
<1>2. CASE Top \/ Wake \/ Block
  <2>1. /\ UNCHANGED <<mpCurrentBuffer, mvPendingBuffers, mvAvailbleBuffers, needFlushBuffers,
                       flushed, accepted, threadPc, lastForced, mNeedFlushNow>>
        /\ flushPc # "flush" /\ flushPc' \notin {"block", "flush"}
    BY <1>2 DEF Top, Wake, Block, bufferVars, threadVars
  <2>2. BufferTypes' /\ Recycled' /\ FlushBounded' /\ BuffersBounded' /\ ForceFlushCovers'
        /\ BlocksOnNothing'
    BY <1>1, <2>1
    DEF BufferTypes, Recycled, FlushBounded, BuffersBounded, ForceFlushCovers, BlocksOnNothing
  <2>3. NoLostNotify'
    <3>1. CASE Block
      BY <1>1, <2>1, <3>1 DEF Block, BlocksOnNothing, NoLostNotify
    <3>2. CASE Top \/ Wake
      BY <3>2 DEF Top, Wake, NoLostNotify
    <3>3. QED BY <1>2, <3>1, <3>2
  <2>4. QED BY <2>2, <2>3 DEF IInv
<1>3. CASE TestPredicate
  <2>1. CASE TakeBuffers(FALSE)
    BY <1>3, <2>1, TakeBuffersIInv DEF TestPredicate
  <2>2. CASE /\ ~Predicate
             /\ flushPc' = "block"
             /\ UNCHANGED <<bufferVars, needFlushBuffers, flushed, file, mNeedFlushNow>>
    <3>1. mvPendingBuffers = <<>> /\ flushPc # "flush"
      BY <1>3, <2>2 DEF Predicate, TestPredicate
    <3>2. UNCHANGED <<accepted, threadPc, lastForced>>
      BY <1>3 DEF TestPredicate, threadVars
    <3>3. BufferTypes' /\ Recycled' /\ FlushBounded' /\ BuffersBounded' /\ ForceFlushCovers'
      BY <1>1, <2>2, <3>1, <3>2
      DEF BufferTypes, Recycled, FlushBounded, BuffersBounded, ForceFlushCovers, bufferVars
    <3>4. BlocksOnNothing' /\ NoLostNotify'
      BY <2>2, <3>1 DEF BlocksOnNothing, NoLostNotify, bufferVars
    <3>5. QED BY <3>3, <3>4 DEF IInv
  <2>3. QED BY <1>3, <2>1, <2>2 DEF TestPredicate
<1>4. CASE FlushInterval
  <2>1. (~Predicate) \in BOOLEAN
    OBVIOUS
  <2>2. QED BY <1>4, <2>1, TakeBuffersIInv DEF FlushInterval
<1>5. CASE FlushBuffer
  <2>1. UNCHANGED <<mpCurrentBuffer, mvPendingBuffers, mvAvailbleBuffers, flushPc, accepted,
                    threadPc, lastForced, mNeedFlushNow, notified>>
    BY <1>5 DEF FlushBuffer, bufferVars, threadVars
  <2>2. /\ flushPc = "flush" /\ flushed' = flushed + 1 /\ flushed \in Nat
        /\ flushed < Len(needFlushBuffers) /\ Len(needFlushBuffers) \in Nat
        /\ needFlushBuffers' = [needFlushBuffers EXCEPT ![flushed + 1] = <<>>]
    BY <1>1, <1>5, LenProperties DEF FlushBuffer, BufferTypes
  <2>3. /\ needFlushBuffers' \in Seq(Buffer)
        /\ Len(needFlushBuffers') = Len(needFlushBuffers)
        /\ \A i \in 1 .. Len(needFlushBuffers) :
              needFlushBuffers'[i] = IF i = flushed + 1 THEN <<>> ELSE needFlushBuffers[i]
    <3>1. <<>> \in Buffer
      BY EmptySeq DEF Buffer
    <3>2. QED BY <1>1, <2>2, <3>1, ExceptSeq DEF BufferTypes
  <2>4. BufferTypes' /\ FlushBounded' /\ BuffersBounded'
    BY <1>1, <2>1, <2>2, <2>3 DEF BufferTypes, FlushBounded, BuffersBounded
  <2>5. Recycled'
    BY <1>1, <2>1, <2>2, <2>3 DEF Recycled
  <2>6. ForceFlushCovers' /\ BlocksOnNothing' /\ NoLostNotify'
    BY <1>1, <2>1 DEF ForceFlushCovers, BlocksOnNothing, NoLostNotify
  <2>7. QED BY <2>4, <2>5, <2>6 DEF IInv
<1>6. CASE ReturnBuffers
  <2>1. /\ UNCHANGED <<mpCurrentBuffer, mvPendingBuffers, accepted, threadPc, lastForced,
                       mNeedFlushNow, notified>>
        /\ flushPc' = "top" /\ flushed = Len(needFlushBuffers) /\ flushed' = 0
        /\ needFlushBuffers' = <<>>
        /\ mvAvailbleBuffers' = mvAvailbleBuffers \o needFlushBuffers
    BY <1>6 DEF ReturnBuffers, threadVars
  <2>2. /\ mvAvailbleBuffers' \in Seq(Buffer)
        /\ Len(mvAvailbleBuffers') = Len(mvAvailbleBuffers) + Len(needFlushBuffers)
        /\ \A i \in 1 .. Len(mvAvailbleBuffers) + Len(needFlushBuffers) :
              mvAvailbleBuffers'[i] = IF i <= Len(mvAvailbleBuffers) THEN mvAvailbleBuffers[i]
                                      ELSE needFlushBuffers[i - Len(mvAvailbleBuffers)]
    BY <1>1, <2>1, ConcatProperties DEF BufferTypes
  <2>3. /\ Len(mvAvailbleBuffers) \in Nat /\ Len(needFlushBuffers) \in Nat
        /\ Len(mvPendingBuffers) \in Nat /\ Len(needFlushBuffers') = 0
        /\ needFlushBuffers' \in Seq(Buffer)
    BY <1>1, <2>1, LenProperties, EmptySeq DEF BufferTypes
  <2>4. Recycled'
    BY <1>1, <2>1, <2>2, <2>3 DEF Recycled
  <2>5. BufferTypes' /\ FlushBounded'
    BY <1>1, <2>1, <2>2, <2>3, LogServerAssumption DEF BufferTypes, FlushBounded
  <2>6. BuffersBounded'
    BY <1>1, <2>1, <2>2, <2>3, LogServerAssumption DEF BuffersBounded
  <2>7. ForceFlushCovers' /\ BlocksOnNothing' /\ NoLostNotify'
    BY <1>1, <2>1 DEF ForceFlushCovers, BlocksOnNothing, NoLostNotify
  <2>8. QED BY <2>4, <2>5, <2>6, <2>7 DEF IInv
<1>7. QED BY <1>2, <1>3, <1>4, <1>5, <1>6 DEF FlushThread

(* Every step keeps the invariant.                                         *)
LEMMA NextIInv == IInv /\ [Next]_vars => IInv'
<1> SUFFICES ASSUME IInv, [Next]_vars PROVE IInv'
  OBVIOUS
<1>1. CASE UNCHANGED vars
  BY <1>1
  DEF IInv, BufferTypes, Recycled, FlushBounded, BuffersBounded, ForceFlushCovers,
      BlocksOnNothing, NoLostNotify, vars, bufferVars, flushVars, threadVars
<1>2. QED BY <1>1, LogIInv, CallIInv, FlushThreadIInv DEF Next

(* The invariant of the log server.                                        *)
LEMMA LogServerIInv == Spec => []IInv
  BY InitIInv, NextIInv, PTL DEF Spec

(* The buffers of the log never exceed 2 * MAX_PENDING_BUFFERS + 4,        *)
(* however write, forceFlush and doFlushAsync interleave.                  *)
THEOREM LogServerBuffersBounded == Spec => []BuffersBounded
<1>1. IInv => BuffersBounded
  BY DEF IInv
<1>2. QED BY <1>1, LogServerIInv, PTL

(* No line stays in the current buffer after the forceFlush that followed  *)
(* it was answered.                                                        *)
THEOREM LogServerForceFlushCovers == Spec => []ForceFlushCovers
<1>1. IInv => ForceFlushCovers
  BY DEF IInv
<1>2. QED BY <1>1, LogServerIInv, PTL

(* The flush thread does not sleep on a pending buffer: no notification of *)
(* write is lost.                                                          *)
THEOREM LogServerNoLostNotify == Spec => []NoLostNotify
<1>1. IInv => NoLostNotify
  BY DEF IInv
<1>2. QED BY <1>1, LogServerIInv, PTL
-----------------------------------------------------------------------------
(***************************************************************************)
(* The lines of a vector of buffers: what Flat computes, for vectors of    *)
(* any length.                                                             *)
(***************************************************************************)

(* Induction over a set of numbers, from the library's minimal elements.   *)
LEMMA NatSetInduction ==
    ASSUME NEW S, 0 \in S, \A n \in S : n + 1 \in S
    PROVE  Nat \subseteq S
<1> DEFINE R == OpToRel(<, Nat)
           T == Nat \ S
<1>1. SUFFICES ASSUME T # {} PROVE FALSE
  OBVIOUS
<1>2. T \subseteq Nat
  OBVIOUS
<1>3. IsWellFoundedOn(R, Nat)
  BY NatLessThanWellFounded
<1> HIDE DEF R
<1>4. PICK x \in T : \A y \in T : ~(<<y, x>> \in R)
  BY <1>1, <1>2, <1>3, WFMin
<1>5. x # 0 /\ x - 1 \in Nat /\ x \in Nat
  OBVIOUS
<1>6. <<x - 1, x>> \in R
  BY <1>5 DEF R, OpToRel
<1>7. x - 1 \in S
  BY <1>4, <1>5, <1>6
<1>8. x - 1 + 1 \in S
  BY <1>7
<1>9. QED BY <1>5, <1>8

(* Induction from m to n.                                                  *)
LEMMA IntervalInduction ==
    ASSUME NEW m \in Nat, NEW n \in Nat, NEW S, m \in S,
           \A k \in m .. n : k \in S /\ k < n => k + 1 \in S
    PROVE  \A k \in m .. n : k \in S
<1> DEFINE T == {j \in Nat : m + j \in S \/ m + j > n}
<1>1. 0 \in T
  OBVIOUS
<1>2. \A j \in T : j + 1 \in T
  <2>1. SUFFICES ASSUME NEW j \in Nat, m + j \in S \/ m + j > n, ~(m + (j + 1) > n)
                 PROVE  m + (j + 1) \in S
    OBVIOUS
  <2>2. m + j \in m .. n /\ m + j < n /\ m + j \in S
    BY <2>1
  <2>3. m + j + 1 \in S
    BY <2>2
  <2>4. m + j + 1 = m + (j + 1)
    OBVIOUS
  <2>5. QED BY <2>3, <2>4
<1> HIDE DEF T
<1>3. Nat \subseteq T
  BY <1>1, <1>2, NatSetInduction
<1>4. ASSUME NEW k \in m .. n PROVE k \in S
  <2>1. k - m \in T /\ m + (k - m) = k
    BY <1>3
  <2>2. QED BY <2>1 DEF T
<1>5. QED BY <1>4

(* The recursive function of Flat.                                         *)
FlatFcn(buffers) ==
    CHOOSE f : f = [n \in 0 .. Len(buffers) |->
                        IF n = 0 THEN <<>> ELSE f[n - 1] \o buffers[n]]

LEMMA FlatIsFcn == \A buffers : Flat(buffers) = FlatFcn(buffers)[Len(buffers)]
  BY DEF Flat, FlatFcn

(* It exists, and is what its recursion says.                              *)
LEMMA FlatFcnExists ==
    ASSUME NEW buffers, Len(buffers) \in Nat
    PROVE  FlatFcn(buffers) =
              [n \in 0 .. Len(buffers) |->
                    IF n = 0 THEN <<>> ELSE FlatFcn(buffers)[n - 1] \o buffers[n]]
<1> DEFINE Solves(g, k) == g = [n \in 0 .. k |-> IF n = 0 THEN <<>> ELSE g[n - 1] \o buffers[n]]
           S == {k \in Nat : \E g : Solves(g, k)}
<1>1. 0 \in S
  <2>1. Solves([n \in 0 .. 0 |-> <<>>], 0)
    OBVIOUS
  <2>2. QED BY <2>1
<1>2. ASSUME NEW k \in Nat, NEW g, Solves(g, k) PROVE \E h : Solves(h, k + 1)
  <2> DEFINE h == [n \in 0 .. k + 1 |-> IF n = k + 1 THEN g[k] \o buffers[k + 1] ELSE g[n]]
  <2>1. \A n \in 0 .. k : g[n] = IF n = 0 THEN <<>> ELSE g[n - 1] \o buffers[n]
    BY <1>2
  <2>2. \A n \in 0 .. k : h[n] = g[n]
    OBVIOUS
  <2>3. h[k + 1] = h[k] \o buffers[k + 1]
    OBVIOUS
  <2>4. h = [n \in 0 .. k + 1 |-> h[n]]
    OBVIOUS
  <2> HIDE DEF h
  <2>5. \A n \in 0 .. k + 1 : h[n] = IF n = 0 THEN <<>> ELSE h[n - 1] \o buffers[n]
    <3>1. SUFFICES ASSUME NEW n \in 0 .. k + 1
                   PROVE  h[n] = IF n = 0 THEN <<>> ELSE h[n - 1] \o buffers[n]
      OBVIOUS
    <3>2. CASE n = k + 1
      <4>1. n # 0 /\ n - 1 = k
        BY <3>2
      <4>2. QED BY <2>3, <3>2, <4>1
    <3>3. CASE n = 0
      BY <2>1, <2>2, <3>3
    <3>4. CASE n \in 1 .. k
      <4>1. n \in 0 .. k /\ n - 1 \in 0 .. k /\ n # 0
        BY <3>4
      <4>2. g[n] = g[n - 1] \o buffers[n]
        BY <2>1, <4>1
      <4>3. QED BY <2>2, <4>1, <4>2
    <3>5. QED BY <3>2, <3>3, <3>4
  <2>6. Solves(h, k + 1)
    BY <2>4, <2>5
  <2>7. QED BY <2>6
<1>3. \A k \in S : k + 1 \in S
  <2>1. SUFFICES ASSUME NEW k \in S PROVE k + 1 \in S
    OBVIOUS
  <2>2. k \in Nat /\ \E g : Solves(g, k)
    BY Zenon
  <2>3. k + 1 \in Nat
    BY <2>2
  <2>4. \E h : Solves(h, k + 1)
    <3> HIDE DEF Solves
    <3>1. QED BY <1>2, <2>2, Zenon
  <2>5. QED BY <2>3, <2>4, Zenon
<1>4. \E g : Solves(g, Len(buffers))
  <2> HIDE DEF S
  <2>1. Nat \subseteq S
    BY <1>1, <1>3, NatSetInduction
  <2>2. QED BY <2>1 DEF S
<1>5. QED BY <1>4 DEF FlatFcn

(* The concatenation of the first n buffers, and of none.                  *)
LEMMA FlatStep ==
    ASSUME NEW buffers \in Seq(Buffer)
    PROVE  /\ FlatFcn(buffers)[0] = <<>>
           /\ \A n \in 0 .. Len(buffers) - 1 :
                 FlatFcn(buffers)[n + 1] = FlatFcn(buffers)[n] \o buffers[n + 1]
<1>1. Len(buffers) \in Nat
  BY LenProperties
<1> DEFINE f == FlatFcn(buffers)
<1>2. f = [n \in 0 .. Len(buffers) |-> IF n = 0 THEN <<>> ELSE f[n - 1] \o buffers[n]]
  BY <1>1, FlatFcnExists
<1> HIDE DEF f
<1>3. \A n \in 0 .. Len(buffers) : f[n] = IF n = 0 THEN <<>> ELSE f[n - 1] \o buffers[n]
  BY <1>2
<1>4. f[0] = <<>>
  <2>1. 0 \in 0 .. Len(buffers)
    BY <1>1
  <2>2. QED BY <1>3, <2>1
<1>5. ASSUME NEW n \in 0 .. Len(buffers) - 1 PROVE f[n + 1] = f[n] \o buffers[n + 1]
  <2>1. ASSUME NEW m, m = n + 1 PROVE f[m] = f[n] \o buffers[m]
    <3>1. m \in 0 .. Len(buffers) /\ m # 0 /\ m - 1 = n
      BY <1>1, <2>1
    <3>2. f[m] = f[m - 1] \o buffers[m]
      BY <1>3, <3>1
    <3>3. QED BY <3>1, <3>2
  <2>2. QED BY <2>1
<1>6. QED BY <1>4, <1>5 DEF f

LEMMA FlatIsLines ==
    ASSUME NEW buffers \in Seq(Buffer)
    PROVE  /\ \A n \in 0 .. Len(buffers) : FlatFcn(buffers)[n] \in Buffer
           /\ Flat(buffers) \in Buffer
<1> DEFINE f == FlatFcn(buffers)
           S == {n \in 0 .. Len(buffers) : f[n] \in Buffer}
<1>1. Len(buffers) \in Nat
  BY LenProperties
<1>2. f[0] = <<>> /\ \A n \in 0 .. Len(buffers) - 1 : f[n + 1] = f[n] \o buffers[n + 1]
  BY FlatStep
<1> HIDE DEF f
<1>3. 0 \in S
  <2>1. <<>> \in Buffer
    BY EmptySeq DEF Buffer
  <2>2. QED BY <1>1, <1>2, <2>1
<1>4. ASSUME NEW k \in 0 .. Len(buffers), k \in S, k < Len(buffers) PROVE k + 1 \in S
  <2>1. k + 1 \in 1 .. Len(buffers) /\ k \in 0 .. Len(buffers) - 1 /\ f[k] \in Buffer
    BY <1>1, <1>4
  <2>2. buffers[k + 1] \in Buffer
    BY <2>1, ElementOfSeq
  <2>3. f[k + 1] = f[k] \o buffers[k + 1]
    BY <1>2, <2>1
  <2>4. f[k + 1] \in Buffer
    BY <2>1, <2>2, <2>3, ConcatProperties DEF Buffer
  <2>5. QED BY <2>1, <2>4
<1>5. \A k \in 0 .. Len(buffers) : k \in S
  <2> HIDE DEF S
  <2>1. QED BY <1>1, <1>3, <1>4, IntervalInduction
<1>6. QED BY <1>1, <1>5, FlatIsFcn DEF f

(* A vector that starts with another starts with its lines.                *)
LEMMA FlatOfPrefix ==
    ASSUME NEW s \in Seq(Buffer), NEW t \in Seq(Buffer), NEW n \in 0 .. Len(s), n <= Len(t),
           \A i \in 1 .. n : s[i] = t[i]
    PROVE  FlatFcn(s)[n] = FlatFcn(t)[n]
<1> DEFINE f == FlatFcn(s)
           g == FlatFcn(t)
           S == {k \in 0 .. n : f[k] = g[k]}
<1>1. Len(s) \in Nat /\ Len(t) \in Nat /\ n \in Nat
  BY LenProperties
<1>2. /\ f[0] = <<>> /\ \A k \in 0 .. Len(s) - 1 : f[k + 1] = f[k] \o s[k + 1]
      /\ g[0] = <<>> /\ \A k \in 0 .. Len(t) - 1 : g[k + 1] = g[k] \o t[k + 1]
  BY FlatStep
<1> HIDE DEF f, g
<1>3. 0 \in S
  BY <1>1, <1>2
<1>4. ASSUME NEW k \in 0 .. n, k \in S, k < n PROVE k + 1 \in S
  <2>1. /\ k \in 0 .. Len(s) - 1 /\ k \in 0 .. Len(t) - 1 /\ k + 1 \in 1 .. n
        /\ k + 1 \in 0 .. n /\ f[k] = g[k]
    BY <1>1, <1>4
  <2>2. f[k + 1] = f[k] \o s[k + 1] /\ g[k + 1] = g[k] \o t[k + 1] /\ s[k + 1] = t[k + 1]
    BY <1>2, <2>1
  <2>3. QED BY <2>1, <2>2
<1>5. \A k \in 0 .. n : k \in S
  <2> HIDE DEF S
  <2>1. QED BY <1>1, <1>3, <1>4, IntervalInduction
<1>6. QED BY <1>1, <1>5 DEF f, g

(* One more buffer.                                                        *)
LEMMA FlatAppend ==
    ASSUME NEW s \in Seq(Buffer), NEW b \in Buffer
    PROVE  Flat(Append(s, b)) = Flat(s) \o b
<1> DEFINE t == Append(s, b)
<1>1. /\ t \in Seq(Buffer) /\ Len(t) = Len(s) + 1 /\ Len(s) \in Nat
      /\ \A i \in 1 .. Len(s) : t[i] = s[i]
      /\ t[Len(s) + 1] = b
  BY AppendProperties, LenProperties
<1> HIDE DEF t
<1>2. FlatFcn(t)[Len(s)] = FlatFcn(s)[Len(s)]
  BY <1>1, FlatOfPrefix
<1>3. FlatFcn(t)[Len(s) + 1] = FlatFcn(t)[Len(s)] \o t[Len(s) + 1]
  <2>1. Len(s) \in 0 .. Len(t) - 1
    BY <1>1
  <2>2. QED BY <1>1, <2>1, FlatStep
<1>4. QED BY <1>1, <1>2, <1>3, FlatIsFcn DEF t

(* Buffers without lines.                                                  *)
LEMMA FlatOfEmpty ==
    ASSUME NEW s \in Seq(Buffer), NEW n \in 0 .. Len(s), \A i \in 1 .. n : s[i] = <<>>
    PROVE  FlatFcn(s)[n] = <<>>
<1> DEFINE f == FlatFcn(s)
           S == {k \in 0 .. n : f[k] = <<>>}
<1>1. Len(s) \in Nat /\ n \in Nat
  BY LenProperties
<1>2. f[0] = <<>> /\ \A k \in 0 .. Len(s) - 1 : f[k + 1] = f[k] \o s[k + 1]
  BY FlatStep
<1> HIDE DEF f
<1>3. 0 \in S
  BY <1>1, <1>2
<1>4. ASSUME NEW k \in 0 .. n, k \in S, k < n PROVE k + 1 \in S
  <2>1. k \in 0 .. Len(s) - 1 /\ k + 1 \in 1 .. n /\ k + 1 \in 0 .. n /\ f[k] = <<>>
    BY <1>1, <1>4
  <2>2. f[k + 1] = <<>> \o <<>>
    BY <1>2, <2>1
  <2>3. <<>> \o <<>> = <<>>
    BY EmptySeq, ConcatEmptySeq
  <2>4. QED BY <2>1, <2>2, <2>3
<1>5. \A k \in 0 .. n : k \in S
  <2> HIDE DEF S
  <2>1. QED BY <1>1, <1>3, <1>4, IntervalInduction
<1>6. QED BY <1>1, <1>5 DEF f

(* Concatenation of lines.                                                 *)
LEMMA LinesAssociate ==
    \A a, b, c \in Seq(Lines) : (a \o b) \o c = a \o (b \o c)
  BY ConcatAssociative

LEMMA ConcatLines ==
    /\ \A a, b \in Seq(Lines) : a \o b \in Seq(Lines)
    /\ \A a, b, c \in Seq(Lines) : (a \o b) \o c = a \o (b \o c)
    /\ <<>> \in Seq(Lines)
    /\ \A a \in Seq(Lines) : a \o <<>> = a /\ <<>> \o a = a
<1>1. \A a, b \in Seq(Lines) : a \o b \in Seq(Lines)
  BY ConcatProperties
<1>2. \A a, b, c \in Seq(Lines) : (a \o b) \o c = a \o (b \o c)
  BY LinesAssociate
<1>3. \A a \in Seq(Lines) : a \o <<>> = a /\ <<>> \o a = a
  BY ConcatEmptySeq
<1>4. QED BY <1>1, <1>2, <1>3, EmptySeq

(* The lines of the first buffer that has any come first.                  *)
LEMMA FlatFirst ==
    ASSUME NEW s \in Seq(Buffer), NEW k \in 1 .. Len(s), \A i \in 1 .. k - 1 : s[i] = <<>>
    PROVE  Flat(s) = s[k] \o Flat([s EXCEPT ![k] = <<>>])
<1> DEFINE t == [s EXCEPT ![k] = <<>>]
           f == FlatFcn(s)
           g == FlatFcn(t)
           S == {n \in k .. Len(s) : f[n] = s[k] \o g[n]}
<1>1. /\ t \in Seq(Buffer) /\ Len(t) = Len(s) /\ <<>> \in Buffer
      /\ \A i \in 1 .. Len(s) : t[i] = IF i = k THEN <<>> ELSE s[i]
  <2>1. <<>> \in Buffer
    BY EmptySeq DEF Buffer
  <2>2. QED BY <2>1, ExceptSeq
<1>2. Len(s) \in Nat /\ k \in Nat /\ k - 1 \in 0 .. Len(s)
  BY LenProperties
<1> HIDE DEF t
<1>3. /\ \A n \in 0 .. Len(s) - 1 : f[n + 1] = f[n] \o s[n + 1]
      /\ \A n \in 0 .. Len(s) - 1 : g[n + 1] = g[n] \o t[n + 1]
  BY <1>1, FlatStep
<1>4. f[k - 1] = <<>>
  BY <1>2, FlatOfEmpty
<1>5. g[k] = <<>>
  <2>1. \A i \in 1 .. k : t[i] = <<>>
    BY <1>1, <1>2
  <2>2. QED BY <1>1, <1>2, <2>1, FlatOfEmpty
<1>6. \A n \in 0 .. Len(s) : g[n] \in Buffer
  BY <1>1, FlatIsLines
<1> HIDE DEF f, g
<1>7. s[k] \in Buffer
  BY ElementOfSeq
<1>8. k \in S
  <2>1. f[k] = <<>> \o s[k]
    <3>1. k - 1 \in 0 .. Len(s) - 1 /\ k - 1 + 1 = k
      BY <1>2
    <3>2. f[k - 1 + 1] = f[k - 1] \o s[k - 1 + 1]
      BY <1>3, <3>1
    <3>3. QED BY <1>4, <3>1, <3>2
  <2>2. <<>> \o s[k] = s[k] /\ s[k] \o <<>> = s[k]
    BY <1>7, ConcatEmptySeq DEF Buffer
  <2>3. f[k] = s[k] \o g[k]
    BY <1>5, <2>1, <2>2
  <2>4. k \in k .. Len(s)
    BY <1>2
  <2>5. QED BY <2>3, <2>4
<1>9. ASSUME NEW n \in k .. Len(s), n \in S, n < Len(s) PROVE n + 1 \in S
  <2>1. /\ n + 1 \in 1 .. Len(s) /\ n + 1 \in k .. Len(s) /\ n + 1 # k
        /\ n \in 0 .. Len(s) - 1 /\ n \in 0 .. Len(s)
    BY <1>2, <1>9
  <2>2. f[n + 1] = f[n] \o s[n + 1] /\ g[n + 1] = g[n] \o s[n + 1]
    BY <1>1, <1>3, <2>1
  <2>3. s[n + 1] \in Buffer
    BY <2>1, ElementOfSeq
  <2>4. (s[k] \o g[n]) \o s[n + 1] = s[k] \o (g[n] \o s[n + 1])
    <3>1. s[k] \in Seq(Lines) /\ g[n] \in Seq(Lines) /\ s[n + 1] \in Seq(Lines)
      BY <1>6, <1>7, <2>1, <2>3 DEF Buffer
    <3>2. QED BY <3>1, LinesAssociate, Zenon
  <2>5. f[n] = s[k] \o g[n]
    BY <1>9
  <2>6. QED BY <2>1, <2>2, <2>4, <2>5
<1>10. \A n \in k .. Len(s) : n \in S
  <2> HIDE DEF S
  <2>1. QED BY <1>2, <1>8, <1>9, IntervalInduction
<1>11. f[Len(s)] = s[k] \o g[Len(s)]
  <2>1. Len(s) \in k .. Len(s)
    BY <1>2
  <2>2. QED BY <1>10, <2>1
<1>12. QED BY <1>1, <1>11, FlatIsFcn DEF f, g, t

-----------------------------------------------------------------------------
(***************************************************************************)
(* The file, and the lines on their way to it.                             *)
(***************************************************************************)

(* The types that BufferTypes leaves out.                                  *)
FileTypes ==
    /\ flushed <= Len(needFlushBuffers)
    /\ mStopThread \in BOOLEAN
    /\ mNeedFlushNow \in BOOLEAN
    /\ flushPc \in {"top", "predicate", "block", "asleep", "flush", "returned"}
    /\ notified \in BOOLEAN
    /\ file \in Seq(Lines)
    /\ ended \in BOOLEAN

LEMMA InitFileTypes ==
    ASSUME Init PROVE FileTypes
<1>1. <<>> \in Seq(Lines) /\ Len(<<>>) = 0
  BY EmptySeq
<1>2. flushed = 0 /\ Len(needFlushBuffers) = 0
  BY <1>1 DEF Init
<1>3. file \in Seq(Lines)
  BY <1>1, Zenon DEF Init
<1>4. flushed <= Len(needFlushBuffers)
  BY <1>2
<1>5. QED BY <1>3, <1>4, Zenon DEF Init, FileTypes

LEMMA NextFileTypes ==
    ASSUME IInv, FileTypes, [Next]_vars
    PROVE  FileTypes'
<1>1. BufferTypes /\ FlushBounded
  BY DEF IInv
<1>2. Len(<<>>) = 0 /\ Len(needFlushBuffers) \in Nat
  BY <1>1, EmptySeq, LenProperties DEF BufferTypes
<1>3. CASE \E t \in Threads : Log(t) \/ forceFlush(t) \/ forceDestroy(t) \/ Join(t)
  BY <1>3 DEF FileTypes, Log, write, forceFlush, forceDestroy, Join, NotifyOne, flushVars, threadVars
<1>4. ASSUME NEW timeout \in BOOLEAN, TakeBuffers(timeout)
      PROVE  /\ 0 <= Len(needFlushBuffers') /\ flushed' <= Len(needFlushBuffers')
             /\ file' \in Seq(Lines) /\ mNeedFlushNow' \in BOOLEAN
             /\ flushPc' \in {"flush", "returned"}
  <2>1. CASE /\ file' = file \o Flat(mvPendingBuffers) \o mpCurrentBuffer
             /\ flushPc' = "returned"
             /\ UNCHANGED <<needFlushBuffers, flushed, mNeedFlushNow>>
    <3>1. file \o Flat(mvPendingBuffers) \in Seq(Lines)
      BY <1>1, FlatIsLines, ConcatProperties DEF FileTypes, BufferTypes, Buffer
    <3>2. file' \in Seq(Lines)
      BY <1>1, <2>1, <3>1, ConcatProperties DEF BufferTypes, Buffer
    <3>3. QED BY <1>2, <2>1, <3>2 DEF FileTypes
  <2>2. CASE /\ \/ ReplaceCurrent(needFlushBuffers', <<>>) /\ mNeedFlushNow' = FALSE
                \/ needFlushBuffers' = mvPendingBuffers /\ UNCHANGED mNeedFlushNow
             /\ flushed' = 0 /\ flushPc' = "flush" /\ UNCHANGED file
    <3>1. Len(needFlushBuffers') \in Nat
      <4>1. Append(mvPendingBuffers, mpCurrentBuffer) \in Seq(Buffer)
        BY <1>1, AppendProperties DEF BufferTypes
      <4>2. needFlushBuffers' \in {Append(mvPendingBuffers, mpCurrentBuffer), mvPendingBuffers}
        BY <2>2 DEF ReplaceCurrent
      <4>3. needFlushBuffers' \in Seq(Buffer)
        BY <1>1, <4>1, <4>2 DEF BufferTypes
      <4>4. QED BY <4>3, LenProperties
    <3>2. mNeedFlushNow' \in BOOLEAN
      BY <2>2 DEF FileTypes
    <3>3. QED BY <2>2, <3>1, <3>2 DEF FileTypes
  <2>3. QED BY <1>4, <2>1, <2>2 DEF TakeBuffers
<1>5. CASE TestPredicate \/ FlushInterval
  <2>1. UNCHANGED <<mStopThread, notified, ended>>
    BY <1>5 DEF TestPredicate, FlushInterval, threadVars
  <2>2. CASE \E timeout \in BOOLEAN : TakeBuffers(timeout)
    BY <1>4, <2>1, <2>2 DEF FileTypes
  <2>3. CASE /\ flushPc' = "block"
             /\ UNCHANGED <<needFlushBuffers, flushed, file, mNeedFlushNow>>
    BY <2>1, <2>3 DEF FileTypes
  <2>4. FALSE \in BOOLEAN /\ (~Predicate) \in BOOLEAN
    OBVIOUS
  <2>5. QED BY <1>5, <2>2, <2>3, <2>4 DEF TestPredicate, FlushInterval
<1>6. CASE Top \/ Block \/ Wake
  BY <1>6 DEF Top, Block, Wake, FileTypes, threadVars
<1>7. CASE FlushBuffer
  <2>1. /\ flushed + 1 \in 1 .. Len(needFlushBuffers)
        /\ flushed' = flushed + 1 /\ file' = file \o needFlushBuffers[flushed + 1]
        /\ needFlushBuffers' = [needFlushBuffers EXCEPT ![flushed + 1] = <<>>]
        /\ UNCHANGED <<flushPc, mStopThread, mNeedFlushNow, notified, ended>>
    BY <1>1, <1>2, <1>7 DEF FlushBuffer, BufferTypes, threadVars
  <2>2. Len(needFlushBuffers') = Len(needFlushBuffers)
    <3>1. <<>> \in Buffer
      BY EmptySeq DEF Buffer
    <3>2. QED BY <1>1, <2>1, <3>1, ExceptSeq DEF BufferTypes
  <2>3. needFlushBuffers[flushed + 1] \in Seq(Lines)
    BY <1>1, <2>1, ElementOfSeq DEF BufferTypes, Buffer
  <2>4. file' \in Seq(Lines)
    BY <2>1, <2>3, ConcatProperties DEF FileTypes
  <2>5. QED BY <2>1, <2>2, <2>4 DEF FileTypes
<1>8. CASE ReturnBuffers
  BY <1>2, <1>8 DEF ReturnBuffers, FileTypes, threadVars
<1>9. CASE UNCHANGED vars
  BY <1>9 DEF FileTypes, vars, flushVars, threadVars
<1>10. QED BY <1>3, <1>5, <1>6, <1>7, <1>8, <1>9 DEF Next, FlushThread

(* The first k lines.                                                      *)
Upto(k) == [n \in 1 .. k |-> n]

LEMMA UptoNext ==
    ASSUME NEW k \in Nat, k + 1 \in Lines
    PROVE  Upto(k + 1) = Upto(k) \o <<k + 1>>
<1> DEFINE longer == Upto(k) \o <<k + 1>>
<1>1. Lines \subseteq Nat /\ \A n \in 1 .. k + 1 : n \in Lines
  BY LogServerAssumption DEF Lines
<1>2. Upto(k) \in Seq(Lines) /\ Len(Upto(k)) = k /\ \A n \in 1 .. k : Upto(k)[n] = n
  BY <1>1 DEF Upto
<1>3. /\ Upto(k + 1) \in Seq(Lines) /\ Len(Upto(k + 1)) = k + 1
      /\ \A n \in 1 .. k + 1 : Upto(k + 1)[n] = n
  BY <1>1 DEF Upto
<1>4. <<k + 1>> \in Seq(Lines) /\ Len(<<k + 1>>) = 1 /\ <<k + 1>>[1] = k + 1
  BY <1>1
<1>5. /\ longer \in Seq(Lines) /\ Len(longer) = k + 1
      /\ \A n \in 1 .. k + 1 : longer[n] = IF n <= k THEN Upto(k)[n] ELSE <<k + 1>>[n - k]
  BY <1>2, <1>4, ConcatProperties
<1> HIDE DEF longer
<1>6. \A n \in 1 .. k + 1 : longer[n] = n
  <2>1. ASSUME NEW n \in 1 .. k + 1 PROVE longer[n] = n
    <3>1. CASE n \in 1 .. k
      BY <1>2, <1>5, <3>1
    <3>2. CASE n = k + 1
      <4>1. n - k = 1 /\ ~(n <= k)
        BY <3>2
      <4>2. QED BY <1>4, <1>5, <3>2, <4>1
    <3>3. QED BY <3>1, <3>2
  <2>2. QED BY <2>1
<1>7. longer = Upto(k + 1)
  BY <1>3, <1>5, <1>6, SeqEqual
<1>8. QED BY <1>7 DEF longer

LEMMA FlatNone == Flat(<<>>) = <<>>
<1>1. <<>> \in Seq(Buffer) /\ Len(<<>>) = 0
  BY EmptySeq
<1>2. QED BY <1>1, FlatStep, FlatIsFcn

(* A vector whose buffers are all empty.                                   *)
LEMMA FlatEmpty ==
    ASSUME NEW s \in Seq(Buffer), \A i \in 1 .. Len(s) : s[i] = <<>>
    PROVE  Flat(s) = <<>>
<1>1. Len(s) \in 0 .. Len(s)
  BY LenProperties
<1>2. QED BY <1>1, FlatOfEmpty, FlatIsFcn

LEMMA InitLinesInOrder ==
    ASSUME Init PROVE LinesInOrder
<1>1. [n \in 1 .. 0 |-> n] = <<>>
  OBVIOUS
<1>2. QED BY <1>1, FlatNone, ConcatLines DEF Init, LinesInOrder

(* Where the lines are, and what of them Flat gives.                       *)
LEMMA Held ==
    ASSUME BufferTypes, FileTypes
    PROVE  /\ file \in Seq(Lines) /\ mpCurrentBuffer \in Seq(Lines)
           /\ Flat(needFlushBuffers) \in Seq(Lines) /\ Flat(mvPendingBuffers) \in Seq(Lines)
           /\ Flat(Append(mvPendingBuffers, mpCurrentBuffer))
                 = Flat(mvPendingBuffers) \o mpCurrentBuffer
  BY FlatIsLines, FlatAppend DEF BufferTypes, FileTypes, Buffer

(* A line joins the end.                                                   *)
LEMMA LogLinesInOrder ==
    ASSUME IInv, FileTypes, LinesInOrder, NEW t \in Threads, Log(t)
    PROVE  LinesInOrder'
<1> DEFINE line == accepted + 1
           before == file \o Flat(needFlushBuffers) \o Flat(mvPendingBuffers)
<1>1. UNCHANGED <<file, needFlushBuffers>>
  BY DEF Log, flushVars
<1>2. /\ file \in Seq(Lines) /\ mpCurrentBuffer \in Seq(Lines)
      /\ Flat(needFlushBuffers) \in Seq(Lines) /\ Flat(mvPendingBuffers) \in Seq(Lines)
      /\ Flat(Append(mvPendingBuffers, mpCurrentBuffer))
            = Flat(mvPendingBuffers) \o mpCurrentBuffer
  BY Held DEF IInv
<1>3. accepted \in Nat
  BY LogServerAssumption DEF IInv, BufferTypes
<1>4. before \o mpCurrentBuffer = Upto(accepted)
  BY DEF LinesInOrder, Upto
<1>5. before \in Seq(Lines) /\ file \o Flat(needFlushBuffers) \in Seq(Lines)
  BY <1>2, ConcatLines
<1>6. line \in Lines => Upto(line) = (before \o mpCurrentBuffer) \o <<line>>
  BY <1>3, <1>4, UptoNext
<1>7. line \in Lines => <<line>> \in Seq(Lines)
  OBVIOUS
<1>8. CASE /\ line \in Lines /\ mpCurrentBuffer' = Append(mpCurrentBuffer, line)
           /\ accepted' = line /\ UNCHANGED mvPendingBuffers
  <2>1. mpCurrentBuffer' = mpCurrentBuffer \o <<line>>
    BY <1>2, <1>8, AppendIsConcat
  <2>2. before \o mpCurrentBuffer' = Upto(line)
    <3> HIDE DEF before, line
    <3>1. before \o (mpCurrentBuffer \o <<line>>) = (before \o mpCurrentBuffer) \o <<line>>
      BY <1>2, <1>5, <1>7, <1>8, ConcatLines
    <3>2. QED BY <1>6, <1>8, <2>1, <3>1
  <2>3. QED BY <1>1, <1>8, <2>2 DEF LinesInOrder, Upto
<1>9. CASE /\ line \in Lines /\ ReplaceCurrent(mvPendingBuffers', <<line>>) /\ accepted' = line
  <2>1. mvPendingBuffers' = Append(mvPendingBuffers, mpCurrentBuffer) /\ mpCurrentBuffer' = <<line>>
    <3>1. <<line>> \in Buffer
      BY <1>7, <1>9 DEF Buffer
    <3>2. mpCurrentBuffer' = <<line>>
      BY <1>9, <3>1, ReplaceCurrentEffect DEF IInv
    <3>3. QED BY <1>9, <3>2 DEF ReplaceCurrent
  <2>2. Flat(mvPendingBuffers)' = Flat(mvPendingBuffers) \o mpCurrentBuffer
    BY <1>2, <2>1
  <2>3. (file \o Flat(needFlushBuffers)) \o (Flat(mvPendingBuffers) \o mpCurrentBuffer)
            = before \o mpCurrentBuffer
    <3>1. /\ file \o Flat(needFlushBuffers) \in Seq(Lines)
          /\ Flat(mvPendingBuffers) \in Seq(Lines) /\ mpCurrentBuffer \in Seq(Lines)
      BY <1>2, <1>5
    <3>2. QED BY <3>1, LinesAssociate, Zenon
  <2>4. QED BY <1>1, <1>6, <1>9, <2>1, <2>2, <2>3 DEF LinesInOrder, Upto
<1>10. CASE UNCHANGED <<bufferVars, accepted>>
  BY <1>1, <1>10 DEF LinesInOrder, bufferVars
<1>11. QED BY <1>8, <1>9, <1>10 DEF Log, write

(* What the flush thread takes was in the pending and current buffers.     *)
LEMMA TakeBuffersLinesInOrder ==
    ASSUME IInv, FileTypes, LinesInOrder, flushPc \in {"predicate", "asleep"}, NEW timeout,
           TakeBuffers(timeout), UNCHANGED accepted
    PROVE  LinesInOrder'
<1> DEFINE pending == Flat(mvPendingBuffers)
<1>1. /\ file \in Seq(Lines) /\ mpCurrentBuffer \in Seq(Lines) /\ pending \in Seq(Lines)
      /\ Flat(Append(mvPendingBuffers, mpCurrentBuffer)) = pending \o mpCurrentBuffer
  BY Held DEF IInv
<1>2. Flat(needFlushBuffers) = <<>>
  BY FlatNone DEF IInv, FlushBounded
<1>3. (file \o pending) \o mpCurrentBuffer = Upto(accepted)
  BY <1>1, <1>2, ConcatLines DEF LinesInOrder, Upto
<1>4. CASE /\ file' = file \o pending \o mpCurrentBuffer
           /\ mvPendingBuffers' = [i \in DOMAIN mvPendingBuffers |-> <<>>]
           /\ mpCurrentBuffer' = <<>>
           /\ UNCHANGED needFlushBuffers
  <2>1. Flat(mvPendingBuffers)' = <<>>
    <3>1. <<>> \in Buffer /\ Len(mvPendingBuffers) \in Nat
          /\ DOMAIN mvPendingBuffers = 1 .. Len(mvPendingBuffers)
      BY EmptySeq, LenProperties DEF Buffer, IInv, BufferTypes
    <3>2. mvPendingBuffers' = [i \in 1 .. Len(mvPendingBuffers) |-> <<>>]
      BY <1>4, <3>1
    <3>3. /\ mvPendingBuffers' \in Seq(Buffer)
          /\ \A i \in 1 .. Len(mvPendingBuffers') : mvPendingBuffers'[i] = <<>>
      BY <3>1, <3>2
    <3>4. QED BY <3>3, FlatEmpty
  <2>2. file' \in Seq(Lines)
    BY <1>1, <1>4, ConcatLines
  <2>3. file' \o <<>> \o <<>> \o <<>> = file'
    BY <2>2, ConcatLines
  <2>4. QED BY <1>2, <1>3, <1>4, <2>1, <2>3 DEF LinesInOrder, Upto
<1>5. CASE ReplaceCurrent(needFlushBuffers', <<>>) /\ mvPendingBuffers' = <<>> /\ UNCHANGED file
  <2>1. /\ needFlushBuffers' = Append(mvPendingBuffers, mpCurrentBuffer)
        /\ mpCurrentBuffer' = <<>>
    <3>1. <<>> \in Buffer
      BY EmptySeq DEF Buffer
    <3>2. mpCurrentBuffer' = <<>>
      BY <1>5, <3>1, ReplaceCurrentEffect DEF IInv
    <3>3. QED BY <1>5, <3>2 DEF ReplaceCurrent
  <2>2. Flat(needFlushBuffers)' = pending \o mpCurrentBuffer /\ Flat(mvPendingBuffers)' = <<>>
    BY <1>1, <1>5, <2>1, FlatNone
  <2>3. (file \o (pending \o mpCurrentBuffer)) \o <<>> \o <<>> = (file \o pending) \o mpCurrentBuffer
    <3>1. file \o (pending \o mpCurrentBuffer) = (file \o pending) \o mpCurrentBuffer
      BY <1>1, LinesAssociate, Zenon
    <3>2. file \o (pending \o mpCurrentBuffer) \in Seq(Lines)
      BY <1>1, ConcatLines, Zenon
    <3>3. QED BY <3>1, <3>2, ConcatLines, Zenon
  <2>4. QED BY <1>3, <1>5, <2>1, <2>2, <2>3 DEF LinesInOrder, Upto
<1>6. CASE /\ needFlushBuffers' = mvPendingBuffers /\ mvPendingBuffers' = <<>>
           /\ UNCHANGED <<mpCurrentBuffer, file>>
  <2>1. Flat(needFlushBuffers)' = pending /\ Flat(mvPendingBuffers)' = <<>>
    BY <1>6, FlatNone
  <2>2. (file \o pending) \o <<>> = file \o pending
    BY <1>1, ConcatLines
  <2>3. QED BY <1>3, <1>6, <2>1, <2>2 DEF LinesInOrder, Upto
<1>7. QED BY <1>4, <1>5, <1>6 DEF TakeBuffers

(* A buffer written is the first of those that hold lines.                 *)
LEMMA FlushBufferLinesInOrder ==
    ASSUME IInv, FileTypes, LinesInOrder, FlushBuffer
    PROVE  LinesInOrder'
<1> DEFINE k == flushed + 1
           rest == Flat([needFlushBuffers EXCEPT ![k] = <<>>])
<1>1. /\ k \in 1 .. Len(needFlushBuffers)
      /\ file' = file \o needFlushBuffers[k]
      /\ needFlushBuffers' = [needFlushBuffers EXCEPT ![k] = <<>>]
      /\ UNCHANGED <<mvPendingBuffers, mpCurrentBuffer, accepted>>
  BY LenProperties DEF FlushBuffer, IInv, BufferTypes, bufferVars
<1>2. needFlushBuffers \in Seq(Buffer)
  BY DEF IInv, BufferTypes
<1>3. \A i \in 1 .. k - 1 : needFlushBuffers[i] = <<>>
  BY <1>1, LenProperties DEF IInv, Recycled, BufferTypes
<1>4. needFlushBuffers[k] \in Seq(Lines) /\ rest \in Seq(Lines) /\ file \in Seq(Lines)
  <2>1. <<>> \in Buffer
    BY EmptySeq DEF Buffer
  <2>2. [needFlushBuffers EXCEPT ![k] = <<>>] \in Seq(Buffer)
    BY <1>1, <1>2, <2>1, ExceptSeq
  <2>3. needFlushBuffers[k] \in Buffer
    BY <1>1, <1>2, ElementOfSeq
  <2>4. QED BY <2>2, <2>3, FlatIsLines DEF Buffer, FileTypes
<1> HIDE DEF k
<1>5. Flat(needFlushBuffers) = needFlushBuffers[k] \o rest
  BY <1>1, <1>2, <1>3, FlatFirst
<1>6. file \o Flat(needFlushBuffers) = file' \o Flat(needFlushBuffers)'
  <2>1. Flat(needFlushBuffers)' = rest
    BY <1>1
  <2> HIDE DEF rest
  <2>2. file \o (needFlushBuffers[k] \o rest) = (file \o needFlushBuffers[k]) \o rest
    BY <1>4, LinesAssociate, Zenon
  <2>3. QED BY <1>1, <1>5, <2>1, <2>2
<1>7. QED BY <1>1, <1>6 DEF LinesInOrder

LEMMA ReturnBuffersLinesInOrder ==
    ASSUME IInv, FileTypes, LinesInOrder, ReturnBuffers
    PROVE  LinesInOrder'
<1>1. /\ flushed = Len(needFlushBuffers) /\ needFlushBuffers' = <<>>
      /\ UNCHANGED <<mpCurrentBuffer, mvPendingBuffers, file, accepted>>
  BY DEF ReturnBuffers
<1>2. needFlushBuffers \in Seq(Buffer) /\ Len(needFlushBuffers) \in Nat
  BY LenProperties DEF IInv, BufferTypes
<1>3. \A i \in 1 .. Len(needFlushBuffers) : needFlushBuffers[i] = <<>>
  BY <1>1, <1>2 DEF IInv, Recycled
<1>4. Flat(needFlushBuffers) = <<>> /\ Flat(needFlushBuffers)' = <<>>
  BY <1>1, <1>2, <1>3, FlatEmpty, FlatNone
<1>5. QED BY <1>1, <1>4 DEF LinesInOrder

LEMMA NextLinesInOrder ==
    ASSUME IInv, FileTypes, LinesInOrder, [Next]_vars
    PROVE  LinesInOrder'
<1>1. CASE TestPredicate \/ FlushInterval
  <2>1. UNCHANGED accepted /\ flushPc \in {"predicate", "asleep"}
    BY <1>1 DEF TestPredicate, FlushInterval
  <2>2. CASE \E timeout : TakeBuffers(timeout)
    BY <2>1, <2>2, TakeBuffersLinesInOrder
  <2>3. CASE UNCHANGED <<bufferVars, needFlushBuffers, file>>
    BY <2>1, <2>3 DEF LinesInOrder, bufferVars
  <2>4. QED BY <1>1, <2>2, <2>3 DEF TestPredicate, FlushInterval
<1>2. CASE \/ UNCHANGED vars \/ Top \/ Block \/ Wake
           \/ \E t \in Threads : forceFlush(t) \/ forceDestroy(t) \/ Join(t)
  BY <1>2 DEF LinesInOrder, vars, bufferVars, flushVars, Top, Block, Wake, forceFlush,
              forceDestroy, Join
<1>3. QED BY <1>1, <1>2, LogLinesInOrder, FlushBufferLinesInOrder, ReturnBuffersLinesInOrder
          DEF Next, FlushThread

LEMMA LogServerLines == Spec => [](IInv /\ FileTypes /\ LinesInOrder)
<1>1. Init => IInv /\ FileTypes /\ LinesInOrder
  BY InitIInv, InitFileTypes, InitLinesInOrder
<1>2. IInv /\ FileTypes /\ LinesInOrder /\ [Next]_vars => IInv' /\ FileTypes' /\ LinesInOrder'
  BY NextIInv, NextFileTypes, NextLinesInOrder
<1>3. QED BY <1>1, <1>2, PTL DEF Spec

(* No buffer is written past its end (LogServer.cpp, LogBuffer::append),   *)
(* and every variable of the log stays in its range.                       *)
THEOREM LogServerTypeOK == Spec => []TypeOK
<1>1. IInv /\ FileTypes => TypeOK
  <2>1. SUFFICES ASSUME IInv, FileTypes PROVE TypeOK
    OBVIOUS
  <2>2. BufferTypes
    BY <2>1 DEF IInv
  <2>3. lastForced \in [Threads -> 0 .. MaxLines]
    <3>1. 0 .. accepted \subseteq 0 .. MaxLines
      BY <2>2, LogServerAssumption DEF BufferTypes
    <3>2. QED BY <2>2, <3>1 DEF BufferTypes
  <2>4. flushed \in 0 .. Len(needFlushBuffers)
    BY <2>1, <2>2, LenProperties DEF FileTypes, BufferTypes
  <2>5. QED BY <2>1, <2>2, <2>3, <2>4 DEF TypeOK, FileTypes, BufferTypes
<1>2. QED BY <1>1, LogServerLines, PTL

(* The file, the buffers being flushed, the pending ones and the current   *)
(* one hold every accepted line once, in the order of the calls of write,  *)
(* through every swap and recycling of doFlushAsync.                       *)
THEOREM LogServerLinesInOrder == Spec => []LinesInOrder
<1>1. QED BY LogServerLines, PTL
=============================================================================
