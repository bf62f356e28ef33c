------------------------------ MODULE TcpBuffer ------------------------------
(***************************************************************************)
(* tcp::TcpBuffer: the vector, its two positions, and the operations that  *)
(* move bytes through it.  A connection has two: the receive buffer is     *)
(* filled by readFromSocket and emptied by read and extract (RecvSpec),    *)
(* the send buffer is filled by appendToBuffer and emptied by              *)
(* writeToSocket (SendSpec).                                               *)
(*                                                                         *)
(* A byte stands for its place in the stream that goes through the buffer: *)
(* the next byte to be put in is byte number `taken`, the next to come out *)
(* is number `given`.  size_t has Width bits; only the subtraction in      *)
(* writablebytes can leave its range.  readString, readU8String and their  *)
(* extract counterparts differ from read and extract in the type of the    *)
(* result only.                                                            *)
(***************************************************************************)
EXTENDS Integers, Sequences

CONSTANTS InitialSize,  \* the size the constructor gives the vector (1024)
          Width,        \* the width of size_t
          StreamBound   \* bytes put in, at most (for TLC)

ASSUME SizeAssumption == InitialSize \in Nat \ {0} /\ Width \in Nat /\ StreamBound \in Nat
ASSUME ModulusAssumption == 2 ^ Width \in Nat \ {0}

VARIABLES mBuffer,      \* [0 .. mBufferSize - 1 -> Nat]
          mBufferSize,  \* mBuffer.size()
          mReadPos,
          mWritePos,
          appending,    \* data.size() of the appendToBuffer in progress, or 0
          taken,        \* history: the bytes put in so far
          given,        \* history: the bytes taken out so far
          view          \* the bytes the last read, extract or write returned,
                        \* and `given` as it was before

vars == <<mBuffer, mBufferSize, mReadPos, mWritePos, appending, taken, given, view>>

TypeOK ==
    /\ mBufferSize \in Nat
    /\ mBuffer \in [0 .. mBufferSize - 1 -> Nat]
    /\ mReadPos \in Nat
    /\ mWritePos \in Nat
    /\ appending \in Nat
    /\ taken \in Nat
    /\ given \in Nat
    /\ view \in [from : Nat, bytes : Seq(Nat)]

Init ==
    /\ mBufferSize = InitialSize
    /\ mBuffer = [i \in 0 .. InitialSize - 1 |-> 0]
    /\ mReadPos = 0
    /\ mWritePos = 0
    /\ appending = 0
    /\ taken = 0
    /\ given = 0
    /\ view = [from |-> 0, bytes |-> <<>>]

readablebytes == mWritePos - mReadPos
writablebytes == (mBufferSize - mWritePos) % 2 ^ Width

(* The vector's content after resize(size): it grows with zeros.           *)
Resized(content, oldSize, size) ==
    [i \in 0 .. size - 1 |-> IF i < oldSize THEN content[i] ELSE 0]

(* The vector's content with the stream's next n bytes copied to mWritePos. *)
Filled(n) ==
    [i \in 0 .. mBufferSize - 1 |->
        IF mWritePos <= i /\ i < mWritePos + n THEN taken + (i - mWritePos) ELSE mBuffer[i]]

(* Mutant: the vector grows on the next read, not on the one that fills it. *)
ReadWithoutGrowth(res) ==
    /\ res \in 1 .. mBufferSize - mWritePos
    /\ mWritePos' = mWritePos + res
    /\ taken' = taken + res
    /\ mBuffer' = Filled(res)
    /\ UNCHANGED <<mBufferSize, mReadPos, appending, given, view>>

(* Mutant: the vector grows before the bytes are counted, and is filled    *)
(* from its old end.                                                       *)
ReadAfterGrowth(res) ==
    /\ res \in 1 .. mBufferSize - mWritePos
    /\ mWritePos' = mWritePos + res
    /\ taken' = taken + res
    /\ IF res = mBufferSize - mWritePos
       THEN /\ mBufferSize' = 2 * mBufferSize
            /\ mBuffer' = Resized(mBuffer, mBufferSize, 2 * mBufferSize)
       ELSE /\ mBuffer' = Filled(res)
            /\ UNCHANGED mBufferSize
    /\ UNCHANGED <<mReadPos, appending, given, view>>

(* ::read returned res bytes, as many as there was room for or fewer; a    *)
(* full buffer doubles.  An error, or a read of nothing, throws and leaves *)
(* the buffer alone.  Here writablebytes cannot wrap (RoomToRead).         *)
readFromSocket(res) ==
    /\ res \in 1 .. mBufferSize - mWritePos
    /\ mWritePos' = mWritePos + res
    /\ taken' = taken + res
    /\ IF res = mBufferSize - mWritePos
       THEN /\ mBufferSize' = 2 * mBufferSize
            /\ mBuffer' = Resized(Filled(res), mBufferSize, 2 * mBufferSize)
       ELSE /\ mBuffer' = Filled(res)
            /\ UNCHANGED mBufferSize
    /\ UNCHANGED <<mReadPos, appending, given, view>>

(* appendToBuffer(data), with n = data.size().                             *)
appendToBuffer(n) ==
    /\ appending = 0
    /\ appending' = n
    /\ UNCHANGED <<mBuffer, mBufferSize, mReadPos, mWritePos, taken, given, view>>

(* One turn of its loop.                                                   *)
GrowForAppend ==
    /\ appending > 0
    /\ writablebytes < appending
    /\ mBufferSize' = 2 * appending
    /\ mBuffer' = Resized(mBuffer, mBufferSize, 2 * appending)
    /\ UNCHANGED <<mReadPos, mWritePos, appending, taken, given, view>>

(* The memcpy behind the loop.  What it writes behind the vector's end is  *)
(* not in the vector.                                                      *)
CopyForAppend ==
    /\ appending > 0
    /\ writablebytes >= appending
    /\ mBuffer' = Filled(appending)
    /\ mWritePos' = mWritePos + appending
    /\ taken' = taken + appending
    /\ appending' = 0
    /\ UNCHANGED <<mBufferSize, mReadPos, given, view>>

View(len) ==
    [from |-> given, bytes |-> [i \in 1 .. len |-> mBuffer[mReadPos + i - 1]]]

(* Mutant: the readable bytes move to the front whenever some were taken.  *)
MoveAlways(len) ==
    LET readPos == mReadPos + len
        rest == mWritePos - readPos
    IN  /\ readPos <= mWritePos
        /\ mBuffer' = [i \in 0 .. mBufferSize - 1 |->
                           IF i < rest THEN mBuffer[readPos + i] ELSE mBuffer[i]]
        /\ mWritePos' = rest
        /\ mReadPos' = 0

(* Mutant: mReadPos is reset before mWritePos is computed from it.         *)
ResetReadPosFirst(len) ==
    LET readPos == mReadPos + len
        rest == mWritePos - readPos
    IN  /\ readPos <= mWritePos
        /\ mReadPos' = (IF readPos > rest THEN 0 ELSE readPos)
        /\ mBuffer' = (IF readPos > rest
                       THEN [i \in 0 .. mBufferSize - 1 |->
                                IF i < rest THEN mBuffer[readPos + i] ELSE mBuffer[i]]
                       ELSE mBuffer)
        /\ UNCHANGED mWritePos

(* Mutant: the move copies from where mReadPos was.                        *)
MoveFromOldPos(len) ==
    LET readPos == mReadPos + len
        rest == mWritePos - readPos
    IN  /\ readPos <= mWritePos
        /\ IF readPos > rest
           THEN /\ mBuffer' = [i \in 0 .. mBufferSize - 1 |->
                                  IF i < rest THEN mBuffer[mReadPos + i] ELSE mBuffer[i]]
                /\ mWritePos' = rest
                /\ mReadPos' = 0
           ELSE /\ mReadPos' = readPos
                /\ UNCHANGED <<mBuffer, mWritePos>>

(* Mutant: len is subtracted a second time.                                *)
MoveSubtractsTwice(len) ==
    LET readPos == mReadPos + len
        rest == mWritePos - readPos
    IN  /\ readPos <= mWritePos
        /\ IF readPos > rest
           THEN /\ mBuffer' = [i \in 0 .. mBufferSize - 1 |->
                                  IF i < rest THEN mBuffer[readPos + i] ELSE mBuffer[i]]
                /\ mWritePos' = rest - len
                /\ mReadPos' = 0
           ELSE /\ mReadPos' = readPos
                /\ UNCHANGED <<mBuffer, mWritePos>>

(* updateReadPos(len): skip len bytes and, when the space in front of the  *)
(* readable bytes exceeds them, move them to the front.                    *)
updateReadPos(len) ==
    LET readPos == mReadPos + len
        rest == mWritePos - readPos
    IN  /\ readPos <= mWritePos
        /\ IF readPos > rest
           THEN /\ mBuffer' = [i \in 0 .. mBufferSize - 1 |->
                                  IF i < rest THEN mBuffer[readPos + i] ELSE mBuffer[i]]
                /\ mWritePos' = rest
                /\ mReadPos' = 0
           ELSE /\ mReadPos' = readPos
                /\ UNCHANGED <<mBuffer, mWritePos>>

(* What read and extract return at most.                                   *)
Available(size) == IF size < readablebytes THEN size ELSE readablebytes

read(size) ==
    /\ view' = View(Available(size))
    /\ UNCHANGED <<mBuffer, mBufferSize, mReadPos, mWritePos, appending, taken, given>>

extract(size) ==
    /\ view' = View(Available(size))
    /\ updateReadPos(Available(size))
    /\ given' = given + Available(size)
    /\ UNCHANGED <<mBufferSize, appending, taken>>

(* ::write took res of the readable bytes.  Anything else throws.          *)
writeToSocket(res) ==
    /\ appending = 0
    /\ res \in 1 .. readablebytes
    /\ view' = View(res)
    /\ updateReadPos(res)
    /\ given' = given + res
    /\ UNCHANGED <<mBufferSize, appending, taken>>

-----------------------------------------------------------------------------
RecvNext ==
    \/ \E res \in 1 .. StreamBound - taken : readFromSocket(res)
    \/ \E size \in 0 .. StreamBound : read(size) \/ extract(size)

SendNext ==
    \/ \E n \in 1 .. StreamBound - taken : appendToBuffer(n)
    \/ GrowForAppend \/ CopyForAppend
    \/ \E res \in 1 .. StreamBound : writeToSocket(res)

RecvSpec == Init /\ [][RecvNext]_vars
SendSpec == Init /\ [][SendNext]_vars /\ WF_vars(GrowForAppend \/ CopyForAppend)
-----------------------------------------------------------------------------
(***************************************************************************)
(* Properties.                                                             *)
(***************************************************************************)

(* TcpBuffer.h:14-22, the diagram: the two positions are in order and      *)
(* inside the vector.                                                      *)
PositionsInOrder == mReadPos <= mWritePos /\ mWritePos <= mBufferSize

(* The receive buffer always has room: readFromSocket never asks the       *)
(* socket for 0 bytes, whose answer 0 it would take for the peer's close.  *)
RoomToRead == mWritePos < mBufferSize

(* The readable bytes are those put in and not taken out, in order,        *)
(* through every growth and every move to the front.                       *)
ReadableInOrder ==
    /\ readablebytes = taken - given
    /\ \A i \in mReadPos .. mWritePos - 1 : mBuffer[i] = given + (i - mReadPos)

(* What read, extract and writeToSocket hand out is the stream, in order,  *)
(* without a gap or a repeated byte.                                       *)
ViewInOrder == \A i \in DOMAIN view.bytes : view.bytes[i] = view.from + i - 1

(* updateReadPos copies with memcpy, whose source and target may not       *)
(* overlap: a step that moves the readable bytes to the front moves them   *)
(* wholly in front of where they were.                                     *)
MoveDisjoint ==
    [][mWritePos' < mWritePos => mWritePos' <= mWritePos - mWritePos']_vars
=============================================================================
