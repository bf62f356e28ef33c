--------------------------- MODULE TcpBufferProof ---------------------------
(***************************************************************************)
(* The buffers of a connection are lossless FIFOs of bytes, for every      *)
(* initial size: the receive buffer through every sequence of reads and    *)
(* extractions, the send buffer through the appends and writes that keep   *)
(* appendToBuffer's loop from shrinking the vector below its content.      *)
(***************************************************************************)
EXTENDS TcpBuffer, SequenceTheorems, TLAPS

(* The bounds that keep every access inside the vector, and the content.   *)
(* updateReadPos leaves no more space in front of the readable bytes than  *)
(* they take.                                                              *)
BufferInv ==
    /\ TypeOK
    /\ PositionsInOrder
    /\ mReadPos <= readablebytes
    /\ ReadableInOrder
    /\ ViewInOrder

IInv == BufferInv /\ RoomToRead

(* What BufferInv says of the numbers.                                     *)
LEMMA Bounds ==
    ASSUME BufferInv
    PROVE  /\ mReadPos \in Nat /\ mWritePos \in Nat /\ mBufferSize \in Nat
           /\ taken \in Nat /\ given \in Nat /\ appending \in Nat
           /\ mReadPos <= mWritePos /\ mWritePos <= mBufferSize
           /\ mReadPos <= mWritePos - mReadPos
           /\ mWritePos - mReadPos = taken - given
  BY DEF BufferInv, TypeOK, PositionsInOrder, ReadableInOrder, readablebytes

(* The empty buffer satisfies the invariant.                               *)
LEMMA InitIInv == Init => IInv
  BY SizeAssumption
  DEF Init, IInv, BufferInv, TypeOK, RoomToRead, PositionsInOrder, ReadableInOrder, ViewInOrder,
      readablebytes

(* A view of readable bytes is a sequence of the stream's next bytes.      *)
LEMMA ViewProperties ==
    ASSUME BufferInv, NEW len \in 0 .. readablebytes
    PROVE  /\ View(len) \in [from : Nat, bytes : Seq(Nat)]
           /\ \A i \in DOMAIN View(len).bytes : View(len).bytes[i] = View(len).from + i - 1
<1>1. len \in Nat /\ mReadPos + len <= mWritePos /\ mReadPos \in Nat /\ mWritePos \in Nat
  BY Bounds DEF readablebytes
<1>2. \A i \in 1 .. len : mReadPos + i - 1 \in mReadPos .. mWritePos - 1
  BY <1>1
<1>3. \A i \in 1 .. len : mBuffer[mReadPos + i - 1] = given + i - 1 /\ given + i - 1 \in Nat
  <2>1. TAKE i \in 1 .. len
  <2>2. mBuffer[mReadPos + i - 1] = given + ((mReadPos + i - 1) - mReadPos)
    BY <1>2 DEF BufferInv, ReadableInOrder
  <2>3. QED BY <2>2, <1>1 DEF BufferInv, TypeOK
<1>4. [i \in 1 .. len |-> mBuffer[mReadPos + i - 1]] \in Seq(Nat)
  <2>1. [i \in 1 .. len |-> mBuffer[mReadPos + i - 1]] \in [1 .. len -> Nat]
    BY <1>3
  <2>2. [1 .. len -> Nat] \in {[1 .. n -> Nat] : n \in Nat}
    BY <1>1
  <2>3. QED BY <2>1, <2>2, SeqDef
<1>5. View(len).from = given /\ View(len).bytes = [i \in 1 .. len |-> mBuffer[mReadPos + i - 1]]
  BY DEF View
<1>6. QED BY <1>3, <1>4, <1>5 DEF View, BufferInv, TypeOK

(* A byte's place in the stream, counted from either end of the readable   *)
(* bytes.                                                                  *)
LEMMA SameOffset ==
    ASSUME NEW t \in Nat, NEW g \in Nat, NEW w \in Nat, NEW r \in Nat, NEW i \in Nat,
           w - r = t - g
    PROVE  t + (i - w) = g + (i - r)
  OBVIOUS

(* Copying the stream's next bytes to mWritePos, into a vector that may    *)
(* grow behind them, keeps the invariant.                                  *)
LEMMA FillInv ==
    ASSUME BufferInv, NEW n \in Nat, mWritePos + n <= mBufferSize, mBufferSize <= mBufferSize',
           mBufferSize' \in Nat, mBuffer' \in [0 .. mBufferSize' - 1 -> Nat],
           \A i \in 0 .. mBufferSize - 1 : mBuffer'[i] = Filled(n)[i],
           mWritePos' = mWritePos + n, taken' = taken + n, appending' \in Nat,
           UNCHANGED <<mReadPos, given, view>>
    PROVE  BufferInv'
<1>1. /\ mReadPos \in Nat /\ mWritePos \in Nat /\ mBufferSize \in Nat /\ taken \in Nat /\ given \in Nat
      /\ mReadPos <= mWritePos /\ mWritePos <= mBufferSize /\ mWritePos - mReadPos = taken - given
      /\ mReadPos <= mWritePos - mReadPos
  BY Bounds
<1>2. \A i \in 0 .. mBufferSize - 1 :
          mBuffer'[i] = IF mWritePos <= i /\ i < mWritePos + n
                        THEN taken + (i - mWritePos) ELSE mBuffer[i]
  BY DEF Filled
<1>3. ReadableInOrder'
  <2>1. mWritePos' - mReadPos' = taken' - given'
    BY <1>1
  <2>2. ASSUME NEW i \in mReadPos .. mWritePos + n - 1
        PROVE  mBuffer'[i] = given + (i - mReadPos)
    <3>1. i \in 0 .. mBufferSize - 1 /\ i \in Nat
      BY <1>1
    <3>2. mBuffer'[i] = IF mWritePos <= i /\ i < mWritePos + n
                        THEN taken + (i - mWritePos) ELSE mBuffer[i]
      BY <1>2, <3>1
    <3>3. CASE i < mWritePos
      <4>1. mBuffer'[i] = mBuffer[i]
        BY <1>1, <3>1, <3>2, <3>3
      <4>2. mBuffer[i] = given + (i - mReadPos)
        BY <1>1, <3>3 DEF BufferInv, ReadableInOrder
      <4>3. QED BY <4>1, <4>2
    <3>4. CASE i >= mWritePos
      <4>1. mBuffer'[i] = taken + (i - mWritePos)
        BY <1>1, <3>1, <3>2, <3>4
      <4>2. taken + (i - mWritePos) = given + (i - mReadPos)
        BY <1>1, <3>1, SameOffset
      <4>3. QED BY <4>1, <4>2
    <3>5. i < mWritePos \/ i >= mWritePos
      BY <1>1, <3>1
    <3>6. QED BY <3>3, <3>4, <3>5
  <2>3. /\ readablebytes' = taken' - given'
        /\ \A i \in mReadPos' .. mWritePos' - 1 : mBuffer'[i] = given' + (i - mReadPos')
    <3>1. mReadPos' = mReadPos /\ mWritePos' - 1 = mWritePos + n - 1 /\ given' = given
      BY <1>1
    <3>2. QED BY <2>1, <2>2, <3>1, Zenon DEF readablebytes
  <2>4. QED BY <2>3, Zenon DEF ReadableInOrder
<1>4. ViewInOrder'
  BY DEF BufferInv, ViewInOrder
<1>5. TypeOK'
  <2>1. mReadPos' \in Nat /\ mWritePos' \in Nat /\ taken' \in Nat /\ given' \in Nat
    BY <1>1
  <2>2. view' \in [from : Nat, bytes : Seq(Nat)]
    BY DEF BufferInv, TypeOK
  <2>3. QED BY <2>1, <2>2 DEF TypeOK
<1>6. PositionsInOrder' /\ (mReadPos <= readablebytes)'
  BY <1>1 DEF PositionsInOrder, readablebytes
<1>7. QED BY <1>3, <1>4, <1>5, <1>6 DEF BufferInv

(* readFromSocket keeps the invariant.                                     *)
LEMMA ReadFromSocketIInv ==
    ASSUME IInv, NEW res \in Nat, readFromSocket(res)
    PROVE  IInv'
<1>1. /\ mReadPos \in Nat /\ mWritePos \in Nat /\ mBufferSize \in Nat /\ mWritePos < mBufferSize
      /\ taken \in Nat /\ appending \in Nat
      /\ res >= 1 /\ res <= mBufferSize - mWritePos
      /\ mWritePos' = mWritePos + res /\ taken' = taken + res
      /\ UNCHANGED <<mReadPos, appending, given, view>>
  BY Bounds DEF IInv, RoomToRead, readFromSocket
<1>2. Filled(res) \in [0 .. mBufferSize - 1 -> Nat]
  BY <1>1 DEF Filled, IInv, BufferInv, TypeOK
<1>3. /\ mBufferSize' \in Nat /\ mWritePos' < mBufferSize' /\ mBufferSize <= mBufferSize'
      /\ \A i \in 0 .. mBufferSize - 1 : mBuffer'[i] = Filled(res)[i]
      /\ mBuffer' \in [0 .. mBufferSize' - 1 -> Nat]
  <2>1. CASE res = mBufferSize - mWritePos
    <3>1. mBufferSize' = 2 * mBufferSize /\ mBuffer' = Resized(Filled(res), mBufferSize, 2 * mBufferSize)
      BY <2>1 DEF readFromSocket
    <3>2. Resized(Filled(res), mBufferSize, 2 * mBufferSize) \in [0 .. 2 * mBufferSize - 1 -> Nat]
      BY <1>1, <1>2 DEF Resized
    <3>3. \A i \in 0 .. mBufferSize - 1 :
             Resized(Filled(res), mBufferSize, 2 * mBufferSize)[i] = Filled(res)[i]
      BY <1>1 DEF Resized
    <3>4. QED BY <1>1, <2>1, <3>1, <3>2, <3>3
  <2>2. CASE res # mBufferSize - mWritePos
    <3>1. mBufferSize' = mBufferSize /\ mBuffer' = Filled(res)
      BY <2>2 DEF readFromSocket
    <3>2. QED BY <1>1, <1>2, <2>2, <3>1
  <2>3. QED BY <2>1, <2>2
<1>4. mWritePos + res <= mBufferSize /\ appending' \in Nat
  BY <1>1
<1>5. BufferInv'
  BY <1>1, <1>3, <1>4, FillInv DEF IInv
<1>6. QED BY <1>3, <1>5 DEF IInv, RoomToRead

(* Available never exceeds the readable bytes.                             *)
LEMMA AvailableBound ==
    ASSUME BufferInv, NEW size \in Nat
    PROVE  Available(size) \in 0 .. readablebytes
  BY Bounds DEF Available, readablebytes

(* Taking readable bytes out keeps the invariant, whether or not the rest  *)
(* moves.                                                                  *)
LEMMA TakeInv ==
    ASSUME BufferInv, NEW len \in 0 .. readablebytes,
           view' = View(len), updateReadPos(len), given' = given + len,
           UNCHANGED <<mBufferSize, appending, taken>>
    PROVE  BufferInv' /\ mWritePos' <= mWritePos
<1> DEFINE readPos == mReadPos + len
           rest == mWritePos - readPos
<1>1. /\ mReadPos \in Nat /\ mWritePos \in Nat /\ mBufferSize \in Nat /\ taken \in Nat /\ given \in Nat
      /\ mReadPos <= mWritePos /\ mWritePos <= mBufferSize /\ mWritePos - mReadPos = taken - given
      /\ mBuffer \in [0 .. mBufferSize - 1 -> Nat]
      /\ \A i \in mReadPos .. mWritePos - 1 : mBuffer[i] = given + (i - mReadPos)
  BY Bounds DEF BufferInv, TypeOK, ReadableInOrder
<1>2. /\ len \in Nat /\ len <= mWritePos - mReadPos
      /\ readPos \in Nat /\ rest \in Nat /\ readPos <= mWritePos
  BY <1>1 DEF readablebytes
<1>3. ViewInOrder' /\ view' \in [from : Nat, bytes : Seq(Nat)]
  BY ViewProperties DEF ViewInOrder
<1>4. appending' \in Nat /\ taken' \in Nat /\ given' \in Nat /\ mBufferSize' \in Nat
  BY <1>1, <1>2, Bounds
<1>5. CASE readPos > rest
  <2>1. /\ mBuffer' = [i \in 0 .. mBufferSize - 1 |->
                          IF i < rest THEN mBuffer[readPos + i] ELSE mBuffer[i]]
        /\ mWritePos' = rest /\ mReadPos' = 0
    BY <1>5 DEF updateReadPos
  <2>2. \A i \in 0 .. mBufferSize - 1 : i < rest => readPos + i \in mReadPos .. mWritePos - 1
    BY <1>1, <1>2
  <2>3. mBuffer' \in [0 .. mBufferSize - 1 -> Nat]
    BY <1>1, <2>1, <2>2
  <2>4. ASSUME NEW i \in 0 .. rest - 1 PROVE mBuffer'[i] = (given + len) + i
    <3>1. i \in 0 .. mBufferSize - 1 /\ i < rest
      BY <1>1, <1>2
    <3>2. mBuffer'[i] = mBuffer[readPos + i] /\ readPos + i \in mReadPos .. mWritePos - 1
      BY <2>1, <2>2, <3>1
    <3>3. mBuffer[readPos + i] = given + ((readPos + i) - mReadPos)
      BY <1>1, <3>2
    <3>4. QED BY <1>1, <1>2, <3>2, <3>3
  <2>5. rest = taken - (given + len) /\ rest <= mWritePos /\ 0 <= rest
    BY <1>1, <1>2
  <2>6. ReadableInOrder'
    BY <1>1, <1>2, <2>1, <2>4, <2>5 DEF ReadableInOrder, readablebytes
  <2>7. TypeOK'
    <3>1. mBuffer' \in [0 .. mBufferSize' - 1 -> Nat]
      BY <2>3
    <3>2. mReadPos' \in Nat /\ mWritePos' \in Nat
      BY <1>2, <2>1
    <3>3. QED BY <1>3, <1>4, <3>1, <3>2 DEF TypeOK
  <2>8. PositionsInOrder' /\ (mReadPos <= readablebytes)' /\ mWritePos' <= mWritePos
    BY <1>1, <1>2, <2>1, <2>5 DEF PositionsInOrder, readablebytes
  <2>9. QED BY <1>3, <2>6, <2>7, <2>8 DEF BufferInv
<1>6. CASE ~(readPos > rest)
  <2>1. mReadPos' = readPos /\ UNCHANGED <<mBuffer, mWritePos>>
    BY <1>6 DEF updateReadPos
  <2>2. ASSUME NEW i \in readPos .. mWritePos - 1 PROVE mBuffer[i] = (given + len) + (i - readPos)
    BY <1>1, <1>2
  <2>3. mWritePos - readPos = taken - (given + len)
    BY <1>1, <1>2
  <2>4. ReadableInOrder'
    BY <2>1, <2>2, <2>3 DEF ReadableInOrder, readablebytes
  <2>5. TypeOK'
    <3>1. mBuffer' \in [0 .. mBufferSize' - 1 -> Nat]
      BY <1>1, <2>1
    <3>2. mReadPos' \in Nat /\ mWritePos' \in Nat
      BY <1>1, <1>2, <2>1
    <3>3. QED BY <1>3, <1>4, <3>1, <3>2 DEF TypeOK
  <2>6. PositionsInOrder' /\ (mReadPos <= readablebytes)' /\ mWritePos' <= mWritePos
    BY <1>1, <1>2, <1>6, <2>1 DEF PositionsInOrder, readablebytes
  <2>7. QED BY <1>3, <2>4, <2>5, <2>6 DEF BufferInv
<1>7. QED BY <1>5, <1>6

(* extract keeps the invariant.                                            *)
LEMMA ExtractIInv ==
    ASSUME IInv, NEW size \in Nat, extract(size)
    PROVE  IInv'
<1>1. BufferInv' /\ mWritePos' <= mWritePos
  <2>1. Available(size) \in 0 .. readablebytes
    BY AvailableBound DEF IInv
  <2>2. QED BY <2>1, TakeInv DEF IInv, extract
<1>2. mBufferSize' = mBufferSize
  BY DEF extract
<1>3. mWritePos' \in Nat /\ mWritePos \in Nat /\ mBufferSize \in Nat
  BY <1>1 DEF IInv, BufferInv, TypeOK
<1>4. QED BY <1>1, <1>2, <1>3 DEF IInv, RoomToRead

(* Every operation on the receive buffer keeps the invariant.              *)
LEMMA NextIInv == IInv /\ [RecvNext]_vars => IInv'
<1> SUFFICES ASSUME IInv, [RecvNext]_vars PROVE IInv'
  OBVIOUS
<1>1. ASSUME NEW res \in 1 .. StreamBound - taken, readFromSocket(res) PROVE IInv'
  <2>1. res \in Nat
    BY Bounds, SizeAssumption DEF IInv
  <2>2. QED BY <1>1, <2>1, ReadFromSocketIInv
<1>2. ASSUME NEW size \in 0 .. StreamBound, read(size) PROVE IInv'
  <2>1. Available(size) \in 0 .. readablebytes
    BY AvailableBound, SizeAssumption DEF IInv
  <2>2. ViewInOrder' /\ view' \in [from : Nat, bytes : Seq(Nat)]
    BY <1>2, <2>1, ViewProperties DEF read, ViewInOrder, IInv
  <2>3. UNCHANGED <<mBuffer, mBufferSize, mReadPos, mWritePos, appending, taken, given>>
    BY <1>2 DEF read
  <2>4. QED
    BY <2>2, <2>3 DEF IInv, BufferInv, TypeOK, PositionsInOrder, RoomToRead, ReadableInOrder,
                      readablebytes
<1>3. ASSUME NEW size \in 0 .. StreamBound, extract(size) PROVE IInv'
  BY <1>3, ExtractIInv, SizeAssumption
<1>4. CASE UNCHANGED vars
  BY <1>4 DEF IInv, BufferInv, TypeOK, PositionsInOrder, RoomToRead, ReadableInOrder, ViewInOrder,
              readablebytes, vars
<1>5. QED BY <1>1, <1>2, <1>3, <1>4 DEF RecvNext

(* The invariant holds throughout the life of a receive buffer.            *)
LEMMA RecvIInv == RecvSpec => []IInv
  BY InitIInv, NextIInv, PTL DEF RecvSpec

(* The members stay of their types: no position leaves the vector.         *)
THEOREM RecvTypeOK == RecvSpec => []TypeOK
<1>1. IInv => TypeOK
  BY DEF IInv, BufferInv
<1>2. QED BY <1>1, RecvIInv, PTL

(* readFromSocket never asks the socket for 0 bytes: a full buffer was     *)
(* doubled at once.                                                        *)
THEOREM RecvRoomToRead == RecvSpec => []RoomToRead
<1>1. IInv => RoomToRead
  BY DEF IInv
<1>2. QED BY <1>1, RecvIInv, PTL

(* The readable bytes are the stream's, in order.                          *)
THEOREM RecvReadableInOrder == RecvSpec => []ReadableInOrder
<1>1. IInv => ReadableInOrder
  BY DEF IInv, BufferInv
<1>2. QED BY <1>1, RecvIInv, PTL

(* What read and extract return is the stream, in order.                   *)
THEOREM RecvViewInOrder == RecvSpec => []ViewInOrder
<1>1. IInv => ViewInOrder
  BY DEF IInv, BufferInv
<1>2. QED BY <1>1, RecvIInv, PTL

(* updateReadPos's memcpy never has overlapping source and target.         *)
THEOREM RecvMoveDisjoint == RecvSpec => MoveDisjoint
<1>1. ASSUME IInv, [RecvNext]_vars
      PROVE  [mWritePos' < mWritePos => mWritePos' <= mWritePos - mWritePos']_vars
  <2>0. /\ mReadPos \in Nat /\ mWritePos \in Nat /\ mBufferSize \in Nat /\ mReadPos <= mWritePos
        /\ taken \in Nat /\ BufferInv
    BY <1>1, Bounds DEF IInv
  <2>1. ASSUME NEW res \in 1 .. StreamBound - taken, readFromSocket(res)
        PROVE  ~(mWritePos' < mWritePos)
    BY <2>0, <2>1, SizeAssumption DEF readFromSocket
  <2>2. ASSUME NEW size \in 0 .. StreamBound, extract(size)
        PROVE  mWritePos' < mWritePos => mWritePos' <= mWritePos - mWritePos'
    <3>1. Available(size) \in 0 .. readablebytes
      BY <2>0, AvailableBound, SizeAssumption
    <3>2. QED BY <2>0, <2>2, <3>1 DEF extract, updateReadPos, readablebytes
  <2>3. ASSUME NEW size \in 0 .. StreamBound, read(size) PROVE ~(mWritePos' < mWritePos)
    BY <2>0, <2>3 DEF read
  <2>4. QED BY <1>1, <2>1, <2>2, <2>3 DEF RecvNext
<1>2. QED BY <1>1, RecvIInv, PTL DEF RecvSpec, MoveDisjoint
-----------------------------------------------------------------------------
(***************************************************************************)
(* The send buffer.  appendToBuffer's loop resizes to twice the data's     *)
(* size, which cuts off content when more than that is still to be sent.   *)
(* An append fits when there is room for its data already, or when twice   *)
(* its size has room for it behind what was put in before.                 *)
(***************************************************************************)
AppendFits == appending' > appending => writablebytes >= appending' \/ mWritePos <= appending'

(* What keeps the loop from cutting off content until its memcpy is done.  *)
AppendInv == appending > 0 => writablebytes >= appending \/ mWritePos <= appending

SInv == BufferInv /\ AppendInv

(* writablebytes never exceeds the room behind mWritePos.                  *)
LEMMA WritableBound ==
    ASSUME BufferInv
    PROVE  writablebytes \in Nat /\ writablebytes <= mBufferSize - mWritePos
<1>1. \A x, m \in Nat : m > 0 => x % m \in Nat /\ x % m <= x
  OBVIOUS
<1>2. mBufferSize - mWritePos \in Nat
  BY Bounds
<1>3. 2 ^ Width \in Nat /\ 2 ^ Width > 0
  BY ModulusAssumption
<1>4. QED BY <1>1, <1>2, <1>3 DEF writablebytes

(* Growing the vector for an append that fits cuts nothing off.            *)
LEMMA GrowForAppendInv ==
    ASSUME SInv, GrowForAppend
    PROVE  SInv'
<1>1. /\ mReadPos \in Nat /\ mWritePos \in Nat /\ mBufferSize \in Nat /\ appending \in Nat
      /\ mReadPos <= mWritePos /\ mWritePos <= mBufferSize
      /\ mBuffer \in [0 .. mBufferSize - 1 -> Nat]
  BY Bounds DEF SInv, BufferInv, TypeOK
<1>2. /\ mBufferSize' = 2 * appending
      /\ mBuffer' = [i \in 0 .. 2 * appending - 1 |-> IF i < mBufferSize THEN mBuffer[i] ELSE 0]
      /\ UNCHANGED <<mReadPos, mWritePos, appending, taken, given, view>>
  BY DEF GrowForAppend, Resized
<1>3. appending > 0 /\ mWritePos <= appending
  <2>1. writablebytes \in Nat
    BY WritableBound DEF SInv
  <2>2. appending > 0 /\ ~(writablebytes >= appending)
    BY <1>1, <2>1 DEF GrowForAppend
  <2>3. QED BY <2>2 DEF SInv, AppendInv
<1>4. mBufferSize' \in Nat /\ mBuffer' \in [0 .. mBufferSize' - 1 -> Nat]
  <2>1. \A i \in 0 .. 2 * appending - 1 : (IF i < mBufferSize THEN mBuffer[i] ELSE 0) \in Nat
    BY <1>1
  <2>2. mBufferSize' \in Nat
    BY <1>1, <1>2
  <2>3. QED BY <1>2, <2>1, <2>2
<1>5. \A i \in mReadPos .. mWritePos - 1 : mBuffer'[i] = mBuffer[i]
  <2>1. \A i \in mReadPos .. mWritePos - 1 : i \in 0 .. 2 * appending - 1 /\ i < mBufferSize
    BY <1>1, <1>3
  <2>2. QED BY <1>2, <2>1
<1>6. ReadableInOrder'
  <2>1. readablebytes' = taken' - given'
    BY <1>2 DEF SInv, BufferInv, ReadableInOrder, readablebytes
  <2>2. \A i \in mReadPos .. mWritePos - 1 : mBuffer'[i] = given + (i - mReadPos)
    BY <1>5 DEF SInv, BufferInv, ReadableInOrder
  <2>3. QED BY <1>2, <2>1, <2>2 DEF ReadableInOrder
<1>7. TypeOK'
  BY <1>2, <1>4 DEF SInv, BufferInv, TypeOK
<1>8. ViewInOrder' /\ (mReadPos <= readablebytes)'
  BY <1>2 DEF SInv, BufferInv, ViewInOrder, readablebytes
<1>9. PositionsInOrder'
  BY <1>1, <1>2, <1>3 DEF PositionsInOrder
<1>10. AppendInv'
  BY <1>2, <1>3 DEF AppendInv
<1>11. QED BY <1>6, <1>7, <1>8, <1>9, <1>10 DEF SInv, BufferInv

(* The memcpy stays inside the vector.                                     *)
LEMMA CopyForAppendInv ==
    ASSUME SInv, CopyForAppend
    PROVE  SInv'
<1>1. /\ mReadPos \in Nat /\ mWritePos \in Nat /\ mBufferSize \in Nat /\ taken \in Nat
      /\ appending \in Nat /\ mBuffer \in [0 .. mBufferSize - 1 -> Nat]
  BY Bounds DEF SInv, BufferInv, TypeOK
<1>2. /\ mBuffer' = Filled(appending) /\ mWritePos' = mWritePos + appending
      /\ taken' = taken + appending /\ appending' = 0
      /\ UNCHANGED <<mBufferSize, mReadPos, given, view>>
  BY DEF CopyForAppend
<1>3. mWritePos + appending <= mBufferSize
  <2>1. writablebytes \in Nat /\ writablebytes <= mBufferSize - mWritePos
    BY WritableBound DEF SInv
  <2>2. writablebytes >= appending
    BY DEF CopyForAppend
  <2>3. QED BY <1>1, <2>1, <2>2
<1>4. Filled(appending) \in [0 .. mBufferSize - 1 -> Nat]
  BY <1>1 DEF Filled
<1>5. mBufferSize <= mBufferSize' /\ mBufferSize' \in Nat /\ appending' \in Nat
  BY <1>1, <1>2
<1>6. mBuffer' \in [0 .. mBufferSize' - 1 -> Nat]
  BY <1>2, <1>4
<1>7. BufferInv'
  BY <1>1, <1>2, <1>3, <1>5, <1>6, FillInv DEF SInv
<1>8. AppendInv'
  BY <1>2 DEF AppendInv
<1>9. QED BY <1>7, <1>8 DEF SInv

(* Every operation on the send buffer keeps the invariant, when the        *)
(* appends fit.                                                            *)
LEMMA SendNextInv == SInv /\ [SendNext /\ AppendFits]_vars => SInv'
<1> SUFFICES ASSUME SInv, [SendNext /\ AppendFits]_vars PROVE SInv'
  OBVIOUS
<1>1. ASSUME NEW n \in 1 .. StreamBound - taken, appendToBuffer(n), AppendFits PROVE SInv'
  <2>1. n \in Nat /\ n > 0
    BY Bounds, SizeAssumption DEF SInv
  <2>2. /\ appending = 0 /\ appending' = n
        /\ UNCHANGED <<mBuffer, mBufferSize, mReadPos, mWritePos, taken, given, view>>
    BY <1>1 DEF appendToBuffer
  <2>3. BufferInv'
    BY <2>1, <2>2 DEF SInv, BufferInv, TypeOK, PositionsInOrder, ReadableInOrder, ViewInOrder,
                      readablebytes
  <2>4. writablebytes >= appending' \/ mWritePos <= appending'
    BY <1>1, <2>1, <2>2 DEF AppendFits
  <2>5. writablebytes' = writablebytes /\ mWritePos' = mWritePos
    BY <2>2 DEF writablebytes
  <2>6. QED BY <2>3, <2>4, <2>5 DEF SInv, AppendInv
<1>2. CASE GrowForAppend
  BY <1>2, GrowForAppendInv
<1>3. CASE CopyForAppend
  BY <1>3, CopyForAppendInv
<1>4. ASSUME NEW res \in 1 .. StreamBound, writeToSocket(res) PROVE SInv'
  <2>1. res \in 0 .. readablebytes
    BY <1>4, Bounds DEF SInv, writeToSocket, readablebytes
  <2>2. BufferInv'
    BY <1>4, <2>1, TakeInv DEF SInv, writeToSocket
  <2>3. appending' = 0
    BY <1>4 DEF writeToSocket
  <2>4. QED BY <2>2, <2>3 DEF SInv, AppendInv
<1>5. CASE UNCHANGED vars
  BY <1>5 DEF SInv, AppendInv, BufferInv, TypeOK, PositionsInOrder, ReadableInOrder, ViewInOrder,
              readablebytes, writablebytes, vars
<1>6. QED BY <1>1, <1>2, <1>3, <1>4, <1>5 DEF SendNext

LEMMA SendInv == Init /\ [][SendNext /\ AppendFits]_vars => []SInv
<1>1. Init => SInv
  BY InitIInv DEF Init, IInv, SInv, AppendInv
<1>2. QED BY <1>1, SendNextInv, PTL

(* appendToBuffer and writeToSocket, TcpBuffer.cpp:89 and 78: as long as  *)
(* every append fits, no access leaves the vector, no content is cut off   *)
(* by the resize, and the bytes written to the socket are those appended,  *)
(* in order, through any number of partial writes, growths and moves.      *)
THEOREM SendInOrder ==
    Init /\ [][SendNext /\ AppendFits]_vars
        => [](PositionsInOrder /\ ReadableInOrder /\ ViewInOrder)
<1>1. SInv => PositionsInOrder /\ ReadableInOrder /\ ViewInOrder
  BY DEF SInv, BufferInv
<1>2. QED BY <1>1, SendInv, PTL

(* updateReadPos's memcpy has disjoint source and target in the send       *)
(* buffer too.                                                             *)
THEOREM SendMoveDisjoint == Init /\ [][SendNext /\ AppendFits]_vars => MoveDisjoint
<1>1. ASSUME SInv, [SendNext /\ AppendFits]_vars
      PROVE  [mWritePos' < mWritePos => mWritePos' <= mWritePos - mWritePos']_vars
  <2>0. /\ mReadPos \in Nat /\ mWritePos \in Nat /\ mReadPos <= mWritePos
        /\ appending \in Nat
    BY <1>1, Bounds DEF SInv
  <2>1. ASSUME NEW n \in 1 .. StreamBound - taken, appendToBuffer(n) PROVE ~(mWritePos' < mWritePos)
    BY <2>0, <2>1 DEF appendToBuffer
  <2>2. CASE GrowForAppend
    <3>1. mWritePos' = mWritePos
      BY <2>2 DEF GrowForAppend
    <3>2. QED BY <2>0, <3>1
  <2>3. CASE CopyForAppend
    <3>1. mWritePos' = mWritePos + appending
      BY <2>3 DEF CopyForAppend
    <3>2. QED BY <2>0, <3>1
  <2>4. ASSUME NEW res \in 1 .. StreamBound, writeToSocket(res)
        PROVE  mWritePos' < mWritePos => mWritePos' <= mWritePos - mWritePos'
    <3>1. res \in Nat /\ res <= mWritePos - mReadPos
      BY <2>0, <2>4 DEF writeToSocket, readablebytes
    <3>2. updateReadPos(res)
      BY <2>4 DEF writeToSocket
    <3>3. QED BY <2>0, <3>1, <3>2 DEF updateReadPos
  <2>5. QED BY <1>1, <2>1, <2>2, <2>3, <2>4 DEF SendNext
<1>2. QED BY <1>1, SendInv, PTL DEF MoveDisjoint

(* A user that appends only when everything before it was written, as the  *)
(* write-complete callback tells it (TcpConnection.cpp:121), need not know *)
(* the vector's size: updateReadPos leaves a drained buffer at its front,  *)
(* so every append fits.                                                   *)
THEOREM SendWhenDrained ==
    Init /\ [][SendNext /\ (appending' > appending => readablebytes = 0)]_vars
        => [](PositionsInOrder /\ ReadableInOrder /\ ViewInOrder)
<1>1. Init => SInv
  BY InitIInv DEF Init, IInv, SInv, AppendInv
<1>2. SInv /\ [SendNext /\ (appending' > appending => readablebytes = 0)]_vars
        => [SendNext /\ AppendFits]_vars
  <2> SUFFICES ASSUME SInv, SendNext, appending' > appending => readablebytes = 0
               PROVE  AppendFits
    BY Zenon
  <2>1. CASE appending' > appending
    <3>1. /\ mReadPos \in Nat /\ mWritePos \in Nat /\ appending \in Nat
          /\ mReadPos <= mWritePos - mReadPos
      BY Bounds DEF SInv
    <3>2. mWritePos - mReadPos = 0
      BY <2>1 DEF readablebytes
    <3>3. mWritePos = 0
      BY <3>1, <3>2
    <3>4. \E n \in 1 .. StreamBound - taken : appending' = n
      BY <2>1, <3>1
      DEF SendNext, appendToBuffer, GrowForAppend, CopyForAppend, writeToSocket
    <3>5. appending' > 0
      BY <3>4, Bounds, SizeAssumption DEF SInv
    <3>6. QED BY <3>3, <3>4, <3>5, Bounds, SizeAssumption DEF SInv, AppendFits
  <2>2. CASE ~(appending' > appending)
    BY <2>2 DEF AppendFits
  <2>3. QED BY <2>1, <2>2
<1>3. SInv => PositionsInOrder /\ ReadableInOrder /\ ViewInOrder
  BY DEF SInv, BufferInv
<1>4. QED BY <1>1, <1>2, <1>3, SendNextInv, PTL
=============================================================================
