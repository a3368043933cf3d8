------------------------------- MODULE Buffer -------------------------------
(***************************************************************************)
(* gg_lib::net::Buffer: a queue of bytes in a vector.  Readable bytes lie  *)
(* between readerIndex_ and writerIndex_; before them there is room to     *)
(* prepend, after them room to write.  makeSpace moves the readable bytes  *)
(* to the front of the vector or makes it longer.                          *)
(*                                                                         *)
(* buffer_[i + 1] is the byte at begin() + i.  The sizes of the code, 8,   *)
(* 1024 and 65536, are constants, and so is the number of values of a      *)
(* byte.                                                                   *)
(***************************************************************************)
EXTENDS Integers, Sequences

CONSTANTS
  kCheapPrepend,   \* room to prepend
  kInitialSize,    \* room to write in a new buffer
  ExtraSize,       \* sizeof extrabuf
  Base,            \* how many values a byte has
  Widths,          \* sizes of the integer types, in bytes
  MaxLength,       \* bound: bytes passed to a call
  MaxReadable      \* bound: bytes a buffer holds

ASSUME BufferAssumption ==
  /\ kCheapPrepend \in Nat \ {0}
  /\ kInitialSize \in Nat
  /\ ExtraSize \in Nat
  /\ Base \in Nat \ {0} /\ Base % 2 = 0
  /\ MaxLength \in Nat
  /\ Widths \subseteq 1..MaxLength
  /\ MaxReadable \in Nat

Byte == 0 .. Base - 1

\* What the calls are made with.
Data == UNION {[1..n -> Byte] : n \in 0..MaxLength}

VARIABLES
  b,               \* the members of the Buffer
  call,            \* the last call, for module ByteQueue
  prepended        \* bytes prepended and not read since

vars == <<b, call, prepended>>

readableBytes(c) == c.writerIndex_ - c.readerIndex_
writableBytes(c) == Len(c.buffer_) - c.writerIndex_
prependableBytes(c) == c.readerIndex_

\* n bytes from offset first.
Slice(c, first, n) == [i \in 1..n |-> c.buffer_[first + i]]

toStringView(c) == Slice(c, c.readerIndex_, readableBytes(c))

\* A buffer with room to write size bytes, all zero.
NewBuffer(size) ==
  [buffer_ |-> [i \in 1 .. kCheapPrepend + size |-> 0],
   readerIndex_ |-> kCheapPrepend,
   writerIndex_ |-> kCheapPrepend]

Init ==
  /\ b = NewBuffer(kInitialSize)
  /\ call = [op |-> "none", data |-> <<>>, int |-> 0]
  /\ prepended = 0

-----------------------------------------------------------------------------
(* The vector: what the calls make of buffer c.                            *)

\* std::copy of data to offset first of a vector that is long enough.
Copy(vector, first, data) ==
  [i \in 1..Len(vector) |->
     IF i \in first + 1 .. first + Len(data) THEN data[i - first] ELSE vector[i]]

\* vector::resize; new bytes are zero.
Resize(vector, size) ==
  [i \in 1..size |-> IF i <= Len(vector) THEN vector[i] ELSE 0]

\* Moving the readable bytes to the front would not make enough room.
NoRoom(c, len) == writableBytes(c) + prependableBytes(c) < len + kCheapPrepend

\* A faulty makeSpace that always makes the vector longer.
makeSpace_GrowOnly(c, len) == [c EXCEPT !.buffer_ = Resize(c.buffer_, c.writerIndex_ + len)]

\* The vector gets longer, if it must, and the readable bytes move to the front.
makeSpace(c, len) ==
  LET vector == IF NoRoom(c, len) THEN Resize(c.buffer_, c.writerIndex_ + len) ELSE c.buffer_ IN
  IF kCheapPrepend < c.readerIndex_
    THEN [buffer_ |-> Copy(vector, kCheapPrepend, toStringView(c)),
          readerIndex_ |-> kCheapPrepend,
          writerIndex_ |-> kCheapPrepend + readableBytes(c)]
    ELSE [c EXCEPT !.buffer_ = vector]

ensureWritableBytes(c, len) == IF writableBytes(c) < len THEN makeSpace(c, len) ELSE c

\* data is copied to beginWrite(), and writerIndex_ advanced.
hasWritten(c, data) ==
  [c EXCEPT !.buffer_ = Copy(c.buffer_, c.writerIndex_, data),
            !.writerIndex_ = c.writerIndex_ + Len(data)]

append(c, data) == hasWritten(ensureWritableBytes(c, Len(data)), data)

prepend(c, data) ==
  [c EXCEPT !.buffer_ = Copy(c.buffer_, c.readerIndex_ - Len(data), data),
            !.readerIndex_ = c.readerIndex_ - Len(data)]

\* A faulty retrieve that takes one byte left for none.
retrieve_TooEarly(c, n) ==
  IF n + 1 < readableBytes(c)
    THEN [c EXCEPT !.readerIndex_ = c.readerIndex_ + n]
    ELSE [c EXCEPT !.readerIndex_ = kCheapPrepend, !.writerIndex_ = kCheapPrepend]

\* Once nothing is readable both indices go back to the front.
retrieve(c, n) ==
  IF n < readableBytes(c)
    THEN [c EXCEPT !.readerIndex_ = c.readerIndex_ + n]
    ELSE [c EXCEPT !.readerIndex_ = kCheapPrepend, !.writerIndex_ = kCheapPrepend]

\* readv fills the writable bytes and then extrabuf, from where the rest is appended.
readFd(c, data) ==
  IF Len(data) <= writableBytes(c)
    THEN hasWritten(c, data)
    ELSE append(hasWritten(c, SubSeq(data, 1, writableBytes(c))),
                SubSeq(data, writableBytes(c) + 1, Len(data)))

\* The readable bytes go to a new buffer with room for reserve more.
shrink(c, reserve) ==
  append(ensureWritableBytes(NewBuffer(kInitialSize), readableBytes(c) + reserve), toStringView(c))

-----------------------------------------------------------------------------
(* Integers, in network byte order.                                        *)

\* How many values w bytes have.
Values(w) ==
  LET values[i \in 0..w] == IF i = 0 THEN 1 ELSE Base * values[i - 1]
  IN values[w]

\* The signed integers of w bytes.
Ints(w) == -(Values(w) \div 2) .. Values(w) \div 2 - 1

\* The bytes of x, the most significant first.
hostToNetwork(x, w) ==
  LET rest[i \in 0..w] == IF i = 0 THEN x % Values(w) ELSE rest[i - 1] \div Base
  IN [i \in 1..w |-> rest[w - i] % Base]

\* The signed integer whose bytes s are.
networkToHost(s) ==
  LET value[i \in 0..Len(s)] == IF i = 0 THEN 0 ELSE value[i - 1] * Base + s[i]
      unsigned == value[Len(s)]
  IN IF unsigned >= Values(Len(s)) \div 2 THEN unsigned - Values(Len(s)) ELSE unsigned

peekInt(c, w) == networkToHost(Slice(c, c.readerIndex_, w))

-----------------------------------------------------------------------------
(* The calls.  Their assertions are obligations of the caller: guards here *)
(* are these assertions and the bounds.                                    *)

\* reset(), for debugging only, leaves a vector without any byte; every other call
\* would then be out of bounds.
Usable == Len(b.buffer_) >= kCheapPrepend

\* What the call did, with which bytes, and for a call with an integer with which.
CalledWith(op, data, x) == call' = [op |-> op, data |-> data, int |-> x]

Called(op, data) == CalledWith(op, data, 0)

AppendBytes(data) ==
  /\ Usable
  /\ readableBytes(b) + Len(data) <= MaxReadable
  /\ b' = append(b, data)
  /\ Called("write", data)
  /\ UNCHANGED prepended

\* The caller makes room, writes at beginWrite() and says so.
EnsureWritable(len) ==
  /\ Usable
  /\ b' = ensureWritableBytes(b, len)
  /\ UNCHANGED <<call, prepended>>

HasWritten(data) ==
  /\ Usable
  /\ Len(data) <= writableBytes(b)
  /\ readableBytes(b) + Len(data) <= MaxReadable
  /\ b' = hasWritten(b, data)
  /\ Called("write", data)
  /\ UNCHANGED prepended

UnWrite(n) ==
  /\ Usable
  /\ n <= readableBytes(b)
  /\ b' = [b EXCEPT !.writerIndex_ = b.writerIndex_ - n]
  /\ Called("unwrite", Slice(b, b.writerIndex_ - n, n))
  /\ UNCHANGED prepended

\* What is not read stays in the socket; a read that fails changes nothing.
ReadFd(data) ==
  /\ Usable
  /\ Len(data) <= writableBytes(b) + (IF writableBytes(b) < ExtraSize THEN ExtraSize ELSE 0)
  /\ readableBytes(b) + Len(data) <= MaxReadable
  /\ b' = readFd(b, data)
  /\ Called("write", data)
  /\ UNCHANGED prepended

\* Prepended bytes that are left when n bytes are taken.
LeftOf(n) == IF n < prepended /\ n < readableBytes(b) THEN prepended - n ELSE 0

\* retrieve, and through it all the calls that take bytes from the front.
Retrieve(n) ==
  /\ Usable
  /\ n <= readableBytes(b)
  /\ b' = retrieve(b, n)
  /\ prepended' = LeftOf(n)
  /\ Called("read", Slice(b, b.readerIndex_, n))

Prepend(data) ==
  /\ Usable
  /\ Len(data) <= prependableBytes(b)
  /\ readableBytes(b) + Len(data) <= MaxReadable
  /\ b' = prepend(b, data)
  /\ prepended' = prepended + Len(data)
  /\ Called("prepend", data)

Shrink(reserve) ==
  /\ Usable
  /\ b' = shrink(b, reserve)
  /\ prepended' = 0
  /\ UNCHANGED call

Reset ==
  /\ Usable
  /\ b' = [buffer_ |-> <<>>, readerIndex_ |-> kCheapPrepend, writerIndex_ |-> kCheapPrepend]
  /\ prepended' = 0
  /\ Called("read", toStringView(b))

\* appendInt8 ... appendInt64, prependInt8 ... prependInt64.
AppendInt(x, w) ==
  LET data == hostToNetwork(x, w) IN
  /\ Usable
  /\ readableBytes(b) + w <= MaxReadable
  /\ b' = append(b, data)
  /\ CalledWith("writeInt", data, x)
  /\ UNCHANGED prepended

PrependInt(x, w) ==
  LET data == hostToNetwork(x, w) IN
  /\ Usable
  /\ w <= prependableBytes(b)
  /\ readableBytes(b) + w <= MaxReadable
  /\ b' = prepend(b, data)
  /\ prepended' = prepended + w
  /\ CalledWith("prependInt", data, x)

\* readInt8 ... readInt64: peek and retrieve.
ReadInt(w) ==
  /\ Usable
  /\ w <= readableBytes(b)
  /\ b' = retrieve(b, w)
  /\ prepended' = LeftOf(w)
  /\ CalledWith("readInt", Slice(b, b.readerIndex_, w), peekInt(b, w))

-----------------------------------------------------------------------------

Next ==
  \/ \E n \in 0..MaxLength : EnsureWritable(n) \/ Shrink(n)
  \/ \E n \in 0..MaxReadable : Retrieve(n) \/ UnWrite(n)
  \/ \E data \in Data : AppendBytes(data) \/ HasWritten(data) \/ ReadFd(data) \/ Prepend(data)
  \/ \E w \in Widths : ReadInt(w) \/ \E x \in Ints(w) : AppendInt(x, w) \/ PrependInt(x, w)
  \/ Reset

Spec == Init /\ [][Next]_vars

\* What the next step depends on: call is only written.
View == <<b, prepended>>

-----------------------------------------------------------------------------
(* Correctness.                                                            *)

Promised == INSTANCE ByteQueue WITH bytes <- toStringView(b)

\* However bytes are moved, the vector grows and data overflows into extrabuf, the
\* buffer is a queue of bytes: nothing is lost, repeated or overwritten, and an integer
\* is written as the bytes from which it is read again (Buffer.h:61-299).
ImplementsByteQueue == Promised!Spec

\* There is room to prepend kCheapPrepend bytes, less those that were prepended and
\* not read since.
PrependRoom == prependableBytes(b) + prepended >= kCheapPrepend

\* Space that was read is used again: the vector does not outgrow the room for the
\* fullest buffer and two more calls.
SpaceIsReused ==
  Len(b.buffer_) <= kCheapPrepend + kInitialSize + MaxReadable + 2 * MaxLength

\* Whatever the sequence of calls, makeSpace, retrieve and shrink keep the room at the
\* front that prepend relies on, and do not make the vector longer again and again for
\* bytes that were read long ago (Buffer.h:231-299).
RoomKept == PrependRoom /\ SpaceIsReused
=============================================================================
