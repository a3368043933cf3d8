---------------------------- MODULE InputProofs -----------------------------
(***************************************************************************)
(* Proofs about what becomes of bytes that were read: about Buffer, for    *)
(* all sizes, any number of values of a byte and any widths of integers,   *)
(* that it implements ByteQueue, keeps the room to prepend and uses again  *)
(* the space that was read; and about HttpServer, for any lines and pages, *)
(* that it answers the lines it gets as a whole, however they are cut.     *)
(***************************************************************************)
EXTENDS Buffer, HttpServer, SequenceTheorems, WellFoundedInduction, TLAPS

(***************************************************************************)
(* Sequences given by their elements.                                      *)
(***************************************************************************)

\* A function on 1..n is a sequence of n elements.
LEMMA FcnIsSeq ==
  ASSUME NEW S, NEW n \in Nat, NEW f \in [1..n -> S]
  PROVE  f \in Seq(S) /\ Len(f) = n
BY SeqDef

\* A sequence is put together of two when its elements are theirs.
LEMMA ConcatIs ==
  ASSUME NEW x \in Seq(Byte), NEW s \in Seq(Byte), NEW t \in Seq(Byte),
         Len(x) = Len(s) + Len(t),
         \A i \in 1..Len(s) : x[i] = s[i],
         \A i \in 1..Len(t) : x[Len(s) + i] = t[i]
  PROVE  x = s \o t
<1>1. /\ s \o t \in Seq(Byte)
      /\ Len(s \o t) = Len(x)
      /\ \A i \in 1 .. Len(s) + Len(t) : (s \o t)[i] = IF i <= Len(s) THEN s[i] ELSE t[i - Len(s)]
  BY ConcatProperties
<1>2. ASSUME NEW i \in 1..Len(x)
      PROVE  x[i] = (s \o t)[i]
  <2>1. CASE i <= Len(s)
    BY <1>1, <2>1
  <2>2. CASE ~(i <= Len(s))
    <3>1. i - Len(s) \in 1..Len(t) /\ Len(s) + (i - Len(s)) = i
      BY <2>2
    <3>2. x[i] = t[i - Len(s)]
      BY <3>1
    <3> QED BY <1>1, <2>2, <3>2
  <2> QED BY <2>1, <2>2
<1> QED BY <1>1, <1>2, SeqEqual

\* A buffer whose indices are in their places.
Good(c) ==
  /\ c \in [buffer_ : Seq(Byte), readerIndex_ : Nat, writerIndex_ : Nat]
  /\ c.readerIndex_ <= c.writerIndex_
  /\ c.writerIndex_ <= Len(c.buffer_)

\* Zero is a byte.
LEMMA ZeroIsByte == 0 \in Byte
BY BufferAssumption DEF Byte

\* n bytes of the vector.
LEMMA SliceType ==
  ASSUME NEW c, Good(c), NEW first \in Nat, NEW n \in Nat, first + n <= Len(c.buffer_)
  PROVE  /\ Slice(c, first, n) \in Seq(Byte)
         /\ Len(Slice(c, first, n)) = n
         /\ \A i \in 1..n : Slice(c, first, n)[i] = c.buffer_[first + i]
<1>1. c.buffer_ \in Seq(Byte)
  BY DEF Good
<1>2. \A i \in 1..n : c.buffer_[first + i] \in Byte
  BY <1>1
<1>3. Slice(c, first, n) \in [1..n -> Byte]
  BY <1>2 DEF Slice
<1> QED BY <1>3, FcnIsSeq DEF Slice

\* The readable bytes.
LEMMA ViewType ==
  ASSUME NEW c, Good(c)
  PROVE  /\ readableBytes(c) \in Nat /\ writableBytes(c) \in Nat /\ prependableBytes(c) \in Nat
         /\ toStringView(c) \in Seq(Byte)
         /\ Len(toStringView(c)) = readableBytes(c)
         /\ \A i \in 1 .. readableBytes(c) : toStringView(c)[i] = c.buffer_[c.readerIndex_ + i]
<1>1. readableBytes(c) \in Nat /\ writableBytes(c) \in Nat /\ prependableBytes(c) \in Nat
  BY DEF Good, readableBytes, writableBytes, prependableBytes
<1>2. c.readerIndex_ \in Nat /\ c.readerIndex_ + readableBytes(c) <= Len(c.buffer_)
  BY DEF Good, readableBytes
<1> QED BY <1>1, <1>2, SliceType DEF toStringView

\* Two buffers with as many readable bytes, the same ones, show the same.
LEMMA SameView ==
  ASSUME NEW c, Good(c), NEW d, Good(d), readableBytes(c) = readableBytes(d),
         \A i \in 1 .. readableBytes(c) :
           c.buffer_[c.readerIndex_ + i] = d.buffer_[d.readerIndex_ + i]
  PROVE  toStringView(c) = toStringView(d)
BY DEF toStringView, Slice

\* std::copy changes the bytes copied to and no others.
LEMMA CopyType ==
  ASSUME NEW vector \in Seq(Byte), NEW first \in Nat, NEW data \in Seq(Byte)
  PROVE  /\ Copy(vector, first, data) \in Seq(Byte)
         /\ Len(Copy(vector, first, data)) = Len(vector)
         /\ \A i \in 1..Len(vector) :
              Copy(vector, first, data)[i] =
                IF i \in first + 1 .. first + Len(data) THEN data[i - first] ELSE vector[i]
<1>1. \A i \in 1..Len(vector) :
        (IF i \in first + 1 .. first + Len(data) THEN data[i - first] ELSE vector[i]) \in Byte
  <2> SUFFICES ASSUME NEW i \in 1..Len(vector), i \in first + 1 .. first + Len(data)
               PROVE  data[i - first] \in Byte
    OBVIOUS
  <2>1. i - first \in 1..Len(data)
    OBVIOUS
  <2> QED BY <2>1
<1>2. Copy(vector, first, data) \in [1..Len(vector) -> Byte]
  BY <1>1 DEF Copy
<1> QED BY <1>2, FcnIsSeq DEF Copy

\* vector::resize keeps the bytes there is still room for.
LEMMA ResizeType ==
  ASSUME NEW vector \in Seq(Byte), NEW size \in Nat
  PROVE  /\ Resize(vector, size) \in Seq(Byte)
         /\ Len(Resize(vector, size)) = size
         /\ \A i \in 1..size : i <= Len(vector) => Resize(vector, size)[i] = vector[i]
<1>1. Resize(vector, size) \in [1..size -> Byte]
  BY ZeroIsByte DEF Resize
<1> QED BY <1>1, FcnIsSeq DEF Resize

(***************************************************************************)
(* What the calls do to a good buffer.                                     *)
(***************************************************************************)

\* Buffer d is c with data written behind the readable bytes, perhaps after room for len
\* bytes was made.
Follows(c, d, data, len) ==
  /\ Good(d)
  /\ toStringView(d) = toStringView(c) \o data
  /\ readableBytes(d) = readableBytes(c) + Len(data)
  /\ d.readerIndex_ \in {c.readerIndex_, kCheapPrepend}
  /\ Len(c.buffer_) <= Len(d.buffer_)
  /\ Len(c.buffer_) < Len(d.buffer_)
       => Len(d.buffer_) <= kCheapPrepend + readableBytes(c) + 2 * len

\* Bytes that fit are written behind the readable ones.
LEMMA HasWrittenDoes ==
  ASSUME NEW c, Good(c), NEW data \in Seq(Byte), Len(data) <= writableBytes(c)
  PROVE  /\ Follows(c, hasWritten(c, data), data, 0)
         /\ Len(hasWritten(c, data).buffer_) = Len(c.buffer_)
<1> DEFINE d == hasWritten(c, data)
<1>1. /\ c.buffer_ \in Seq(Byte) /\ c.readerIndex_ \in Nat /\ c.writerIndex_ \in Nat
      /\ c.readerIndex_ <= c.writerIndex_ /\ c.writerIndex_ + Len(data) <= Len(c.buffer_)
      /\ Len(data) \in Nat
  BY DEF Good, writableBytes
<1> DEFINE v == Copy(c.buffer_, c.writerIndex_, data)
<1>2. /\ v \in Seq(Byte)
      /\ Len(v) = Len(c.buffer_)
  BY <1>1, CopyType
<1>8. \A j \in 1..Len(c.buffer_) :
        v[j] = IF j \in c.writerIndex_ + 1 .. c.writerIndex_ + Len(data)
                 THEN data[j - c.writerIndex_] ELSE c.buffer_[j]
  BY <1>1, CopyType
<1> DEFINE e == c.writerIndex_ + Len(data)
<1>9. d = [c EXCEPT !.buffer_ = v, !.writerIndex_ = e]
  BY DEF hasWritten
<1>10. c \in [buffer_ : Seq(Byte), readerIndex_ : Nat, writerIndex_ : Nat] /\ e \in Nat
  BY <1>1 DEF Good
<1>11. e = c.writerIndex_ + Len(data)
  OBVIOUS
<1> HIDE DEF v, d, e
<1>12. /\ d.buffer_ = v /\ d.readerIndex_ = c.readerIndex_ /\ d.writerIndex_ = e
       /\ d \in [buffer_ : Seq(Byte), readerIndex_ : Nat, writerIndex_ : Nat]
  BY <1>2, <1>9, <1>10
<1>3. /\ d.buffer_ = v
      /\ d.readerIndex_ = c.readerIndex_
      /\ d.writerIndex_ = c.writerIndex_ + Len(data)
      /\ d \in [buffer_ : Seq(Byte), readerIndex_ : Nat, writerIndex_ : Nat]
  BY <1>11, <1>12
<1>4. Good(d) /\ readableBytes(d) = readableBytes(c) + Len(data)
  BY <1>1, <1>2, <1>3 DEF Good, readableBytes
<1>5. \A i \in 1 .. readableBytes(c) : toStringView(d)[i] = toStringView(c)[i]
  <2> SUFFICES ASSUME NEW i \in 1 .. readableBytes(c)
               PROVE  toStringView(d)[i] = toStringView(c)[i]
    OBVIOUS
  <2>1. /\ c.readerIndex_ + i \in 1 .. Len(c.buffer_)
        /\ c.readerIndex_ + i \notin c.writerIndex_ + 1 .. c.writerIndex_ + Len(data)
    BY <1>1 DEF readableBytes
  <2>2. d.buffer_[c.readerIndex_ + i] = c.buffer_[c.readerIndex_ + i]
    BY <1>1, <1>8, <1>3, <2>1
  <2>3. i \in 1 .. readableBytes(d)
    BY <1>1, <1>4, ViewType
  <2> QED BY <1>3, <1>4, <2>2, <2>3, ViewType
<1>6. \A i \in 1 .. Len(data) : toStringView(d)[readableBytes(c) + i] = data[i]
  <2> SUFFICES ASSUME NEW i \in 1 .. Len(data)
               PROVE  toStringView(d)[readableBytes(c) + i] = data[i]
    OBVIOUS
  <2>1. readableBytes(c) + i \in 1 .. readableBytes(d)
    BY <1>1, <1>4, ViewType
  <2>2. /\ c.readerIndex_ + (readableBytes(c) + i) = c.writerIndex_ + i
        /\ c.writerIndex_ + i \in 1 .. Len(c.buffer_)
        /\ c.writerIndex_ + i \in c.writerIndex_ + 1 .. c.writerIndex_ + Len(data)
        /\ (c.writerIndex_ + i) - c.writerIndex_ = i
    BY <1>1 DEF readableBytes
  <2>3. d.buffer_[c.writerIndex_ + i] = data[i]
    BY <1>8, <1>3, <2>2
  <2>4. toStringView(d)[readableBytes(c) + i] = d.buffer_[d.readerIndex_ + (readableBytes(c) + i)]
    BY <1>4, <2>1, ViewType
  <2> QED BY <1>3, <2>2, <2>3, <2>4
<1>7. toStringView(d) = toStringView(c) \o data
  <2>1. /\ toStringView(c) \in Seq(Byte) /\ toStringView(d) \in Seq(Byte)
        /\ Len(toStringView(c)) = readableBytes(c) /\ readableBytes(c) \in Nat
        /\ Len(toStringView(d)) = readableBytes(c) + Len(data)
    BY <1>4, ViewType
  <2> DEFINE u == toStringView(c)  w == toStringView(d)
  <2>2. /\ u \in Seq(Byte) /\ w \in Seq(Byte) /\ Len(w) = Len(u) + Len(data)
        /\ \A i \in 1..Len(u) : w[i] = u[i]
        /\ \A i \in 1..Len(data) : w[Len(u) + i] = data[i]
    BY <2>1, <1>5, <1>6
  <2> HIDE DEF u, w
  <2>3. w = u \o data
    BY <2>2, ConcatIs
  <2> QED BY <2>3 DEF u, w
<1>13. Follows(c, d, data, 0) /\ Len(d.buffer_) = Len(c.buffer_)
  BY <1>1, <1>2, <1>3, <1>4, <1>7 DEF Follows
<1> QED BY <1>13 DEF d

\* The buffer shows sequence s if its readable bytes are those of s.
LEMMA ViewIs ==
  ASSUME NEW d, Good(d), NEW s \in Seq(Byte), Len(s) = readableBytes(d),
         \A i \in 1 .. Len(s) : d.buffer_[d.readerIndex_ + i] = s[i]
  PROVE  toStringView(d) = s
<1>1. /\ toStringView(d) \in Seq(Byte) /\ Len(toStringView(d)) = Len(s)
      /\ \A i \in 1 .. Len(s) : toStringView(d)[i] = s[i]
  BY ViewType
<1> QED BY <1>1, SeqEqual

\* makeSpace, called when there is not enough room, makes it and keeps what is readable.
LEMMA MakeSpaceDoes ==
  ASSUME NEW c, Good(c), NEW len \in Nat, writableBytes(c) < len, kCheapPrepend <= Len(c.buffer_)
  PROVE  /\ Follows(c, makeSpace(c, len), <<>>, len)
         /\ len <= writableBytes(makeSpace(c, len))
         /\ Len(makeSpace(c, len).buffer_) \in {Len(c.buffer_), c.writerIndex_ + len}
<1> DEFINE r == c.readerIndex_  w == c.writerIndex_  u == toStringView(c)  n == Len(c.buffer_)
           long == Resize(c.buffer_, w + len)
           vector == IF NoRoom(c, len) THEN long ELSE c.buffer_
           moved == Copy(vector, kCheapPrepend, u)
           d == makeSpace(c, len)
<1>1. /\ c \in [buffer_ : Seq(Byte), readerIndex_ : Nat, writerIndex_ : Nat]
      /\ c.buffer_ \in Seq(Byte) /\ n \in Nat /\ r \in Nat /\ w \in Nat /\ r <= w /\ w <= n
      /\ kCheapPrepend \in Nat
      /\ readableBytes(c) = w - r /\ writableBytes(c) = n - w /\ prependableBytes(c) = r
  BY BufferAssumption DEF Good, readableBytes, writableBytes, prependableBytes
<1>2. u \in Seq(Byte) /\ Len(u) = w - r /\ \A i \in 1 .. w - r : u[i] = c.buffer_[r + i]
  BY <1>1, ViewType
<1>3. long \in Seq(Byte) /\ Len(long) = w + len /\ n < w + len
      /\ \A i \in 1..n : long[i] = c.buffer_[i]
  <2>1. w + len \in Nat /\ n < w + len
    BY <1>1
  <2>2. /\ long \in Seq(Byte) /\ Len(long) = w + len
        /\ \A i \in 1 .. w + len : i <= n => long[i] = c.buffer_[i]
    BY <1>1, <2>1, ResizeType
  <2> HIDE DEF long, n, w
  <2> QED BY <1>1, <2>1, <2>2
<1>4. NoRoom(c, len) <=> n - w + r < len + kCheapPrepend
  BY <1>1 DEF NoRoom
<1>5. vector \in Seq(Byte) /\ n <= Len(vector) /\ \A i \in 1..n : vector[i] = c.buffer_[i]
  BY <1>1, <1>3
<1>6. Len(vector) = IF NoRoom(c, len) THEN w + len ELSE n
  BY <1>3
<1> HIDE DEF vector
<1>7. moved \in Seq(Byte) /\ Len(moved) = Len(vector)
  BY <1>1, <1>2, <1>5, CopyType
<1>8. \A j \in 1..Len(vector) :
        moved[j] = IF j \in kCheapPrepend + 1 .. kCheapPrepend + Len(u)
                     THEN u[j - kCheapPrepend] ELSE vector[j]
  BY <1>1, <1>2, <1>5, CopyType
<1>9. d = IF kCheapPrepend < r
            THEN [buffer_ |-> moved, readerIndex_ |-> kCheapPrepend,
                  writerIndex_ |-> kCheapPrepend + readableBytes(c)]
            ELSE [c EXCEPT !.buffer_ = vector]
  BY DEF makeSpace, vector
<1>12. r = c.readerIndex_ /\ w = c.writerIndex_ /\ n = Len(c.buffer_)
  OBVIOUS
<1> HIDE DEF r, w, u, n, long, moved, d
<1>13. ASSUME Good(d), readableBytes(d) = w - r, toStringView(d) = u, len <= writableBytes(d),
              d.readerIndex_ \in {r, kCheapPrepend}, Len(d.buffer_) = Len(vector)
       PROVE  /\ Follows(c, d, <<>>, len) /\ len <= writableBytes(d)
              /\ Len(d.buffer_) \in {Len(c.buffer_), c.writerIndex_ + len}
  <2>1. u = u \o <<>>
    BY <1>2, ConcatEmptySeq
  <2>2. Len(<<>>) = 0 /\ readableBytes(c) = w - r /\ w - r = (w - r) + 0
    BY <1>1
  <2>3. n < Len(vector) => Len(vector) <= kCheapPrepend + (w - r) + 2 * len
    BY <1>1, <1>4, <1>6
  <2> QED BY <1>1, <1>5, <1>6, <1>12, <1>13, <2>1, <2>2, <2>3 DEF Follows, u
<1>10. CASE kCheapPrepend < r
  <2>1. /\ d.buffer_ = moved /\ d.readerIndex_ = kCheapPrepend
        /\ d.writerIndex_ = kCheapPrepend + (w - r)
        /\ d \in [buffer_ : Seq(Byte), readerIndex_ : Nat, writerIndex_ : Nat]
    BY <1>1, <1>7, <1>9, <1>10
  <2>5. /\ kCheapPrepend + (w - r) + len <= Len(moved)
        /\ (kCheapPrepend + (w - r)) - kCheapPrepend = w - r /\ Len(moved) \in Nat
    BY <1>1, <1>4, <1>5, <1>6, <1>7, <1>10
  <2>2. Good(d) /\ readableBytes(d) = w - r /\ len <= writableBytes(d)
    BY <1>1, <1>10, <2>1, <2>5 DEF Good, readableBytes, writableBytes
  <2>3. \A i \in 1 .. Len(u) : d.buffer_[d.readerIndex_ + i] = u[i]
    <3> SUFFICES ASSUME NEW i \in 1 .. Len(u)
                 PROVE  d.buffer_[d.readerIndex_ + i] = u[i]
      OBVIOUS
    <3>1. /\ kCheapPrepend + i \in 1..Len(vector)
          /\ kCheapPrepend + i \in kCheapPrepend + 1 .. kCheapPrepend + Len(u)
          /\ (kCheapPrepend + i) - kCheapPrepend = i
      BY <1>1, <1>2, <1>5, <1>10
    <3> QED BY <1>8, <2>1, <3>1
  <2>4. toStringView(d) = u
    BY <1>2, <2>2, <2>3, ViewIs
  <2> QED BY <1>7, <1>13, <2>1, <2>2, <2>4 DEF d
<1>11. CASE ~(kCheapPrepend < r)
  <2>1. /\ d.buffer_ = vector /\ d.readerIndex_ = r /\ d.writerIndex_ = w
        /\ d \in [buffer_ : Seq(Byte), readerIndex_ : Nat, writerIndex_ : Nat]
    BY <1>1, <1>5, <1>9, <1>11 DEF r, w
  <2>5. w + len <= Len(vector) /\ Len(vector) \in Nat
    BY <1>1, <1>4, <1>5, <1>6, <1>11
  <2>2. Good(d) /\ readableBytes(d) = w - r /\ len <= writableBytes(d)
    BY <1>1, <2>1, <2>5 DEF Good, readableBytes, writableBytes
  <2>3. \A i \in 1 .. Len(u) : d.buffer_[d.readerIndex_ + i] = u[i]
    <3> SUFFICES ASSUME NEW i \in 1 .. Len(u)
                 PROVE  d.buffer_[d.readerIndex_ + i] = u[i]
      OBVIOUS
    <3>1. r + i \in 1..n /\ i \in 1 .. w - r
      BY <1>1, <1>2
    <3> QED BY <1>2, <1>5, <2>1, <3>1
  <2>4. toStringView(d) = u
    BY <1>2, <2>2, <2>3, ViewIs
  <2> QED BY <1>13, <2>1, <2>2, <2>4 DEF d
<1> QED BY <1>10, <1>11

\* ensureWritableBytes leaves room for len bytes.
LEMMA EnsureDoes ==
  ASSUME NEW c, Good(c), NEW len \in Nat, kCheapPrepend <= Len(c.buffer_)
  PROVE  /\ Follows(c, ensureWritableBytes(c, len), <<>>, len)
         /\ len <= writableBytes(ensureWritableBytes(c, len))
         /\ Len(ensureWritableBytes(c, len).buffer_) \in {Len(c.buffer_), c.writerIndex_ + len}
<1>1. CASE writableBytes(c) < len
  BY <1>1, MakeSpaceDoes DEF ensureWritableBytes
<1>2. CASE ~(writableBytes(c) < len)
  <2>1. ensureWritableBytes(c, len) = c
    BY <1>2 DEF ensureWritableBytes
  <2>2. toStringView(c) = toStringView(c) \o <<>>
    BY ViewType, ConcatEmptySeq
  <2>3. writableBytes(c) \in Nat /\ readableBytes(c) = readableBytes(c) + Len(<<>>)
        /\ Len(c.buffer_) \in Nat
    BY ViewType DEF Good
  <2> QED BY <1>2, <2>1, <2>2, <2>3 DEF Follows
<1> QED BY <1>1, <1>2

\* append adds data, whatever room there was.
LEMMA AppendDoes ==
  ASSUME NEW c, Good(c), NEW data \in Seq(Byte), kCheapPrepend <= Len(c.buffer_)
  PROVE  Follows(c, append(c, data), data, Len(data))
<1> DEFINE d == ensureWritableBytes(c, Len(data))  e == hasWritten(d, data)
<1>1. Len(data) \in Nat
  OBVIOUS
<1>2. Follows(c, d, <<>>, Len(data)) /\ Len(data) <= writableBytes(d)
  BY <1>1, EnsureDoes
<1>3. Follows(d, e, data, 0) /\ Len(e.buffer_) = Len(d.buffer_)
  BY <1>2, HasWrittenDoes DEF Follows
<1>4. append(c, data) = e
  BY DEF append
<1> HIDE DEF d, e
<1>5. toStringView(d) = toStringView(c)
  BY <1>2, ViewType, ConcatEmptySeq DEF Follows
<1>6. readableBytes(d) = readableBytes(c)
  BY <1>2, ViewType DEF Follows
<1> QED BY <1>2, <1>3, <1>4, <1>5, <1>6 DEF Follows

\* readFd adds what readv read, from the writable bytes and from extrabuf.
LEMMA ReadFdDoes ==
  ASSUME NEW c, Good(c), NEW data \in Seq(Byte), kCheapPrepend <= Len(c.buffer_)
  PROVE  Follows(c, readFd(c, data), data, Len(data))
<1> DEFINE k == writableBytes(c)  s == SubSeq(data, 1, k)  t == SubSeq(data, k + 1, Len(data))
           d == hasWritten(c, s)  e == append(d, t)
<1>1. k \in Nat /\ Len(data) \in Nat
  BY ViewType
<1>2. CASE Len(data) <= k
  <2>1. Follows(c, hasWritten(c, data), data, 0)
        /\ Len(hasWritten(c, data).buffer_) = Len(c.buffer_)
    BY <1>2, HasWrittenDoes
  <2>2. readFd(c, data) = hasWritten(c, data)
    BY <1>2 DEF readFd
  <2> HIDE DEF k
  <2>3. Len(c.buffer_) \in Nat
    BY DEF Good
  <2> QED BY <2>1, <2>2, <2>3 DEF Follows
<1>3. CASE ~(Len(data) <= k)
  <2> HIDE DEF k
  <2>1. /\ s \in Seq(Byte) /\ t \in Seq(Byte) /\ Len(s) = k /\ Len(t) = Len(data) - k
    BY <1>1, <1>3
  <2>2. s \o t = data
    <3>1. /\ 1 \in 1 .. Len(data) + 1 /\ k \in 1 - 1 .. Len(data)
          /\ Len(data) \in k .. Len(data)
      BY <1>1, <1>3
    <3>2. s \o t = SubSeq(data, 1, Len(data))
      BY <3>1, ConcatAdjacentSubSeq
    <3> QED BY <3>2, SubSeqFull
  <2> HIDE DEF s, t
  <2>3. Follows(c, d, s, 0) /\ Len(d.buffer_) = Len(c.buffer_)
    BY <1>1, <2>1, HasWrittenDoes DEF k
  <2>4. Follows(d, e, t, Len(t))
    BY <2>1, <2>3, AppendDoes DEF Follows
  <2>5. readFd(c, data) = e
    BY <1>3 DEF readFd, k, s, t
  <2> HIDE DEF d, e
  <2>6. toStringView(e) = toStringView(c) \o data
    <3>1. toStringView(e) = (toStringView(c) \o s) \o t
      BY <2>3, <2>4 DEF Follows
    <3>2. toStringView(c) \in Seq(Byte) /\ s \in Seq(Byte) /\ t \in Seq(Byte)
      BY <2>1, ViewType
    <3>3. (toStringView(c) \o s) \o t = toStringView(c) \o (s \o t)
      BY <3>2, ConcatAssociative
    <3> QED BY <2>2, <3>1, <3>3
  <2>7. /\ readableBytes(c) \in Nat /\ Len(c.buffer_) \in Nat /\ Len(e.buffer_) \in Nat
        /\ kCheapPrepend \in Nat
    <3>1. Good(e)
      BY <2>4 DEF Follows
    <3>2. readableBytes(c) \in Nat
      BY ViewType
    <3>3. c.buffer_ \in Seq(Byte) /\ e.buffer_ \in Seq(Byte)
      BY <3>1 DEF Good
    <3> QED BY <3>2, <3>3, LenProperties, BufferAssumption
  <2>8. /\ Good(e) /\ readableBytes(d) = readableBytes(c) + k
        /\ readableBytes(e) = readableBytes(d) + Len(t)
        /\ d.readerIndex_ \in {c.readerIndex_, kCheapPrepend}
        /\ e.readerIndex_ \in {d.readerIndex_, kCheapPrepend}
        /\ Len(d.buffer_) <= Len(e.buffer_)
        /\ Len(d.buffer_) < Len(e.buffer_)
             => Len(e.buffer_) <= kCheapPrepend + readableBytes(d) + 2 * Len(t)
    BY <2>1, <2>3, <2>4 DEF Follows
  <2>11. Len(c.buffer_) < Len(e.buffer_)
           => Len(e.buffer_) <= kCheapPrepend + readableBytes(c) + 2 * Len(data)
    BY <1>1, <1>3, <2>1, <2>3, <2>7, <2>8
  <2>12. readableBytes(e) = readableBytes(c) + Len(data)
    BY <1>1, <1>3, <2>1, <2>7, <2>8
  <2> QED BY <2>3, <2>5, <2>6, <2>8, <2>11, <2>12 DEF Follows
<1> QED BY <1>2, <1>3

\* A new buffer is empty.
LEMMA NewBufferDoes ==
  ASSUME NEW size \in Nat
  PROVE  /\ Good(NewBuffer(size))
         /\ toStringView(NewBuffer(size)) = <<>>
         /\ readableBytes(NewBuffer(size)) = 0
         /\ NewBuffer(size).readerIndex_ = kCheapPrepend
         /\ Len(NewBuffer(size).buffer_) = kCheapPrepend + size
         /\ writableBytes(NewBuffer(size)) = size
<1> DEFINE v == [i \in 1 .. kCheapPrepend + size |-> 0]  d == NewBuffer(size)
<1>1. kCheapPrepend \in Nat /\ kCheapPrepend + size \in Nat
  BY BufferAssumption
<1>2. v \in Seq(Byte) /\ Len(v) = kCheapPrepend + size
  <2>1. v \in [1 .. kCheapPrepend + size -> Byte]
    BY ZeroIsByte
  <2> QED BY <1>1, <2>1, FcnIsSeq
<1>3. d = [buffer_ |-> v, readerIndex_ |-> kCheapPrepend, writerIndex_ |-> kCheapPrepend]
  BY DEF NewBuffer
<1> HIDE DEF v, d
<1>4. d.buffer_ = v /\ d.readerIndex_ = kCheapPrepend /\ d.writerIndex_ = kCheapPrepend
  BY <1>3
<1>5. Good(d) /\ readableBytes(d) = 0 /\ writableBytes(d) = size
  BY <1>1, <1>2, <1>3, <1>4 DEF Good, readableBytes, writableBytes
<1>6. toStringView(d) = <<>>
  BY <1>5, ViewType, EmptySeq
<1> QED BY <1>2, <1>4, <1>5, <1>6 DEF d

\* shrink keeps the readable bytes, with all the room to prepend.
LEMMA ShrinkDoes ==
  ASSUME NEW c, Good(c), NEW reserve \in Nat
  PROVE  /\ Good(shrink(c, reserve))
         /\ toStringView(shrink(c, reserve)) = toStringView(c)
         /\ readableBytes(shrink(c, reserve)) = readableBytes(c)
         /\ shrink(c, reserve).readerIndex_ = kCheapPrepend
         /\ kCheapPrepend <= Len(shrink(c, reserve).buffer_)
         /\ \/ Len(shrink(c, reserve).buffer_) <= kCheapPrepend + kInitialSize
            \/ Len(shrink(c, reserve).buffer_) <= kCheapPrepend + readableBytes(c) + reserve
<1> DEFINE new == NewBuffer(kInitialSize)  u == toStringView(c)  len == readableBytes(c) + reserve
           d == ensureWritableBytes(new, len)  e == append(d, u)
<1>1. u \in Seq(Byte) /\ Len(u) = readableBytes(c) /\ readableBytes(c) \in Nat /\ len \in Nat
  BY ViewType
<1>2. kInitialSize \in Nat /\ kCheapPrepend \in Nat
  BY BufferAssumption
<1>3. /\ Good(new) /\ toStringView(new) = <<>> /\ readableBytes(new) = 0
      /\ new.readerIndex_ = kCheapPrepend /\ Len(new.buffer_) = kCheapPrepend + kInitialSize
      /\ writableBytes(new) = kInitialSize
  BY <1>2, NewBufferDoes
<1>4. Follows(new, d, <<>>, len) /\ len <= writableBytes(d)
  BY <1>1, <1>2, <1>3, EnsureDoes
<1> HIDE DEF new, len, d, u
<1>5. /\ Good(d) /\ toStringView(d) = <<>> /\ readableBytes(d) = 0 /\ d.readerIndex_ = kCheapPrepend
      /\ Len(new.buffer_) <= Len(d.buffer_)
  <2>1. Good(d) /\ toStringView(d) = <<>> \o <<>> /\ readableBytes(d) = 0 + Len(<<>>)
    BY <1>3, <1>4 DEF Follows
  <2> QED BY <1>3, <1>4, <2>1, EmptySeq, ConcatEmptySeq DEF Follows
<1>6. \/ Len(d.buffer_) <= kCheapPrepend + kInitialSize
      \/ Len(d.buffer_) <= kCheapPrepend + readableBytes(c) + reserve
  <2>1. Len(d.buffer_) \in {Len(new.buffer_), new.writerIndex_ + len}
    BY <1>1, <1>2, <1>3, EnsureDoes DEF d
  <2>2. new.writerIndex_ = kCheapPrepend
    BY <1>2, <1>3 DEF readableBytes, new, NewBuffer
  <2> QED BY <1>1, <1>2, <1>3, <2>1, <2>2 DEF len
<1>7. Len(u) <= writableBytes(d) /\ Len(u) \in Nat /\ writableBytes(d) \in Nat
  BY <1>1, <1>4, <1>5, ViewType DEF len
<1>8. e = hasWritten(d, u)
  BY <1>7 DEF append, ensureWritableBytes
<1> HIDE DEF e
<1>9. Follows(d, e, u, 0) /\ Len(e.buffer_) = Len(d.buffer_)
  BY <1>1, <1>5, <1>7, <1>8, HasWrittenDoes
<1>10. Good(e) /\ toStringView(e) = u /\ readableBytes(e) = readableBytes(c)
       /\ e.readerIndex_ = kCheapPrepend
  <2>1. Good(e) /\ toStringView(e) = <<>> \o u /\ readableBytes(e) = 0 + Len(u)
        /\ e.readerIndex_ = kCheapPrepend
    BY <1>5, <1>9 DEF Follows
  <2> QED BY <1>1, <2>1, ConcatEmptySeq
<1>11. shrink(c, reserve) = e
  BY DEF shrink, new, u, len, d, e
<1>12. kCheapPrepend <= Len(e.buffer_)
  <2>1. d.buffer_ \in Seq(Byte)
    BY <1>5 DEF Good
  <2> QED BY <1>2, <1>3, <1>5, <1>9, <2>1
<1> QED BY <1>6, <1>9, <1>10, <1>11, <1>12 DEF u

\* retrieve takes the first n readable bytes.
LEMMA RetrieveDoes ==
  ASSUME NEW c, Good(c), NEW n \in 0..readableBytes(c), kCheapPrepend <= Len(c.buffer_)
  PROVE  /\ Good(retrieve(c, n))
         /\ toStringView(c) = Slice(c, c.readerIndex_, n) \o toStringView(retrieve(c, n))
         /\ readableBytes(retrieve(c, n)) = readableBytes(c) - n
         /\ Len(retrieve(c, n).buffer_) = Len(c.buffer_)
         /\ retrieve(c, n).readerIndex_ =
              IF n < readableBytes(c) THEN c.readerIndex_ + n ELSE kCheapPrepend
<1> DEFINE r == c.readerIndex_  w == c.writerIndex_  u == toStringView(c)
           s == Slice(c, r, n)  d == retrieve(c, n)  t == toStringView(d)
<1>0. /\ c \in [buffer_ : Seq(Byte), readerIndex_ : Nat, writerIndex_ : Nat]
      /\ r \in Nat /\ w \in Nat /\ r <= w /\ w <= Len(c.buffer_) /\ Len(c.buffer_) \in Nat
      /\ readableBytes(c) = w - r
  BY DEF Good, readableBytes
<1>1. /\ c \in [buffer_ : Seq(Byte), readerIndex_ : Nat, writerIndex_ : Nat]
      /\ r \in Nat /\ w \in Nat /\ r <= w /\ w <= Len(c.buffer_) /\ Len(c.buffer_) \in Nat
      /\ n \in Nat /\ n <= w - r /\ readableBytes(c) = w - r /\ kCheapPrepend \in Nat
  BY <1>0, BufferAssumption
<1>2. u \in Seq(Byte) /\ Len(u) = w - r /\ \A i \in 1 .. w - r : u[i] = c.buffer_[r + i]
  BY <1>1, ViewType
<1>3. s \in Seq(Byte) /\ Len(s) = n /\ \A i \in 1..n : s[i] = c.buffer_[r + i]
  <2>1. r \in Nat /\ n \in Nat /\ r + n <= Len(c.buffer_)
    BY <1>1
  <2> QED BY <2>1, SliceType
<1>4. d = IF n < readableBytes(c)
            THEN [c EXCEPT !.readerIndex_ = r + n]
            ELSE [c EXCEPT !.readerIndex_ = kCheapPrepend, !.writerIndex_ = kCheapPrepend]
  BY DEF retrieve
<1>5. r = c.readerIndex_ /\ w = c.writerIndex_
  OBVIOUS
<1> HIDE DEF r, w, u, s, d
<1>6. CASE n < readableBytes(c)
  <2>1. d.buffer_ = c.buffer_ /\ d.readerIndex_ = r + n /\ d.writerIndex_ = w
        /\ d \in [buffer_ : Seq(Byte), readerIndex_ : Nat, writerIndex_ : Nat]
    BY <1>1, <1>4, <1>5, <1>6
  <2>2. Good(d) /\ readableBytes(d) = (w - r) - n
    BY <1>1, <1>6, <2>1 DEF Good, readableBytes
  <2>3. /\ t \in Seq(Byte) /\ Len(t) = (w - r) - n
        /\ \A i \in 1 .. (w - r) - n : t[i] = c.buffer_[(r + n) + i]
    BY <2>1, <2>2, ViewType
  <2> HIDE DEF t
  <2>4. u = s \o t
    <3>1. ASSUME NEW i \in 1..Len(s) PROVE u[i] = s[i]
      <4>1. i \in 1..n /\ i \in 1 .. w - r
        BY <1>1, <1>3
      <4> QED BY <1>2, <1>3, <4>1
    <3>2. ASSUME NEW i \in 1..Len(t) PROVE u[Len(s) + i] = t[i]
      <4>1. n + i \in 1 .. w - r /\ r + (n + i) = (r + n) + i /\ i \in 1 .. (w - r) - n
        BY <1>1, <2>3
      <4> QED BY <1>2, <1>3, <2>3, <4>1
    <3>3. Len(u) = Len(s) + Len(t)
      BY <1>1, <1>2, <1>3, <2>3
    <3> QED BY <1>2, <1>3, <2>3, <3>1, <3>2, <3>3, ConcatIs
  <2> QED BY <1>1, <1>5, <1>6, <2>1, <2>2, <2>4 DEF d, s, t, u
<1>7. CASE ~(n < readableBytes(c))
  <2>1. d.buffer_ = c.buffer_ /\ d.readerIndex_ = kCheapPrepend /\ d.writerIndex_ = kCheapPrepend
        /\ d \in [buffer_ : Seq(Byte), readerIndex_ : Nat, writerIndex_ : Nat]
    BY <1>1, <1>4, <1>7
  <2>2. Good(d) /\ readableBytes(d) = 0 /\ n = w - r
    BY <1>1, <1>7, <2>1 DEF Good, readableBytes
  <2>3. t = <<>>
    BY <2>2, ViewType, EmptySeq
  <2>4. u = s
    <3>1. Len(u) = Len(s) /\ \A i \in 1..Len(u) : u[i] = s[i]
      BY <1>2, <1>3, <2>2
    <3> QED BY <1>2, <1>3, <3>1, SeqEqual
  <2>5. u = s \o t
    BY <1>3, <2>3, <2>4, ConcatEmptySeq
  <2> QED BY <1>1, <1>5, <1>7, <2>1, <2>2, <2>5 DEF d, s, u
<1> QED BY <1>6, <1>7

\* prepend puts data in front of the readable bytes.
LEMMA PrependDoes ==
  ASSUME NEW c, Good(c), NEW data \in Seq(Byte), Len(data) <= prependableBytes(c)
  PROVE  /\ Good(prepend(c, data))
         /\ toStringView(prepend(c, data)) = data \o toStringView(c)
         /\ readableBytes(prepend(c, data)) = readableBytes(c) + Len(data)
         /\ Len(prepend(c, data).buffer_) = Len(c.buffer_)
         /\ prepend(c, data).readerIndex_ = c.readerIndex_ - Len(data)
<1> DEFINE r == c.readerIndex_  w == c.writerIndex_  u == toStringView(c)  m == Len(data)  f == r - m
           v == Copy(c.buffer_, f, data)  d == prepend(c, data)  t == toStringView(d)
<1>1. /\ c \in [buffer_ : Seq(Byte), readerIndex_ : Nat, writerIndex_ : Nat]
      /\ r \in Nat /\ w \in Nat /\ r <= w /\ w <= Len(c.buffer_) /\ Len(c.buffer_) \in Nat
      /\ m \in Nat /\ f \in Nat /\ f + m = r /\ readableBytes(c) = w - r
  BY DEF Good, readableBytes, prependableBytes
<1>2. u \in Seq(Byte) /\ Len(u) = w - r /\ \A i \in 1 .. w - r : u[i] = c.buffer_[r + i]
  BY <1>1, ViewType
<1>3. v \in Seq(Byte) /\ Len(v) = Len(c.buffer_)
  BY <1>1, CopyType
<1>4. \A j \in 1..Len(c.buffer_) :
        v[j] = IF j \in f + 1 .. f + m THEN data[j - f] ELSE c.buffer_[j]
  BY <1>1, CopyType
<1>5. r = c.readerIndex_ /\ w = c.writerIndex_ /\ m = Len(data) /\ f = r - m
  OBVIOUS
<1>6. d = [c EXCEPT !.buffer_ = v, !.readerIndex_ = f]
  BY DEF prepend
<1> HIDE DEF r, w, u, m, f, v, d
<1>7. d.buffer_ = v /\ d.readerIndex_ = f /\ d.writerIndex_ = w
      /\ d \in [buffer_ : Seq(Byte), readerIndex_ : Nat, writerIndex_ : Nat]
  BY <1>1, <1>3, <1>5, <1>6
<1>8. Good(d) /\ readableBytes(d) = (w - r) + m
  <2>1. f <= w /\ w <= Len(v) /\ w - f = (w - r) + m
    BY <1>1, <1>3
  <2>2. readableBytes(d) = (w - r) + m
    BY <1>7, <2>1 DEF readableBytes
  <2> QED BY <1>7, <2>1, <2>2 DEF Good
<1>9. /\ t \in Seq(Byte) /\ Len(t) = (w - r) + m
      /\ \A i \in 1 .. (w - r) + m : t[i] = v[f + i]
  BY <1>7, <1>8, ViewType
<1> HIDE DEF t
<1>10. ASSUME NEW i \in 1..Len(data) PROVE t[i] = data[i]
  <2>1. i \in 1..m
    BY <1>5
  <2>2. /\ i \in 1 .. (w - r) + m /\ f + i \in 1..Len(c.buffer_) /\ f + i \in f + 1 .. f + m
        /\ (f + i) - f = i
    BY <1>1, <2>1
  <2> QED BY <1>4, <1>9, <2>2
<1>11. ASSUME NEW i \in 1..Len(u) PROVE t[Len(data) + i] = u[i]
  <2>4. i \in 1 .. w - r /\ i \in Nat
    BY <1>1, <1>2
  <2>5. m + i \in 1 .. (w - r) + m /\ f + (m + i) = r + i
    BY <1>1, <2>4
  <2>6. r + i \in 1..Len(c.buffer_) /\ r + i \notin f + 1 .. f + m
    BY <1>1, <2>4
  <2>1. /\ m + i \in 1 .. (w - r) + m /\ f + (m + i) = r + i /\ r + i \in 1..Len(c.buffer_)
        /\ r + i \notin f + 1 .. f + m /\ i \in 1 .. w - r
    BY <2>4, <2>5, <2>6
  <2>2. t[m + i] = v[r + i]
    BY <1>9, <2>1
  <2>3. v[r + i] = c.buffer_[r + i]
    BY <1>4, <2>1
  <2> QED BY <1>2, <1>5, <2>1, <2>2, <2>3
<1>12. Len(t) = Len(data) + Len(u)
  BY <1>1, <1>2, <1>5, <1>9
<1>13. t = data \o u
  BY <1>2, <1>9, <1>10, <1>11, <1>12, ConcatIs
<1> QED BY <1>1, <1>3, <1>5, <1>7, <1>8, <1>13 DEF d, t, u

\* unWrite takes the last n readable bytes back.
LEMMA UnWriteDoes ==
  ASSUME NEW c, Good(c), NEW n \in 0..readableBytes(c),
         NEW d, d = [c EXCEPT !.writerIndex_ = c.writerIndex_ - n]
  PROVE  /\ Good(d)
         /\ toStringView(c) = toStringView(d) \o Slice(c, c.writerIndex_ - n, n)
         /\ Slice(c, c.writerIndex_ - n, n) \in Seq(Byte)
         /\ readableBytes(d) = readableBytes(c) - n
         /\ d.buffer_ = c.buffer_ /\ d.readerIndex_ = c.readerIndex_
<1> DEFINE r == c.readerIndex_  w == c.writerIndex_  u == toStringView(c)  f == w - n
           s == Slice(c, f, n)  t == toStringView(d)
<1>1. /\ c \in [buffer_ : Seq(Byte), readerIndex_ : Nat, writerIndex_ : Nat]
      /\ r \in Nat /\ w \in Nat /\ r <= w /\ w <= Len(c.buffer_) /\ Len(c.buffer_) \in Nat
      /\ n \in Nat /\ n <= w - r /\ readableBytes(c) = w - r
      /\ f \in Nat /\ f + n = w /\ r <= f
  BY DEF Good, readableBytes
<1>2. u \in Seq(Byte) /\ Len(u) = w - r /\ \A i \in 1 .. w - r : u[i] = c.buffer_[r + i]
  BY <1>1, ViewType
<1>3. s \in Seq(Byte) /\ Len(s) = n /\ \A i \in 1..n : s[i] = c.buffer_[f + i]
  <2>1. f \in Nat /\ n \in Nat /\ f + n <= Len(c.buffer_)
    BY <1>1
  <2> QED BY <2>1, SliceType
<1>4. r = c.readerIndex_ /\ w = c.writerIndex_ /\ d = [c EXCEPT !.writerIndex_ = f]
  OBVIOUS
<1> HIDE DEF r, w, u, s, f
<1>5. d.buffer_ = c.buffer_ /\ d.readerIndex_ = r /\ d.writerIndex_ = f
      /\ d \in [buffer_ : Seq(Byte), readerIndex_ : Nat, writerIndex_ : Nat]
  BY <1>1, <1>4
<1>6. Good(d) /\ readableBytes(d) = f - r
  BY <1>1, <1>5 DEF Good, readableBytes
<1>7. /\ t \in Seq(Byte) /\ Len(t) = f - r
      /\ \A i \in 1 .. f - r : t[i] = c.buffer_[r + i]
  <2>1. t \in Seq(Byte) /\ Len(t) = readableBytes(d)
        /\ \A i \in 1 .. readableBytes(d) : t[i] = d.buffer_[d.readerIndex_ + i]
    BY <1>6, ViewType
  <2> HIDE DEF t
  <2> QED BY <1>5, <1>6, <2>1
<1> HIDE DEF t
<1>8. ASSUME NEW i \in 1..Len(t) PROVE u[i] = t[i]
  <2>1. i \in 1 .. w - r /\ i \in 1 .. f - r
    BY <1>1, <1>7
  <2> QED BY <1>2, <1>7, <2>1
<1>9. ASSUME NEW i \in 1..Len(s) PROVE u[Len(t) + i] = s[i]
  <2>1. (f - r) + i \in 1 .. w - r /\ r + ((f - r) + i) = f + i /\ i \in 1..n
    BY <1>1, <1>3
  <2> QED BY <1>2, <1>3, <1>7, <2>1
<1>10. Len(u) = Len(t) + Len(s)
  BY <1>1, <1>2, <1>3, <1>7
<1>11. u = t \o s
  BY <1>2, <1>3, <1>7, <1>8, <1>9, <1>10, ConcatIs
<1>12. f - r = readableBytes(c) - n
  BY <1>1
<1> QED BY <1>3, <1>4, <1>5, <1>6, <1>11, <1>12 DEF f, s, t, u

(***************************************************************************)
(* Integers: recursion up to a bound, by the least counterexample.         *)
(***************************************************************************)

\* A set of numbers that is not empty has a least one.
LEMMA LeastNumber ==
  ASSUME NEW T, T \subseteq Nat, T # {}
  PROVE  \E x \in T : \A y \in T : x <= y
<1>1. IsWellFoundedOn(OpToRel(<, Nat), Nat)
  BY NatLessThanWellFounded
<1>2. PICK x \in T : \A y \in T : ~(<<y, x>> \in OpToRel(<, Nat))
  BY <1>1, WFMin
<1>3. \A y \in T : ~(y < x)
  BY <1>2 DEF OpToRel
<1> QED BY <1>3

\* What holds at zero and passes from each number to the next holds up to n.
LEMMA UpTo ==
  ASSUME NEW n \in Nat, NEW G, 0 \in G, \A i \in 1..n : i - 1 \in G => i \in G
  PROVE  0..n \subseteq G
<1> DEFINE T == {i \in 0..n : i \notin G}
<1>1. SUFFICES ASSUME T # {} PROVE FALSE
  OBVIOUS
<1>5. T \subseteq Nat
  OBVIOUS
<1>2. PICK x \in T : \A y \in T : x <= y
  <2> HIDE DEF T
  <2> QED BY <1>1, <1>5, LeastNumber
<1>3. x # 0 /\ x \in 1..n /\ x - 1 \in 0..n /\ ~(x <= x - 1)
  BY <1>2
<1>4. x - 1 \in G
  BY <1>2, <1>3
<1> QED BY <1>2, <1>3, <1>4

\* f is a at zero, and each value follows from the one before it.
Recurs(n, S, a, step, f) ==
  f \in [0..n -> S] /\ f[0] = a /\ \A i \in 1..n : f[i] = step[i][f[i - 1]]

\* There is such a function.
LEMMA Recursion ==
  ASSUME NEW n \in Nat, NEW S, NEW a \in S, NEW step \in [1..n -> [S -> S]]
  PROVE  \E f : Recurs(n, S, a, step, f)
<1> DEFINE Fits(m, f) == f \in [0..m -> S] /\ f[0] = a /\ \A i \in 1..m : f[i] = step[i][f[i - 1]]
           G == {m \in 0..n : \E f : Fits(m, f)}
<1>1. 0 \in G
  <2>1. [i \in 0..0 |-> a] \in [0..0 -> S]
    OBVIOUS
  <2>2. Fits(0, [i \in 0..0 |-> a])
    BY <2>1
  <2>3. \E f : Fits(0, f)
    <3> HIDE DEF Fits
    <3> QED BY <2>2
  <2> HIDE DEF Fits
  <2> QED BY <2>3
<1>2. ASSUME NEW m \in 1..n, m - 1 \in G
      PROVE  m \in G
  <2>1. PICK h : Fits(m - 1, h)
    BY <1>2
  <2> DEFINE g == [i \in 0..m |-> IF i = m THEN step[m][h[m - 1]] ELSE h[i]]
  <2>2. m - 1 \in 0 .. m - 1 /\ 0 \in 0 .. m - 1 /\ m # 0
    OBVIOUS
  <2>3. step[m][h[m - 1]] \in S
    BY <2>1, <2>2
  <2>4. \A i \in 0..m : i # m => i \in 0 .. m - 1
    OBVIOUS
  <2>5. g \in [0..m -> S]
    BY <2>1, <2>3, <2>4
  <2>6. g[0] = a
    BY <2>1, <2>2
  <2>7. ASSUME NEW i \in 1..m PROVE g[i] = step[i][g[i - 1]]
    <3>1. i - 1 \in 0..m /\ i - 1 # m /\ i \in 0..m
      OBVIOUS
    <3>2. g[i - 1] = h[i - 1]
      BY <3>1
    <3>3. CASE i = m
      BY <3>1, <3>2, <3>3
    <3>4. CASE i # m
      <4>1. i \in 1 .. m - 1
        BY <3>4
      <4>2. h[i] = step[i][h[i - 1]]
        BY <2>1, <4>1
      <4> QED BY <3>1, <3>2, <3>4, <4>2
    <3> QED BY <3>3, <3>4
  <2>8. Fits(m, g)
    BY <2>5, <2>6, <2>7
  <2>9. \E f : Fits(m, f)
    <3> HIDE DEF Fits, g
    <3> QED BY <2>8
  <2> HIDE DEF Fits
  <2> QED BY <2>9
<1>3. 0..n \subseteq G
  <2> HIDE DEF G
  <2> QED BY <1>1, <1>2, UpTo
<1>4. n \in G
  BY <1>3
<1> QED BY <1>4 DEF Recurs

\* How many values w bytes have, and fewer bytes on the way.
LEMMA ValuesAre ==
  ASSUME NEW w \in Nat
  PROVE  \E p \in [0..w -> Nat \ {0}] :
           /\ p[0] = 1
           /\ \A i \in 1..w : p[i] = Base * p[i - 1]
           /\ Values(w) = p[w]
<1> DEFINE Is(f) == f = [i \in 0..w |-> IF i = 0 THEN 1 ELSE Base * f[i - 1]]
           step == [i \in 1..w |-> [x \in Nat \ {0} |-> Base * x]]
<1>1. Base \in Nat \ {0} /\ \A x \in Nat \ {0} : Base * x \in Nat \ {0}
  BY BufferAssumption
<1>2. step \in [1..w -> [Nat \ {0} -> Nat \ {0}]]
  BY <1>1
<1>10. \E f : Recurs(w, Nat \ {0}, 1, step, f)
  <2> DEFINE S == Nat \ {0}
  <2>1. 1 \in S /\ step \in [1..w -> [S -> S]]
    BY <1>2
  <2> HIDE DEF step, S
  <2>2. \E f : Recurs(w, S, 1, step, f)
    BY <2>1, Recursion
  <2> QED BY <2>2 DEF S
<1>11. PICK p : Recurs(w, Nat \ {0}, 1, step, p)
  BY <1>10
<1>3. p \in [0..w -> Nat \ {0}] /\ p[0] = 1 /\ \A i \in 1..w : p[i] = step[i][p[i - 1]]
  <2> HIDE DEF step
  <2> QED BY <1>11 DEF Recurs
<1>4. ASSUME NEW i \in 1..w PROVE p[i] = Base * p[i - 1] /\ i - 1 \in 0..w
  <2>1. i - 1 \in 0..w
    OBVIOUS
  <2>2. p[i - 1] \in Nat \ {0}
    BY <1>3, <2>1
  <2>3. step[i][p[i - 1]] = Base * p[i - 1]
    BY <2>2
  <2> QED BY <1>3, <2>1, <2>3
<1>5. Is(p)
  <2>1. ASSUME NEW i \in 0..w PROVE p[i] = IF i = 0 THEN 1 ELSE Base * p[i - 1]
    BY <1>3, <1>4
  <2> QED BY <1>3, <2>1
<1> DEFINE q == CHOOSE f : Is(f)
<1>6. Is(q)
  <2> HIDE DEF Is
  <2> QED BY <1>5
<1>7. q = p
  <2> DEFINE G == {i \in 0..w : q[i] = p[i]}
  <2>1. \A i \in 0..w : q[i] = IF i = 0 THEN 1 ELSE Base * q[i - 1]
    <3> HIDE DEF q
    <3> QED BY <1>6
  <2> HIDE DEF q
  <2>2. 0 \in G
    BY <1>3, <2>1
  <2>3. ASSUME NEW i \in 1..w, i - 1 \in G PROVE i \in G
    BY <1>4, <2>1, <2>3
  <2>4. 0..w \subseteq G
    <3> HIDE DEF G
    <3> QED BY <2>2, <2>3, UpTo
  <2>5. \A i \in 0..w : q[i] = p[i]
    BY <2>4
  <2>6. q = [i \in 0..w |-> q[i]] /\ p = [i \in 0..w |-> p[i]]
    BY <1>3, <1>6
  <2> QED BY <2>5, <2>6
<1>8. Values(w) = q[w]
  BY DEF Values
<1>9. p[0] = 1 /\ (\A i \in 1..w : p[i] = Base * p[i - 1]) /\ Values(w) = p[w]
  BY <1>3, <1>4, <1>7, <1>8
<1> QED BY <1>3, <1>9

\* The values of the bytes of data read so far.
LEMMA ValueIs ==
  ASSUME NEW data \in Seq(Byte)
  PROVE  \E p \in [0..Len(data) -> Nat] :
           /\ p[0] = 0
           /\ \A i \in 1..Len(data) : p[i] = p[i - 1] * Base + data[i]
           /\ Promised!Value(data) = p[Len(data)]
           /\ networkToHost(data) =
                IF p[Len(data)] >= Values(Len(data)) \div 2
                  THEN p[Len(data)] - Values(Len(data)) ELSE p[Len(data)]
<1> DEFINE w == Len(data)
           Is(f) == f = [i \in 0..w |-> IF i = 0 THEN 0 ELSE f[i - 1] * Base + data[i]]
           step == [i \in 1..w |-> [x \in Nat |-> x * Base + data[i]]]
<1>0. w \in Nat
  OBVIOUS
<1>1. Base \in Nat /\ \A i \in 1..w : data[i] \in Nat
  BY BufferAssumption DEF Byte
<1>2. step \in [1..w -> [Nat -> Nat]]
  BY <1>1
<1>3. \E f : Recurs(w, Nat, 0, step, f)
  <2> HIDE DEF step, w
  <2> QED BY <1>0, <1>2, Recursion
<1>4. PICK p : Recurs(w, Nat, 0, step, p)
  BY <1>3
<1>5. p \in [0..w -> Nat] /\ p[0] = 0 /\ \A i \in 1..w : p[i] = step[i][p[i - 1]]
  <2> HIDE DEF step, w
  <2> QED BY <1>4 DEF Recurs
<1>6. ASSUME NEW i \in 1..w PROVE p[i] = p[i - 1] * Base + data[i] /\ i - 1 \in 0..w
  <2>1. i - 1 \in 0..w
    OBVIOUS
  <2>2. p[i - 1] \in Nat
    BY <1>5, <2>1
  <2>3. step[i][p[i - 1]] = p[i - 1] * Base + data[i]
    BY <2>2
  <2> QED BY <1>5, <2>1, <2>3
<1>7. Is(p)
  <2>1. ASSUME NEW i \in 0..w PROVE p[i] = IF i = 0 THEN 0 ELSE p[i - 1] * Base + data[i]
    BY <1>5, <1>6
  <2> QED BY <1>5, <2>1
<1> DEFINE q == CHOOSE f : Is(f)
<1>8. Is(q)
  <2> HIDE DEF Is
  <2> QED BY <1>7
<1>9. q = p
  <2> DEFINE G == {i \in 0..w : q[i] = p[i]}
  <2>1. \A i \in 0..w : q[i] = IF i = 0 THEN 0 ELSE q[i - 1] * Base + data[i]
    <3> HIDE DEF q
    <3> QED BY <1>8
  <2> HIDE DEF q
  <2>2. 0 \in G
    BY <1>5, <2>1
  <2>3. ASSUME NEW i \in 1..w, i - 1 \in G PROVE i \in G
    BY <1>6, <2>1, <2>3
  <2>4. 0..w \subseteq G
    <3> HIDE DEF G, w
    <3> QED BY <1>0, <2>2, <2>3, UpTo
  <2>5. \A i \in 0..w : q[i] = p[i]
    BY <2>4
  <2>6. q = [i \in 0..w |-> q[i]] /\ p = [i \in 0..w |-> p[i]]
    BY <1>5, <1>8
  <2> QED BY <2>5, <2>6
<1>10. Promised!Value(data) = q[w]
  BY DEF Promised!Value
<1>11. networkToHost(data) = IF q[w] >= Values(w) \div 2 THEN q[w] - Values(w) ELSE q[w]
  BY DEF networkToHost
<1>12. /\ p[0] = 0
       /\ \A i \in 1..w : p[i] = p[i - 1] * Base + data[i]
       /\ Promised!Value(data) = p[w]
       /\ networkToHost(data) = IF p[w] >= Values(w) \div 2 THEN p[w] - Values(w) ELSE p[w]
  <2> HIDE DEF q
  <2> QED BY <1>5, <1>6, <1>9, <1>10, <1>11
<1> QED BY <1>5, <1>12

\* What is left of x when its last bytes are taken.
LEMMA RestIs ==
  ASSUME NEW w \in Nat, NEW x \in Int
  PROVE  \E p \in [0..w -> Nat] :
           /\ p[0] = x % Values(w)
           /\ \A i \in 1..w : p[i] = p[i - 1] \div Base
           /\ hostToNetwork(x, w) = [i \in 1..w |-> p[w - i] % Base]
<1> DEFINE a == x % Values(w)
           Is(f) == f = [i \in 0..w |-> IF i = 0 THEN a ELSE f[i - 1] \div Base]
           step == [i \in 1..w |-> [y \in Nat |-> y \div Base]]
<1>1. Base \in Nat \ {0} /\ \A y \in Nat : y \div Base \in Nat
  BY BufferAssumption
<1>2. step \in [1..w -> [Nat -> Nat]]
  BY <1>1
<1>0. a \in Nat
  <2>1. PICK p \in [0..w -> Nat \ {0}] : Values(w) = p[w]
    BY ValuesAre
  <2> QED BY <2>1
<1>3. \E f : Recurs(w, Nat, a, step, f)
  <2> HIDE DEF step, a
  <2> QED BY <1>0, <1>2, Recursion
<1>4. PICK p : Recurs(w, Nat, a, step, p)
  BY <1>3
<1>5. p \in [0..w -> Nat] /\ p[0] = a /\ \A i \in 1..w : p[i] = step[i][p[i - 1]]
  <2> HIDE DEF step, a
  <2> QED BY <1>4 DEF Recurs
<1> HIDE DEF a
<1>6. ASSUME NEW i \in 1..w PROVE p[i] = p[i - 1] \div Base /\ i - 1 \in 0..w
  <2>1. i - 1 \in 0..w
    OBVIOUS
  <2>2. p[i - 1] \in Nat
    BY <1>5, <2>1
  <2>3. step[i][p[i - 1]] = p[i - 1] \div Base
    BY <2>2
  <2> QED BY <1>5, <2>1, <2>3
<1>7. Is(p)
  <2>1. ASSUME NEW i \in 0..w PROVE p[i] = IF i = 0 THEN a ELSE p[i - 1] \div Base
    BY <1>5, <1>6
  <2> QED BY <1>5, <2>1
<1> DEFINE q == CHOOSE f : Is(f)
<1>8. Is(q)
  <2> HIDE DEF Is
  <2> QED BY <1>7
<1>9. q = p
  <2> DEFINE G == {i \in 0..w : q[i] = p[i]}
  <2>1. \A i \in 0..w : q[i] = IF i = 0 THEN a ELSE q[i - 1] \div Base
    <3> HIDE DEF q
    <3> QED BY <1>8
  <2> HIDE DEF q
  <2>2. 0 \in G
    BY <1>5, <2>1
  <2>3. ASSUME NEW i \in 1..w, i - 1 \in G PROVE i \in G
    BY <1>6, <2>1, <2>3
  <2>4. 0..w \subseteq G
    <3> HIDE DEF G
    <3> QED BY <2>2, <2>3, UpTo
  <2>5. \A i \in 0..w : q[i] = p[i]
    BY <2>4
  <2>6. q = [i \in 0..w |-> q[i]] /\ p = [i \in 0..w |-> p[i]]
    BY <1>5, <1>8
  <2> QED BY <2>5, <2>6
<1>10. hostToNetwork(x, w) = [i \in 1..w |-> q[w - i] % Base]
  BY DEF hostToNetwork, a
<1>11. /\ p[0] = x % Values(w)
       /\ \A i \in 1..w : p[i] = p[i - 1] \div Base
       /\ hostToNetwork(x, w) = [i \in 1..w |-> p[w - i] % Base]
  <2> HIDE DEF q
  <2> QED BY <1>5, <1>6, <1>9, <1>10 DEF a
<1> QED BY <1>5, <1>11

\* A smaller factor makes a smaller product.
LEMMA Times ==
  ASSUME NEW n \in Nat, NEW y \in Nat, NEW z \in Nat, y <= z
  PROVE  n * y <= n * z /\ y * n <= z * n
<1>1. z = y + (z - y) /\ z - y \in Nat
  OBVIOUS
<1>2. n * z = n * y + n * (z - y)
  BY <1>1
<1>3. n * (z - y) \in Nat /\ n * y \in Nat
  BY <1>1
<1>4. n * y = y * n /\ n * z = z * n
  OBVIOUS
<1> QED BY <1>2, <1>3, <1>4

\* A number is put together of its last byte and the rest.
LEMMA Digits ==
  ASSUME NEW y \in Nat
  PROVE  /\ y \div Base \in Nat /\ y % Base \in Byte
         /\ y = (y \div Base) * Base + (y % Base)
<1>1. Base \in Int /\ Base > 0 /\ Base \in Nat /\ y \in Int
  BY BufferAssumption
<1>2. y = Base * (y \div Base) + (y % Base)
  BY <1>1, Z3
<1>3. y \div Base \in Nat /\ y % Base \in Byte
  BY <1>1 DEF Byte
<1> DEFINE k == y \div Base  m == y % Base
<1>4. y = Base * k + m /\ k \in Nat /\ m \in Nat
  BY <1>1, <1>2, <1>3
<1> HIDE DEF k, m
<1>5. y = k * Base + m
  BY <1>1, <1>4
<1> QED BY <1>3, <1>5 DEF k, m

\* Taking the last byte leaves less than a Base-th.
LEMMA DivBelow ==
  ASSUME NEW y \in Nat, NEW q \in Nat, y < Base * q
  PROVE  y \div Base < q
<1> DEFINE k == y \div Base  m == y % Base
<1>1. k \in Nat /\ m \in Nat /\ y = k * Base + m /\ Base \in Nat
  BY Digits, BufferAssumption DEF Byte
<1> HIDE DEF k, m
<1>2. SUFFICES ASSUME q <= k PROVE FALSE
  BY <1>1 DEF k
<1>3. q * Base <= k * Base
  BY <1>1, <1>2, Times
<1>4. Base * q = q * Base /\ q * Base \in Nat /\ k * Base \in Nat
  BY <1>1
<1> QED BY <1>1, <1>3, <1>4

\* The bytes that an integer is written as are the integer.
LEMMA WrittenInt ==
  ASSUME NEW w \in Nat \ {0}, NEW x \in Ints(w)
  PROVE  /\ hostToNetwork(x, w) \in Seq(Byte)
         /\ Len(hostToNetwork(x, w)) = w
         /\ Promised!IsInt(hostToNetwork(x, w), x)
<1> DEFINE s == hostToNetwork(x, w)
<1>1. PICK p \in [0..w -> Nat \ {0}] :
        p[0] = 1 /\ (\A i \in 1..w : p[i] = Base * p[i - 1]) /\ Values(w) = p[w]
  BY ValuesAre
<1>2. x \in Int /\ p[w] \in Nat \ {0} /\ 2 * x \in -p[w] .. p[w] - 1
  BY <1>1 DEF Ints
<1>3. PICK r \in [0..w -> Nat] :
        r[0] = x % Values(w) /\ (\A i \in 1..w : r[i] = r[i - 1] \div Base)
        /\ s = [i \in 1..w |-> r[w - i] % Base]
  BY <1>2, RestIs
<1> HIDE DEF s
<1>4. ASSUME NEW i \in 1..w
      PROVE  w - i \in 0..w /\ r[w - i] \in Nat /\ s[i] = r[w - i] % Base /\ s[i] \in Byte
  <2>1. w - i \in 0..w
    OBVIOUS
  <2>2. r[w - i] \in Nat
    BY <2>1
  <2>3. r[w - i] % Base \in Byte
    BY <2>2, Digits
  <2> QED BY <1>3, <2>1, <2>2, <2>3
<1>5. s \in Seq(Byte) /\ Len(s) = w
  <2>1. s \in [1..w -> Byte]
    BY <1>3, <1>4
  <2> QED BY <2>1, FcnIsSeq
<1>6. \A i \in 0..w : r[i] < p[w - i]
  <2> DEFINE G == {i \in 0..w : r[i] < p[w - i]}
  <2>1. 0 \in G
    BY <1>1, <1>2, <1>3
  <2>2. ASSUME NEW i \in 1..w, i - 1 \in G PROVE i \in G
    <3> DEFINE j == w - i
    <3>1. j \in 0..w /\ j + 1 \in 1..w /\ (j + 1) - 1 = j /\ w - (i - 1) = j + 1 /\ i - 1 \in 0..w
      OBVIOUS
    <3>2. p[j + 1] = Base * p[j] /\ p[j] \in Nat
      BY <1>1, <3>1
    <3>3. r[i - 1] < p[j + 1] /\ r[i - 1] \in Nat
      BY <2>2, <3>1
    <3>4. r[i] = r[i - 1] \div Base
      BY <1>3
    <3>5. r[i - 1] \div Base < p[j]
      BY <3>2, <3>3, DivBelow
    <3> QED BY <3>4, <3>5
  <2>3. 0..w \subseteq G
    <3> HIDE DEF G
    <3> QED BY <2>1, <2>2, UpTo
  <2> QED BY <2>3
<1>7. r[w] = 0
  <2>1. w \in 0..w /\ w - w = 0
    OBVIOUS
  <2>2. r[w] < 1 /\ r[w] \in Nat
    BY <1>1, <1>6, <2>1
  <2> QED BY <2>2
<1>8. PICK v \in [0..w -> Nat] :
        v[0] = 0 /\ (\A i \in 1..w : v[i] = v[i - 1] * Base + s[i]) /\ Promised!Value(s) = v[w]
  BY <1>5, ValueIs
<1>9. \A i \in 0..w : v[i] = r[w - i]
  <2> DEFINE G == {i \in 0..w : v[i] = r[w - i]}
  <2>1. 0 \in G
    BY <1>7, <1>8
  <2>2. ASSUME NEW i \in 1..w, i - 1 \in G PROVE i \in G
    <3> DEFINE j == w - i
    <3>1. j \in 0..w /\ j + 1 \in 1..w /\ (j + 1) - 1 = j /\ w - (i - 1) = j + 1 /\ i - 1 \in 0..w
      OBVIOUS
    <3>2. r[j + 1] = r[j] \div Base /\ r[j] \in Nat
      BY <1>3, <3>1
    <3>3. v[i - 1] = r[j + 1]
      BY <2>2, <3>1
    <3>4. v[i] = v[i - 1] * Base + s[i] /\ s[i] = r[j] % Base
      BY <1>4, <1>8
    <3>5. r[j] = (r[j] \div Base) * Base + (r[j] % Base)
      BY <3>2, Digits
    <3>6. v[i] = r[j]
      <4> DEFINE k == r[j] \div Base
      <4>1. v[i - 1] = k
        BY <3>2, <3>3
      <4>2. v[i] = k * Base + (r[j] % Base)
        BY <3>4, <4>1
      <4> QED BY <3>5, <4>2
    <3> QED BY <3>6 DEF j
  <2>3. 0..w \subseteq G
    <3> HIDE DEF G
    <3> QED BY <2>1, <2>2, UpTo
  <2> QED BY <2>3
<1>10. v[w] = x % Values(w)
  <2>1. w \in 0..w /\ w - w = 0
    OBVIOUS
  <2> QED BY <1>3, <1>9, <2>1
<1>11. Promised!Values(w) = p[w]
  BY <1>1 DEF Values, Promised!Values
<1>12. Promised!IsInt(s, x)
  BY <1>1, <1>2, <1>5, <1>8, <1>10, <1>11 DEF Promised!IsInt
<1> QED BY <1>5, <1>12 DEF s

\* The remainder of a number, and of the negative number that it stands for.
LEMMA ModIs ==
  ASSUME NEW y \in Nat, NEW z \in Nat, y < z
  PROVE  y % z = y /\ (y - z) % z = y
OBVIOUS

\* The integer that is read is the bytes it is read from.
LEMMA ReadIntIs ==
  ASSUME NEW s \in Seq(Byte), Len(s) # 0
  PROVE  Promised!IsInt(s, networkToHost(s))
<1> DEFINE w == Len(s)
<1>1. w \in Nat \ {0}
  OBVIOUS
<1>2. PICK v \in [0..w -> Nat] :
        v[0] = 0 /\ (\A i \in 1..w : v[i] = v[i - 1] * Base + s[i]) /\ Promised!Value(s) = v[w]
        /\ networkToHost(s) = IF v[w] >= Values(w) \div 2 THEN v[w] - Values(w) ELSE v[w]
  BY ValueIs
<1>3. \A i \in 1..w : s[i] \in 0 .. Base - 1
  BY DEF Byte
<1>4. w = Len(s)
  OBVIOUS
<1> HIDE DEF w
<1>5. PICK p \in [0..w -> Nat \ {0}] :
        p[0] = 1 /\ (\A i \in 1..w : p[i] = Base * p[i - 1]) /\ Values(w) = p[w]
  BY <1>1, ValuesAre
<1>6. Base \in Nat \ {0} /\ Base % 2 = 0
  BY BufferAssumption
<1>7. \A i \in 0..w : v[i] < p[i]
  <2> DEFINE G == {i \in 0..w : v[i] < p[i]}
  <2>1. 0 \in G
    BY <1>1, <1>2, <1>5
  <2>2. ASSUME NEW i \in 1..w, i - 1 \in G PROVE i \in G
    <3> DEFINE y == v[i - 1]  z == p[i - 1]
    <3>1. y \in Nat /\ z \in Nat /\ y + 1 <= z
      BY <1>1, <2>2
    <3>2. v[i] = y * Base + s[i] /\ p[i] = Base * z /\ s[i] \in 0 .. Base - 1
      BY <1>2, <1>3, <1>5
    <3> HIDE DEF y, z
    <3>3. Base * (y + 1) <= Base * z
      BY <1>6, <3>1, Times
    <3>4. Base * (y + 1) = y * Base + Base /\ y * Base \in Nat /\ Base * z \in Nat
      BY <1>6, <3>1
    <3>5. v[i] < p[i]
      BY <1>6, <3>2, <3>3, <3>4
    <3> QED BY <1>1, <3>5
  <2>3. 0..w \subseteq G
    <3> HIDE DEF G
    <3> QED BY <1>1, <2>1, <2>2, UpTo
  <2> QED BY <2>3
<1>8. PICK h \in Nat : p[w] = 2 * h
  <2>1. PICK g \in Nat : Base = 2 * g
    <3>1. Base = 2 * (Base \div 2) + (Base % 2) /\ Base \div 2 \in Nat
      BY <1>6
    <3> QED BY <1>6, <3>1
  <2>2. w - 1 \in 0..w /\ w \in 1..w
    BY <1>1
  <2>3. p[w] = Base * p[w - 1] /\ p[w - 1] \in Nat
    BY <1>5, <2>2
  <2>4. p[w] = 2 * (g * p[w - 1]) /\ g * p[w - 1] \in Nat
    BY <2>1, <2>3
  <2> QED BY <2>4
<1>9. v[w] \in Nat /\ p[w] \in Nat \ {0} /\ v[w] < p[w] /\ p[w] \div 2 = h
  BY <1>1, <1>7, <1>8
<1> DEFINE x == networkToHost(s)
<1>10. x = IF v[w] >= h THEN v[w] - p[w] ELSE v[w]
  BY <1>2, <1>5, <1>9
<1>11. Promised!Values(w) = p[w]
  BY <1>5 DEF Values, Promised!Values
<1> HIDE DEF x
<1>12. x % p[w] = v[w]
  BY <1>9, <1>10, ModIs
<1>13. 2 * x \in -p[w] .. p[w] - 1
  BY <1>8, <1>9, <1>10
<1>14. Promised!IsInt(s, x)
  BY <1>2, <1>4, <1>11, <1>12, <1>13 DEF Promised!IsInt
<1> QED BY <1>14 DEF x

(***************************************************************************)
(* The inductive invariant.                                                *)
(***************************************************************************)

\* As long as calls can be made the buffer is good, with no more in it than the bound.
BufInv ==
  /\ prepended \in Nat
  /\ Usable => Good(b) /\ readableBytes(b) <= MaxReadable
  /\ PrependRoom
  /\ SpaceIsReused

\* What a call is made with.
LEMMA DataIs ==
  ASSUME NEW data \in Data
  PROVE  data \in Seq(Byte) /\ Len(data) \in 0..MaxLength
<1>1. PICK n \in 0..MaxLength : data \in [1..n -> Byte]
  BY DEF Data
<1>2. n \in Nat
  BY BufferAssumption
<1> QED BY <1>1, <1>2, FcnIsSeq

\* A buffer that is good, and has its room and not too much, may come next.
LEMMA GoodNext ==
  ASSUME Good(b'), kCheapPrepend <= Len(b'.buffer_), readableBytes(b') <= MaxReadable,
         prepended' \in Nat, b'.readerIndex_ + prepended' >= kCheapPrepend,
         Len(b'.buffer_) <= kCheapPrepend + kInitialSize + MaxReadable + 2 * MaxLength
  PROVE  BufInv'
BY DEF BufInv, Usable, PrependRoom, SpaceIsReused, prependableBytes

\* So may what a writing call, or ensureWritableBytes, makes of it.
LEMMA FollowsNext ==
  ASSUME BufInv, Usable, NEW data \in Seq(Byte), NEW len \in 0..MaxLength,
         Follows(b, b', data, len), readableBytes(b) + Len(data) <= MaxReadable,
         prepended' = prepended
  PROVE  BufInv'
<1>1. /\ prepended \in Nat /\ Good(b) /\ readableBytes(b) \in Nat /\ readableBytes(b) <= MaxReadable
      /\ kCheapPrepend <= Len(b.buffer_)
      /\ b.readerIndex_ + prepended >= kCheapPrepend
      /\ Len(b.buffer_) <= kCheapPrepend + kInitialSize + MaxReadable + 2 * MaxLength
  BY ViewType DEF BufInv, Usable, PrependRoom, SpaceIsReused, prependableBytes
<1>2. /\ Good(b') /\ readableBytes(b') = readableBytes(b) + Len(data)
      /\ b'.readerIndex_ \in {b.readerIndex_, kCheapPrepend}
      /\ Len(b.buffer_) <= Len(b'.buffer_)
      /\ Len(b.buffer_) < Len(b'.buffer_)
           => Len(b'.buffer_) <= kCheapPrepend + readableBytes(b) + 2 * len
  BY DEF Follows
<1>3. /\ kCheapPrepend \in Nat /\ kInitialSize \in Nat /\ MaxReadable \in Nat /\ MaxLength \in Nat
      /\ Len(b.buffer_) \in Nat /\ Len(b'.buffer_) \in Nat /\ b.readerIndex_ \in Nat
      /\ len \in Nat /\ len <= MaxLength
  BY <1>1, <1>2, BufferAssumption DEF Good
<1>4. kCheapPrepend <= Len(b'.buffer_) /\ b'.readerIndex_ + prepended' >= kCheapPrepend
  BY <1>1, <1>2, <1>3
<1>5. Len(b'.buffer_) <= kCheapPrepend + kInitialSize + MaxReadable + 2 * MaxLength
  BY <1>1, <1>2, <1>3
<1>6. readableBytes(b') <= MaxReadable /\ prepended' \in Nat
  BY <1>1, <1>2
<1> QED BY <1>2, <1>4, <1>5, <1>6, GoodNext

\* A new buffer.
LEMMA BufInit == Init => BufInv /\ toStringView(b) = <<>>
<1> SUFFICES ASSUME Init PROVE BufInv /\ toStringView(b) = <<>>
  OBVIOUS
<1>1. kCheapPrepend \in Nat /\ kInitialSize \in Nat /\ MaxReadable \in Nat /\ MaxLength \in Nat
  BY BufferAssumption
<1>2. b = NewBuffer(kInitialSize) /\ prepended = 0
  BY DEF Init
<1>3. /\ Good(b) /\ toStringView(b) = <<>> /\ readableBytes(b) = 0
      /\ b.readerIndex_ = kCheapPrepend /\ Len(b.buffer_) = kCheapPrepend + kInitialSize
  BY <1>1, <1>2, NewBufferDoes
<1> QED BY <1>1, <1>2, <1>3 DEF BufInv, Usable, PrependRoom, SpaceIsReused, prependableBytes

(***************************************************************************)
(* The steps: each keeps the invariant and is a step of the queue.         *)
(***************************************************************************)

\* What the queue does: a call, or nothing.
QueueStep == Promised!Next \/ UNCHANGED <<toStringView(b), call>>

\* A call that writes, with or without an integer.
LEMMA Writes ==
  ASSUME NEW data \in Seq(Byte), toStringView(b') = toStringView(b) \o data,
         NEW x,
         \/ call' = [op |-> "write", data |-> data, int |-> 0]
         \/ call' = [op |-> "writeInt", data |-> data, int |-> x] /\ Promised!IsInt(data, x)
  PROVE  QueueStep
<1>1. call'.data = data
  OBVIOUS
<1>2. toStringView(b)' = toStringView(b) \o data
  OBVIOUS
<1>3. Promised!Call("write", "writeInt", data)
  BY DEF Promised!Call
<1> QED BY <1>1, <1>2, <1>3 DEF QueueStep, Promised!Next, Promised!Write

\* A call that reads.
LEMMA Reads ==
  ASSUME NEW data \in Seq(Byte), toStringView(b) = data \o toStringView(b'),
         NEW x,
         \/ call' = [op |-> "read", data |-> data, int |-> 0]
         \/ call' = [op |-> "readInt", data |-> data, int |-> x] /\ Promised!IsInt(data, x)
  PROVE  QueueStep
<1>1. call'.data = data
  OBVIOUS
<1>2. toStringView(b) = data \o toStringView(b)'
  OBVIOUS
<1>3. Promised!Call("read", "readInt", data)
  BY DEF Promised!Call
<1> QED BY <1>1, <1>2, <1>3 DEF QueueStep, Promised!Next, Promised!Read

\* A call that prepends.
LEMMA Prepends ==
  ASSUME NEW data \in Seq(Byte), toStringView(b') = data \o toStringView(b),
         NEW x,
         \/ call' = [op |-> "prepend", data |-> data, int |-> 0]
         \/ call' = [op |-> "prependInt", data |-> data, int |-> x] /\ Promised!IsInt(data, x)
  PROVE  QueueStep
<1>1. call'.data = data
  OBVIOUS
<1>2. toStringView(b)' = data \o toStringView(b)
  OBVIOUS
<1>3. Promised!Call("prepend", "prependInt", data)
  BY DEF Promised!Call
<1> QED BY <1>1, <1>2, <1>3 DEF QueueStep, Promised!Next, Promised!Prepend

\* What the invariant says of a buffer that can be used.
LEMMA InUse ==
  ASSUME BufInv, Usable
  PROVE  /\ prepended \in Nat /\ Good(b) /\ kCheapPrepend <= Len(b.buffer_)
         /\ readableBytes(b) \in Nat /\ readableBytes(b) <= MaxReadable
         /\ b.readerIndex_ \in Nat /\ b.readerIndex_ + prepended >= kCheapPrepend
         /\ Len(b.buffer_) <= kCheapPrepend + kInitialSize + MaxReadable + 2 * MaxLength
         /\ kCheapPrepend \in Nat /\ kInitialSize \in Nat /\ MaxReadable \in Nat /\ MaxLength \in Nat
BY ViewType, BufferAssumption DEF BufInv, Usable, PrependRoom, SpaceIsReused, prependableBytes, Good

\* AppendBytes, HasWritten and ReadFd.
LEMMA WriteSteps ==
  ASSUME BufInv, NEW data \in Data, AppendBytes(data) \/ HasWritten(data) \/ ReadFd(data)
  PROVE  BufInv' /\ QueueStep
<1>1. data \in Seq(Byte) /\ Len(data) \in 0..MaxLength
  BY DataIs
<1>2. /\ Usable /\ readableBytes(b) + Len(data) <= MaxReadable
      /\ call' = [op |-> "write", data |-> data, int |-> 0] /\ prepended' = prepended
  BY DEF AppendBytes, HasWritten, ReadFd, Called, CalledWith
<1>3. Good(b) /\ kCheapPrepend <= Len(b.buffer_)
  BY <1>2, InUse
<1>4. Follows(b, b', data, Len(data))
  <2>1. CASE AppendBytes(data)
    BY <1>1, <1>3, <2>1, AppendDoes DEF AppendBytes
  <2>2. CASE HasWritten(data)
    <3>1. Len(data) <= writableBytes(b) /\ b' = hasWritten(b, data)
      BY <2>2 DEF HasWritten
    <3>2. Follows(b, b', data, 0) /\ Len(b'.buffer_) = Len(b.buffer_) /\ Len(b.buffer_) \in Nat
      BY <1>1, <1>3, <3>1, HasWrittenDoes DEF Good
    <3> QED BY <3>2 DEF Follows
  <2>3. CASE ReadFd(data)
    BY <1>1, <1>3, <2>3, ReadFdDoes DEF ReadFd
  <2> QED BY <2>1, <2>2, <2>3
<1>5. BufInv'
  BY <1>1, <1>2, <1>4, FollowsNext
<1>6. QueueStep
  BY <1>1, <1>2, <1>4, Writes DEF Follows
<1> QED BY <1>5, <1>6

\* EnsureWritable and Shrink.
LEMMA RoomSteps ==
  ASSUME BufInv, NEW n \in 0..MaxLength, EnsureWritable(n) \/ Shrink(n)
  PROVE  BufInv' /\ QueueStep
<1>1. Usable /\ call' = call /\ n \in Nat /\ n <= MaxLength
  BY BufferAssumption DEF EnsureWritable, Shrink
<1>2. /\ prepended \in Nat /\ Good(b) /\ kCheapPrepend <= Len(b.buffer_)
      /\ readableBytes(b) \in Nat /\ readableBytes(b) <= MaxReadable
      /\ kCheapPrepend \in Nat /\ kInitialSize \in Nat /\ MaxReadable \in Nat /\ MaxLength \in Nat
  BY <1>1, InUse
<1>3. CASE EnsureWritable(n)
  <2>1. Follows(b, b', <<>>, n) /\ prepended' = prepended
    BY <1>1, <1>2, <1>3, EnsureDoes DEF EnsureWritable
  <2>2. <<>> \in Seq(Byte) /\ Len(<<>>) = 0 /\ readableBytes(b) + 0 <= MaxReadable
    BY <1>2, EmptySeq
  <2>3. BufInv'
    BY <1>1, <2>1, <2>2, FollowsNext
  <2>4. toStringView(b') = toStringView(b)
    BY <1>2, <2>1, ViewType, ConcatEmptySeq DEF Follows
  <2> QED BY <1>1, <2>3, <2>4 DEF QueueStep
<1>4. CASE Shrink(n)
  <2>1. b' = shrink(b, n) /\ prepended' = 0
    BY <1>4 DEF Shrink
  <2>2. /\ Good(b') /\ toStringView(b') = toStringView(b) /\ readableBytes(b') = readableBytes(b)
        /\ b'.readerIndex_ = kCheapPrepend /\ kCheapPrepend <= Len(b'.buffer_)
        /\ \/ Len(b'.buffer_) <= kCheapPrepend + kInitialSize
           \/ Len(b'.buffer_) <= kCheapPrepend + readableBytes(b) + n
    BY <1>1, <1>2, <2>1, ShrinkDoes
  <2>3. Len(b'.buffer_) \in Nat
    BY <2>2 DEF Good
  <2>4. Len(b'.buffer_) <= kCheapPrepend + kInitialSize + MaxReadable + 2 * MaxLength
    BY <1>1, <1>2, <2>2, <2>3
  <2>5. BufInv'
    BY <1>2, <2>1, <2>2, <2>4, GoodNext
  <2> QED BY <1>1, <2>2, <2>5 DEF QueueStep
<1> QED BY <1>3, <1>4

\* Retrieve and ReadInt.
LEMMA ReadSteps ==
  ASSUME BufInv, NEW n \in Nat, Retrieve(n) \/ (ReadInt(n) /\ n # 0)
  PROVE  BufInv' /\ QueueStep
<1> DEFINE data == Slice(b, b.readerIndex_, n)  x == peekInt(b, n)
<1>1. /\ Usable /\ n <= readableBytes(b) /\ b' = retrieve(b, n) /\ prepended' = LeftOf(n)
      /\ \/ call' = [op |-> "read", data |-> data, int |-> 0]
         \/ call' = [op |-> "readInt", data |-> data, int |-> x] /\ n # 0
  BY DEF Retrieve, ReadInt, Called, CalledWith
<1>2. /\ prepended \in Nat /\ Good(b) /\ kCheapPrepend <= Len(b.buffer_)
      /\ readableBytes(b) \in Nat /\ readableBytes(b) <= MaxReadable
      /\ b.readerIndex_ \in Nat /\ b.readerIndex_ + prepended >= kCheapPrepend
      /\ Len(b.buffer_) <= kCheapPrepend + kInitialSize + MaxReadable + 2 * MaxLength
      /\ kCheapPrepend \in Nat /\ MaxReadable \in Nat
  BY <1>1, InUse
<1>3. n \in 0..readableBytes(b)
  BY <1>1, <1>2
<1>4. /\ Good(b') /\ toStringView(b) = data \o toStringView(b')
      /\ readableBytes(b') = readableBytes(b) - n /\ Len(b'.buffer_) = Len(b.buffer_)
      /\ b'.readerIndex_ = IF n < readableBytes(b) THEN b.readerIndex_ + n ELSE kCheapPrepend
  BY <1>1, <1>2, <1>3, RetrieveDoes
<1>5. prepended' \in Nat /\ b'.readerIndex_ + prepended' >= kCheapPrepend
  BY <1>1, <1>2, <1>4 DEF LeftOf
<1>6. readableBytes(b') <= MaxReadable
  BY <1>1, <1>2, <1>4
<1>7. BufInv'
  BY <1>2, <1>4, <1>5, <1>6, GoodNext
<1>8. data \in Seq(Byte) /\ Len(data) = n
  <2>1. b.readerIndex_ + n <= Len(b.buffer_)
    BY <1>1, <1>2 DEF Good, readableBytes
  <2> QED BY <1>2, <2>1, SliceType
<1>9. n # 0 => Promised!IsInt(data, x)
  BY <1>8, ReadIntIs DEF peekInt
<1> HIDE DEF data, x
<1>10. QueueStep
  BY <1>1, <1>4, <1>8, <1>9, Reads
<1> QED BY <1>7, <1>10

\* UnWrite.
LEMMA UnWriteStep ==
  ASSUME BufInv, NEW n \in 0..MaxReadable, UnWrite(n)
  PROVE  BufInv' /\ QueueStep
<1> DEFINE data == Slice(b, b.writerIndex_ - n, n)
<1>1. /\ Usable /\ n <= readableBytes(b) /\ b' = [b EXCEPT !.writerIndex_ = b.writerIndex_ - n]
      /\ call' = [op |-> "unwrite", data |-> data, int |-> 0] /\ prepended' = prepended
  BY DEF UnWrite, Called, CalledWith
<1>2. /\ prepended \in Nat /\ Good(b) /\ kCheapPrepend <= Len(b.buffer_)
      /\ readableBytes(b) \in Nat /\ readableBytes(b) <= MaxReadable
      /\ b.readerIndex_ \in Nat /\ b.readerIndex_ + prepended >= kCheapPrepend
      /\ Len(b.buffer_) <= kCheapPrepend + kInitialSize + MaxReadable + 2 * MaxLength
      /\ kCheapPrepend \in Nat /\ MaxReadable \in Nat
  BY <1>1, InUse
<1>3. n \in 0..readableBytes(b) /\ n \in Nat
  BY <1>1, <1>2
<1>4. /\ Good(b') /\ toStringView(b) = toStringView(b') \o data /\ data \in Seq(Byte)
      /\ readableBytes(b') = readableBytes(b) - n
      /\ b'.buffer_ = b.buffer_ /\ b'.readerIndex_ = b.readerIndex_
  BY <1>1, <1>2, <1>3, UnWriteDoes
<1>5. readableBytes(b') <= MaxReadable
  BY <1>2, <1>3, <1>4
<1>6. BufInv'
  BY <1>1, <1>2, <1>4, <1>5, GoodNext
<1> HIDE DEF data
<1>7. call'.data = data /\ toStringView(b) = toStringView(b)' \o data
  BY <1>1, <1>4
<1>8. Promised!Next
  BY <1>1, <1>4, <1>7 DEF Promised!Next, Promised!Unwrite
<1> QED BY <1>6, <1>8 DEF QueueStep

\* Prepending bytes or an integer.
LEMMA PrependStep ==
  ASSUME BufInv, Usable, NEW data \in Seq(Byte), NEW x,
         Len(data) <= prependableBytes(b), readableBytes(b) + Len(data) <= MaxReadable,
         b' = prepend(b, data), prepended' = prepended + Len(data),
         \/ call' = [op |-> "prepend", data |-> data, int |-> 0]
         \/ call' = [op |-> "prependInt", data |-> data, int |-> x] /\ Promised!IsInt(data, x)
  PROVE  BufInv' /\ QueueStep
<1>1. /\ prepended \in Nat /\ Good(b) /\ kCheapPrepend <= Len(b.buffer_)
      /\ b.readerIndex_ \in Nat /\ b.readerIndex_ + prepended >= kCheapPrepend
      /\ Len(b.buffer_) <= kCheapPrepend + kInitialSize + MaxReadable + 2 * MaxLength
      /\ kCheapPrepend \in Nat /\ Len(data) \in Nat
  BY InUse
<1>2. /\ Good(b') /\ toStringView(b') = data \o toStringView(b)
      /\ readableBytes(b') = readableBytes(b) + Len(data) /\ Len(b'.buffer_) = Len(b.buffer_)
      /\ b'.readerIndex_ = b.readerIndex_ - Len(data)
  BY <1>1, PrependDoes
<1>3. prepended' \in Nat /\ b'.readerIndex_ + prepended' >= kCheapPrepend
  BY <1>1, <1>2
<1>4. BufInv'
  BY <1>1, <1>2, <1>3, GoodNext
<1>5. QueueStep
  BY <1>2, Prepends
<1> QED BY <1>4, <1>5

\* reset() leaves nothing, and nothing can be called after it.
LEMMA ResetStep ==
  ASSUME BufInv, Reset
  PROVE  BufInv' /\ QueueStep
<1>1. /\ Usable /\ prepended' = 0
      /\ b' = [buffer_ |-> <<>>, readerIndex_ |-> kCheapPrepend, writerIndex_ |-> kCheapPrepend]
      /\ call' = [op |-> "read", data |-> toStringView(b), int |-> 0]
  BY DEF Reset, Called, CalledWith
<1>2. /\ Good(b) /\ kCheapPrepend \in Nat \ {0} /\ kInitialSize \in Nat /\ MaxReadable \in Nat
      /\ MaxLength \in Nat
  BY <1>1, InUse, BufferAssumption
<1>3. /\ b'.buffer_ = <<>> /\ b'.readerIndex_ = kCheapPrepend /\ b'.writerIndex_ = kCheapPrepend
      /\ Len(<<>>) = 0
  BY <1>1
<1>4. BufInv'
  BY <1>1, <1>2, <1>3 DEF BufInv, Usable, PrependRoom, SpaceIsReused, prependableBytes
<1>5. toStringView(b') = <<>>
  <2>1. readableBytes(b') = 0
    BY <1>2, <1>3 DEF readableBytes
  <2> QED BY <2>1 DEF toStringView, Slice
<1>6. toStringView(b) \in Seq(Byte) /\ toStringView(b) = toStringView(b) \o <<>>
  BY <1>2, ViewType, ConcatEmptySeq
<1>7. QueueStep
  BY <1>1, <1>5, <1>6, Reads
<1> QED BY <1>4, <1>7

\* Every step keeps the invariant and is a step of the queue.
LEMMA BufStep ==
  ASSUME BufInv, [Next]_vars
  PROVE  BufInv' /\ QueueStep
<1>1. CASE UNCHANGED vars
  <2>1. BufInv'
    BY <1>1 DEF BufInv, vars, Usable, Good, readableBytes, PrependRoom, SpaceIsReused, prependableBytes
  <2> QED BY <1>1, <2>1 DEF QueueStep, vars, toStringView, Slice, readableBytes
<1>2. ASSUME NEW n \in 0..MaxLength, EnsureWritable(n) \/ Shrink(n) PROVE BufInv' /\ QueueStep
  BY <1>2, RoomSteps
<1>3. ASSUME NEW n \in 0..MaxReadable, Retrieve(n) \/ UnWrite(n) PROVE BufInv' /\ QueueStep
  BY <1>3, ReadSteps, UnWriteStep
<1>4. ASSUME NEW data \in Data, AppendBytes(data) \/ HasWritten(data) \/ ReadFd(data)
      PROVE  BufInv' /\ QueueStep
  BY <1>4, WriteSteps
<1>5. ASSUME NEW data \in Data, Prepend(data) PROVE BufInv' /\ QueueStep
  <2>1. /\ Usable /\ data \in Seq(Byte) /\ Len(data) <= prependableBytes(b)
        /\ readableBytes(b) + Len(data) <= MaxReadable
        /\ b' = prepend(b, data) /\ prepended' = prepended + Len(data)
        /\ call' = [op |-> "prepend", data |-> data, int |-> 0]
    BY <1>5, DataIs DEF Prepend, Called, CalledWith
  <2> QED BY <2>1, PrependStep
<1>6. ASSUME NEW w \in Widths, ReadInt(w) PROVE BufInv' /\ QueueStep
  <2>1. w \in Nat /\ w # 0
    BY BufferAssumption
  <2> QED BY <1>6, <2>1, ReadSteps
<1>7. ASSUME NEW w \in Widths, NEW x \in Ints(w), AppendInt(x, w) PROVE BufInv' /\ QueueStep
  <2> DEFINE data == hostToNetwork(x, w)
  <2>1. w \in Nat \ {0} /\ w \in 0..MaxLength
    BY BufferAssumption
  <2>2. data \in Seq(Byte) /\ Len(data) = w /\ Promised!IsInt(data, x)
    BY <2>1, WrittenInt
  <2>3. /\ Usable /\ readableBytes(b) + w <= MaxReadable /\ b' = append(b, data)
        /\ prepended' = prepended /\ call' = [op |-> "writeInt", data |-> data, int |-> x]
    BY <1>7 DEF AppendInt, CalledWith
  <2> HIDE DEF data
  <2>4. Follows(b, b', data, w)
    <3>1. Good(b) /\ kCheapPrepend <= Len(b.buffer_)
      BY <2>3, InUse
    <3> QED BY <2>2, <2>3, <3>1, AppendDoes
  <2>5. BufInv'
    BY <2>1, <2>2, <2>3, <2>4, FollowsNext
  <2>6. QueueStep
    BY <2>2, <2>3, <2>4, Writes DEF Follows
  <2> QED BY <2>5, <2>6
<1>8. ASSUME NEW w \in Widths, NEW x \in Ints(w), PrependInt(x, w) PROVE BufInv' /\ QueueStep
  <2> DEFINE data == hostToNetwork(x, w)
  <2>1. w \in Nat \ {0}
    BY BufferAssumption
  <2>2. data \in Seq(Byte) /\ Len(data) = w /\ Promised!IsInt(data, x)
    BY <2>1, WrittenInt
  <2>3. /\ Usable /\ w <= prependableBytes(b) /\ readableBytes(b) + w <= MaxReadable
        /\ b' = prepend(b, data) /\ prepended' = prepended + w
        /\ call' = [op |-> "prependInt", data |-> data, int |-> x]
    BY <1>8 DEF PrependInt, CalledWith
  <2> HIDE DEF data
  <2> QED BY <2>2, <2>3, PrependStep
<1>9. CASE Reset
  BY <1>9, ResetStep
<1>10. CASE Next
  BY <1>2, <1>3, <1>4, <1>5, <1>6, <1>7, <1>8, <1>9, <1>10 DEF Next
<1> QED BY <1>1, <1>10

\* The invariant holds in every state.
LEMMA BufInvariant == Spec => []BufInv
<1>1. Init => BufInv
  BY BufInit
<1>2. BufInv /\ [Next]_vars => BufInv'
  BY BufStep
<1> QED BY <1>1, <1>2, PTL DEF Spec

(***************************************************************************)
(* The theorems.                                                           *)
(***************************************************************************)

\* Whatever the sequence of calls and however long the buffer gets, makeSpace, retrieve
\* and shrink keep the room to prepend, and space that was read is used again
\* (Buffer.h:231-299).
THEOREM BufferRoomKept == Spec => []RoomKept
<1>1. BufInv => RoomKept
  BY DEF BufInv, RoomKept
<1> QED BY <1>1, BufInvariant, PTL

\* The buffer is a queue of bytes, for every size of the vector, of extrabuf and of the
\* integers: nothing that was written is lost, repeated, overwritten or read out of
\* order, and integers are written as the bytes from which they are read
\* (Buffer.h:61-299, SocketsHelper.h:75-97).
THEOREM BufferIsByteQueue == Spec => ImplementsByteQueue
<1>1. Init => Promised!Init
  BY BufInit DEF Init, Promised!Init
<1>2. BufInv /\ [Next]_vars => [Promised!Next]_<<toStringView(b), call>>
  BY BufStep DEF QueueStep
<1>3. Promised!Spec <=> Promised!Init /\ [][Promised!Next]_<<toStringView(b), call>>
  BY DEF Promised!Spec, Promised!qvars
<1>4. Spec => Promised!Spec
  BY <1>1, <1>2, <1>3, BufInvariant, PTL DEF Spec
<1> QED BY <1>4 DEF ImplementsByteQueue

-----------------------------------------------------------------------------
(***************************************************************************)
(* The input.  Of a line there are at most three symbols, and each symbol  *)
(* says which one follows.                                                 *)
(***************************************************************************)

Symbol == Nat \X {"text", "\r", "\n"}

\* The first symbol of line k.
FirstSymbol(ls, k) == IF ls[k] = Blank THEN <<k, "\r">> ELSE <<k, "text">>

\* The symbol after x.
SymbolAfter(ls, x) ==
  IF x[2] = "text" THEN <<x[1], "\r">>
  ELSE IF x[2] = "\r" THEN <<x[1], "\n">> ELSE FirstSymbol(ls, x[1] + 1)

\* s are the symbols of the lines of ls from one of them to the last.
SymbolsOf(s, ls) ==
  /\ \A i \in 1..Len(s) : s[i][1] \in 1..Len(ls)
  /\ \A i \in 1 .. Len(s) - 1 : s[i + 1] = SymbolAfter(ls, s[i])
  /\ \A i, j \in 1..Len(s) : i <= j => s[i][1] <= s[j][1]
  /\ s # <<>> => s[1] = FirstSymbol(ls, s[1][1]) /\ s[Len(s)] = <<Len(ls), "\n">>

\* The lines before the first of them.
Before(s, ls) == IF s = <<>> THEN Len(ls) ELSE s[1][1] - 1

LEMMA PairParts ==
  ASSUME NEW x, NEW y, NEW z, z = <<x, y>>
  PROVE  z[1] = x /\ z[2] = y
OBVIOUS

LEMMA FirstSymbolOf ==
  ASSUME NEW ls, NEW k
  PROVE  FirstSymbol(ls, k)[1] = k
<1>1. CASE ls[k] = Blank
  BY <1>1 DEF FirstSymbol
<1>2. CASE ls[k] # Blank
  BY <1>2 DEF FirstSymbol
<1> QED BY <1>1, <1>2

\* A first line that is there is there as a whole.
LEMMA FirstLine ==
  ASSUME NEW ls \in Seq(Texts), NEW s \in Seq(Symbol), SymbolsOf(s, ls), s # <<>>
  PROVE  LET k == s[1][1]
         IN IF ls[k] = Blank
            THEN Len(s) >= 2 /\ s[1] = <<k, "\r">> /\ s[2] = <<k, "\n">>
            ELSE Len(s) >= 3 /\ s[1] = <<k, "text">> /\ s[2] = <<k, "\r">> /\ s[3] = <<k, "\n">>
<1> DEFINE k == s[1][1]
<1>1. s[1] = FirstSymbol(ls, k) /\ s[Len(s)][2] = "\n"
  BY DEF SymbolsOf
<1>4. Len(s) \in Nat /\ Len(s) >= 1
  BY EmptySeq
<1>2. CASE ls[k] = Blank
  <2>1. s[1] = <<k, "\r">>
    BY <1>1, <1>2 DEF FirstSymbol
  <2>2. Len(s) >= 2
    BY <1>1, <1>4, <2>1
  <2>3. s[2] = SymbolAfter(ls, s[1])
    <3>1. 1 \in 1 .. Len(s) - 1 /\ 1 + 1 = 2
      BY <1>4, <2>2
    <3> QED BY <3>1 DEF SymbolsOf
  <2>4. s[2] = <<k, "\n">>
    BY <2>1, <2>3 DEF SymbolAfter
  <2> QED BY <1>4, <1>2, <2>1, <2>2, <2>4
<1>3. CASE ls[k] # Blank
  <2>1. s[1] = <<k, "text">>
    BY <1>1, <1>2, <1>3 DEF FirstSymbol
  <2>2. Len(s) >= 2
    BY <1>1, <1>4, <2>1
  <2>3. s[2] = SymbolAfter(ls, s[1])
    <3>1. 1 \in 1 .. Len(s) - 1 /\ 1 + 1 = 2
      BY <1>4, <2>2
    <3> QED BY <3>1 DEF SymbolsOf
  <2>4. s[2] = <<k, "\r">>
    BY <2>1, <2>3 DEF SymbolAfter
  <2>5. Len(s) >= 3
    BY <1>1, <2>2, <2>4
  <2>6. s[3] = SymbolAfter(ls, s[2])
    <3>1. 2 \in 1 .. Len(s) - 1
      BY <1>4, <2>2, <2>5
    <3>2. s[2 + 1] = SymbolAfter(ls, s[2])
      BY <3>1 DEF SymbolsOf
    <3> QED BY <3>2
  <2>7. s[3] = <<k, "\n">>
    BY <2>4, <2>6 DEF SymbolAfter
  <2> QED BY <1>4, <1>3, <2>1, <2>2, <2>4, <2>5, <2>7
<1> QED BY <1>2, <1>3

\* What is left of a sequence without its first m elements.
LEMMA RestOfSeq ==
  ASSUME NEW S, NEW s \in Seq(S), NEW m \in Nat, m <= Len(s)
  PROVE  /\ SubSeq(s, m + 1, Len(s)) \in Seq(S)
         /\ Len(SubSeq(s, m + 1, Len(s))) = Len(s) - m
         /\ \A i \in 1 .. Len(s) - m : SubSeq(s, m + 1, Len(s))[i] = s[m + i]
<1>1. Len(s) \in Nat /\ m + 1 \in Int /\ \A i \in m + 1 .. Len(s) : s[i] \in S
  OBVIOUS
<1>2. /\ SubSeq(s, m + 1, Len(s)) \in Seq(S)
      /\ Len(SubSeq(s, m + 1, Len(s))) = IF m + 1 <= Len(s) THEN Len(s) - (m + 1) + 1 ELSE 0
      /\ \A i \in 1 .. Len(s) - (m + 1) + 1 : SubSeq(s, m + 1, Len(s))[i] = s[m + 1 + i - 1]
  BY <1>1, SubSeqProperties
<1>3. ASSUME NEW i \in 1 .. Len(s) - m PROVE SubSeq(s, m + 1, Len(s))[i] = s[m + i]
  <2>1. i \in 1 .. Len(s) - (m + 1) + 1 /\ m + 1 + i - 1 = m + i
    BY <1>1
  <2>2. SubSeq(s, m + 1, Len(s))[i] = s[m + 1 + i - 1]
    BY <1>2, <2>1
  <2> QED BY <2>1, <2>2
<1>4. Len(SubSeq(s, m + 1, Len(s))) = Len(s) - m
  BY <1>1, <1>2
<1> QED BY <1>2, <1>3, <1>4

\* The first line is taken away.
LEMMA DropLine ==
  ASSUME NEW ls \in Seq(Texts), NEW s \in Seq(Symbol), SymbolsOf(s, ls),
         NEW m \in Nat, 1 <= m, m <= Len(s), s[m] = <<s[1][1], "\n">>,
         NEW r, r = SubSeq(s, m + 1, Len(s))
  PROVE  /\ r \in Seq(Symbol) /\ SymbolsOf(r, ls)
         /\ Before(r, ls) = Before(s, ls) + 1
<1>1. r \in Seq(Symbol) /\ Len(r) = Len(s) - m /\ \A i \in 1 .. Len(s) - m : r[i] = s[m + i]
  BY RestOfSeq
<1>2. Len(s) \in Nat /\ Len(r) \in Nat /\ s # <<>>
  BY <1>1
<1>3. ASSUME NEW i \in 1..Len(r) PROVE m + i \in 1..Len(s) /\ r[i] = s[m + i]
  BY <1>1, <1>2
<1>4. ASSUME NEW i \in 1..Len(r) PROVE r[i][1] \in 1..Len(ls)
  BY <1>3 DEF SymbolsOf
<1>5. ASSUME NEW i \in 1 .. Len(r) - 1 PROVE r[i + 1] = SymbolAfter(ls, r[i])
  <2>1. m + i \in 1 .. Len(s) - 1 /\ m + (i + 1) = (m + i) + 1 /\ i \in 1..Len(r) /\ i + 1 \in 1..Len(r)
    BY <1>1, <1>2
  <2>2. s[(m + i) + 1] = SymbolAfter(ls, s[m + i])
    BY <2>1 DEF SymbolsOf
  <2> QED BY <1>3, <2>1, <2>2
<1>6. ASSUME NEW i \in 1..Len(r), NEW j \in 1..Len(r), i <= j PROVE r[i][1] <= r[j][1]
  <2>1. m + i <= m + j
    BY <1>6, <1>2
  <2>2. s[m + i][1] <= s[m + j][1]
    BY <1>3, <2>1 DEF SymbolsOf
  <2> QED BY <1>3, <2>2
<1>7. s[1][1] \in 1..Len(ls) /\ s[Len(s)] = <<Len(ls), "\n">>
  BY <1>2 DEF SymbolsOf
<1>8. ASSUME r # <<>>
      PROVE  /\ r[1] = FirstSymbol(ls, r[1][1]) /\ r[Len(r)] = <<Len(ls), "\n">>
             /\ r[1][1] = s[1][1] + 1
  <2>1. Len(r) >= 1 /\ m \in 1 .. Len(s) - 1 /\ m + Len(r) = Len(s) /\ 1 \in 1..Len(r) /\ Len(r) \in 1..Len(r)
    BY <1>1, <1>2, <1>8
  <2>2. s[m + 1] = SymbolAfter(ls, s[m])
    BY <2>1 DEF SymbolsOf
  <2>3. s[m][1] = s[1][1] /\ s[m][2] = "\n"
    OBVIOUS
  <2>4. s[m + 1] = FirstSymbol(ls, s[1][1] + 1)
    BY <2>2, <2>3 DEF SymbolAfter
  <2>5. s[m + 1][1] = s[1][1] + 1
    BY <2>4 DEF FirstSymbol
  <2>6. r[1] = s[m + 1] /\ r[Len(r)] = s[Len(s)]
    BY <1>3, <2>1
  <2> QED BY <1>7, <2>4, <2>5, <2>6
<1>9. ASSUME r = <<>> PROVE s[1][1] = Len(ls)
  <2>1. Len(r) = 0
    BY ONLY <1>9
  <2>2. m = Len(s)
    BY <1>1, <2>1
  <2> QED BY <1>7, <2>2
<1>10. SymbolsOf(r, ls)
  BY <1>4, <1>5, <1>6, <1>8 DEF SymbolsOf
<1>11. Before(r, ls) = Before(s, ls) + 1
  <2>1. Before(s, ls) = s[1][1] - 1 /\ s[1][1] \in Int
    BY <1>2, <1>7 DEF Before
  <2>2. CASE r = <<>>
    BY <1>9, <2>1, <2>2 DEF Before
  <2>3. CASE r # <<>>
    BY <1>8, <2>1, <2>3 DEF Before
  <2> QED BY <2>2, <2>3
<1> QED BY <1>1, <1>10, <1>11

\* a are the symbols of a line with number k.
LineSymbols(a, k, text) ==
  /\ a \in Seq(Symbol) /\ Len(a) >= 2
  /\ a[1] = IF text = Blank THEN <<k, "\r">> ELSE <<k, "text">>
  /\ a[Len(a)] = <<k, "\n">>
  /\ \A i \in 1..Len(a) : a[i][1] = k
  /\ \A i \in 1 .. Len(a) - 1 :
       \/ a[i][2] = "text" /\ a[i + 1] = <<k, "\r">>
       \/ a[i][2] = "\r" /\ a[i + 1] = <<k, "\n">>

LEMMA SymbolsAre ==
  ASSUME NEW k \in Nat, NEW text
  PROVE  LineSymbols(Symbols(k, text), k, text)
<1> SUFFICES ASSUME NEW a, a = Symbols(k, text) PROVE LineSymbols(a, k, text)
  OBVIOUS
<1> DEFINE q == << <<k, "\r">>, <<k, "\n">> >>
           p == << <<k, "text">> >>
<1>1. <<k, "text">> \in Symbol /\ <<k, "\r">> \in Symbol /\ <<k, "\n">> \in Symbol
  BY DEF Symbol
<1>2. q \in Seq(Symbol) /\ p \in Seq(Symbol) /\ Len(q) = 2 /\ Len(p) = 1
  <2> HIDE DEF Symbol
  <2> QED BY <1>1
<1>3. CASE text = Blank
  <2>1. a = q
    <3>1. a = <<>> \o q
      BY <1>3 DEF Symbols
    <3> QED BY <1>2, <3>1, ConcatEmptySeq
  <2>2. a[1] = <<k, "\r">> /\ a[2] = <<k, "\n">> /\ Len(a) = 2
    BY <2>1
  <2>3. \A i \in 1..Len(a) : i = 1 \/ i = 2
    BY <2>2
  <2>4. \A i \in 1 .. Len(a) - 1 : i = 1 /\ i + 1 = 2
    BY <2>2
  <2>5. a \in Seq(Symbol)
    BY <1>2, <2>1
  <2> QED BY <1>3, <2>2, <2>3, <2>4, <2>5 DEF LineSymbols
<1>4. CASE text # Blank
  <2>1. a = p \o q
    BY <1>4 DEF Symbols
  <2>2. /\ a \in Seq(Symbol) /\ Len(a) = Len(p) + Len(q)
        /\ \A i \in 1 .. Len(p) + Len(q) : a[i] = IF i <= Len(p) THEN p[i] ELSE q[i - Len(p)]
    <3> HIDE DEF p, q
    <3>1. /\ p \o q \in Seq(Symbol) /\ Len(p \o q) = Len(p) + Len(q)
          /\ \A i \in 1 .. Len(p) + Len(q) : (p \o q)[i] = IF i <= Len(p) THEN p[i] ELSE q[i - Len(p)]
      BY ONLY <1>2, ConcatProperties
    <3> QED BY ONLY <2>1, <3>1
  <2>3. Len(a) = 3 /\ \A i \in 1..3 : a[i] = IF i <= 1 THEN p[i] ELSE q[i - 1]
    BY <1>2, <2>2
  <2>4. a[1] = p[1] /\ a[2] = q[1] /\ a[3] = q[2]
    BY <2>3
  <2>5. a[1] = <<k, "text">> /\ a[2] = <<k, "\r">> /\ a[3] = <<k, "\n">>
    BY <2>4
  <2>6. \A i \in 1..Len(a) : i = 1 \/ i = 2 \/ i = 3
    BY <2>3
  <2>7. \A i \in 1 .. Len(a) - 1 : (i = 1 /\ i + 1 = 2) \/ (i = 2 /\ i + 1 = 3)
    BY <2>3
  <2>8. ASSUME NEW i \in 1..Len(a) PROVE a[i][1] = k
    BY <2>5, <2>6
  <2>9. ASSUME NEW i \in 1 .. Len(a) - 1
        PROVE  \/ a[i][2] = "text" /\ a[i + 1] = <<k, "\r">>
               \/ a[i][2] = "\r" /\ a[i + 1] = <<k, "\n">>
    BY <2>5, <2>7
  <2>10. a \in Seq(Symbol) /\ Len(a) >= 2 /\ a[Len(a)] = <<k, "\n">>
    BY <2>2, <2>3, <2>5
  <2> HIDE DEF p, q
  <2> QED BY ONLY <1>4, <2>5, <2>8, <2>9, <2>10 DEF LineSymbols
<1> QED BY <1>3, <1>4

\* The lines ls2 and the symbols r are those of ls and s with one line more.
Adds(ls, s, text, ls2, r) == ls2 = Append(ls, text) /\ r = s \o Symbols(Len(ls) + 1, text)

LEMMA AddLine ==
  ASSUME NEW ls \in Seq(Texts), NEW s \in Seq(Symbol), SymbolsOf(s, ls), NEW text \in Texts,
         NEW ls2, NEW r, Adds(ls, s, text, ls2, r)
  PROVE  /\ ls2 \in Seq(Texts) /\ Len(ls2) = Len(ls) + 1
         /\ r \in Seq(Symbol) /\ SymbolsOf(r, ls2) /\ Before(r, ls2) = Before(s, ls)
<1> DEFINE a == Symbols(Len(ls) + 1, text)
<1> USE DEF Adds
<1>1. /\ ls2 \in Seq(Texts) /\ Len(ls2) = Len(ls) + 1 /\ ls2[Len(ls) + 1] = text
      /\ \A i \in 1..Len(ls) : ls2[i] = ls[i]
  BY AppendProperties
<1> DEFINE k == Len(ls) + 1
<1>2. k \in Nat /\ Len(ls) \in Nat /\ Len(s) \in Nat /\ k = Len(ls) + 1 /\ a = Symbols(k, text)
  OBVIOUS
<1> HIDE DEF a, k
<1>20. LineSymbols(a, k, text)
  BY <1>2, SymbolsAre
<1>3. /\ a \in Seq(Symbol) /\ Len(a) >= 2
      /\ a[1] = IF text = Blank THEN <<k, "\r">> ELSE <<k, "text">>
      /\ a[Len(a)] = <<k, "\n">>
      /\ \A i \in 1..Len(a) : a[i][1] = k
  BY <1>20 DEF LineSymbols
<1>4. /\ r \in Seq(Symbol) /\ Len(r) = Len(s) + Len(a)
      /\ \A i \in 1 .. Len(s) + Len(a) : r[i] = IF i <= Len(s) THEN s[i] ELSE a[i - Len(s)]
  <2>1. r = s \o a
    BY DEF a
  <2>2. /\ s \o a \in Seq(Symbol) /\ Len(s \o a) = Len(s) + Len(a)
        /\ \A i \in 1 .. Len(s) + Len(a) : (s \o a)[i] = IF i <= Len(s) THEN s[i] ELSE a[i - Len(s)]
    BY ONLY s \in Seq(Symbol), <1>3, ConcatProperties
  <2> QED BY ONLY <2>1, <2>2
<1>5. ASSUME NEW i \in 1..Len(s) PROVE i \in 1..Len(r) /\ r[i] = s[i] /\ s[i][1] \in 1..Len(ls)
  BY <1>2, <1>3, <1>4 DEF SymbolsOf
<1>6. ASSUME NEW i \in 1..Len(a) PROVE r[Len(s) + i] = a[i] /\ a[i][1] = k
  <2>1. Len(a) \in Nat
    BY <1>3
  <2>2. Len(s) + i \in 1 .. Len(s) + Len(a) /\ ~(Len(s) + i <= Len(s)) /\ (Len(s) + i) - Len(s) = i
    BY <1>2, <2>1
  <2>3. r[Len(s) + i] = a[(Len(s) + i) - Len(s)]
    BY <1>4, <2>2
  <2> QED BY <1>3, <2>2, <2>3
<1>7. ASSUME NEW i \in 1..Len(r) PROVE i \in 1..Len(s) \/ \E j \in 1..Len(a) : i = Len(s) + j
  <2>1. CASE ~(i <= Len(s))
    <3>1. i - Len(s) \in 1..Len(a) /\ i = Len(s) + (i - Len(s))
      BY <1>2, <1>3, <1>4, <2>1
    <3> QED BY <3>1
  <2> QED BY <2>1
<1>8. ASSUME NEW i \in 1..Len(r) PROVE r[i][1] \in 1..k
  <2>1. CASE i \in 1..Len(s)
    <3>1. r[i][1] \in 1..Len(ls)
      BY <1>5, <2>1
    <3> QED BY <1>2, <3>1
  <2>2. CASE i \notin 1..Len(s)
    <3>1. PICK j \in 1..Len(a) : i = Len(s) + j
      BY <1>7, <2>2
    <3>2. r[i][1] = k
      BY <1>6, <3>1
    <3> QED BY <1>2, <3>2
  <2> QED BY <2>1, <2>2
<1>9. ASSUME NEW i \in 1..Len(ls) PROVE FirstSymbol(ls2, i) = FirstSymbol(ls, i)
  BY <1>1 DEF FirstSymbol
<1>10. a[1] = FirstSymbol(ls2, k)
  BY <1>1, <1>2, <1>3 DEF FirstSymbol
<1>11. ASSUME NEW i \in 1 .. Len(s) - 1 PROVE r[i + 1] = SymbolAfter(ls2, r[i])
  <2>1. i \in 1..Len(s) /\ i + 1 \in 1..Len(s)
    BY <1>2
  <2>2. s[i + 1] = SymbolAfter(ls, s[i])
    BY DEF SymbolsOf
  <2>3. s[i][1] \in 1..Len(ls) /\ s[i + 1][1] \in 1..Len(ls)
    BY <1>5, <2>1
  <2>4. SymbolAfter(ls2, s[i]) = SymbolAfter(ls, s[i])
    <3>1. CASE s[i][2] = "text" \/ s[i][2] = "\r"
      BY <3>1 DEF SymbolAfter
    <3>2. CASE ~(s[i][2] = "text" \/ s[i][2] = "\r")
      <4>1. s[i + 1] = FirstSymbol(ls, s[i][1] + 1)
        BY <2>2, <3>2 DEF SymbolAfter
      <4>2. s[i + 1][1] = s[i][1] + 1
        BY <4>1 DEF FirstSymbol
      <4>3. s[i][1] + 1 \in 1..Len(ls)
        BY <2>3, <4>2
      <4> QED BY <1>9, <3>2, <4>3 DEF SymbolAfter
    <3> QED BY <3>1, <3>2
  <2> QED BY <1>5, <2>1, <2>2, <2>4
<1>12. ASSUME NEW i \in 1 .. Len(a) - 1 PROVE r[(Len(s) + i) + 1] = SymbolAfter(ls2, r[Len(s) + i])
  <2>1. i \in 1..Len(a) /\ i + 1 \in 1..Len(a) /\ Len(s) + (i + 1) = (Len(s) + i) + 1
    BY <1>2, <1>3
  <2>2. r[Len(s) + i] = a[i] /\ r[(Len(s) + i) + 1] = a[i + 1] /\ a[i][1] = k
    BY <1>6, <2>1
  <2>3. \/ a[i][2] = "text" /\ a[i + 1] = <<k, "\r">>
        \/ a[i][2] = "\r" /\ a[i + 1] = <<k, "\n">>
    BY <1>20 DEF LineSymbols
  <2> QED BY <2>2, <2>3 DEF SymbolAfter
<1>13. r[Len(s) + 1] = a[1] /\ r[Len(r)] = <<k, "\n">>
  <2>1. 1 \in 1..Len(a) /\ Len(a) \in 1..Len(a)
    BY <1>3
  <2> QED BY <1>3, <1>4, <1>6, <2>1
<1>14. ASSUME s # <<>>
       PROVE  /\ r[Len(s) + 1] = SymbolAfter(ls2, r[Len(s)])
              /\ r[1] = s[1] /\ s[1] = FirstSymbol(ls2, s[1][1])
  <2>1. Len(s) >= 1 /\ s[Len(s)] = <<Len(ls), "\n">> /\ s[1] = FirstSymbol(ls, s[1][1])
    BY <1>14 DEF SymbolsOf
  <2>2. 1 \in 1..Len(s) /\ Len(s) \in 1..Len(s)
    BY <1>2, <2>1
  <2>3. r[1] = s[1] /\ r[Len(s)] = <<Len(ls), "\n">> /\ s[1][1] \in 1..Len(ls)
    BY <1>5, <2>1, <2>2
  <2>4. SymbolAfter(ls2, r[Len(s)]) = FirstSymbol(ls2, k)
    <3>1. r[Len(s)][1] = Len(ls) /\ r[Len(s)][2] = "\n"
      <4>1. r[Len(s)] = <<Len(ls), "\n">>
        BY <2>3
      <4> QED BY ONLY <4>1, PairParts
    <3>2. SymbolAfter(ls2, r[Len(s)]) = FirstSymbol(ls2, Len(ls) + 1)
      BY <3>1 DEF SymbolAfter
    <3> QED BY <1>2, <3>2
  <2> QED BY <1>9, <1>10, <1>13, <2>1, <2>3, <2>4
<1>15. ASSUME NEW i \in 1 .. Len(r) - 1 PROVE r[i + 1] = SymbolAfter(ls2, r[i])
  <2>1. CASE i < Len(s)
    <3>1. i \in 1 .. Len(s) - 1
      BY <1>2, <2>1
    <3> QED BY <1>11, <3>1
  <2>2. CASE i = Len(s)
    <3>1. s # <<>>
      BY <2>2
    <3> QED BY <1>14, <2>2, <3>1
  <2>3. CASE i > Len(s)
    <3>1. i - Len(s) \in 1 .. Len(a) - 1 /\ Len(s) + (i - Len(s)) = i
      BY <1>2, <1>3, <1>4, <2>3
    <3>2. r[(Len(s) + (i - Len(s))) + 1] = SymbolAfter(ls2, r[Len(s) + (i - Len(s))])
      BY <1>12, <3>1
    <3> QED BY <3>1, <3>2
  <2> QED BY <1>2, <2>1, <2>2, <2>3
<1>16. ASSUME NEW i \in 1..Len(r), NEW j \in 1..Len(r), i <= j PROVE r[i][1] <= r[j][1]
  <2>1. CASE j \in 1..Len(s)
    <3>1. i \in 1..Len(s)
      BY <1>2, <1>16, <2>1
    <3>2. s[i][1] <= s[j][1]
      BY <1>16, <2>1, <3>1 DEF SymbolsOf
    <3> QED BY <1>5, <2>1, <3>1, <3>2
  <2>2. CASE j \notin 1..Len(s)
    <3>3. PICK h \in 1..Len(a) : j = Len(s) + h
      BY <1>7, <2>2
    <3>1. r[j][1] = k
      BY <1>6, <3>3
    <3>2. r[i][1] \in 1..k
      BY <1>8
    <3> QED BY <1>2, <3>1, <3>2
  <2> QED BY <2>1, <2>2
<1>17. r # <<>> /\ r[1] = FirstSymbol(ls2, r[1][1]) /\ Before(r, ls2) = Before(s, ls)
  <2>1. Len(r) >= 2
    BY <1>2, <1>3, <1>4
  <2>2. CASE s = <<>>
    <3>1. r[1] = FirstSymbol(ls2, k)
      BY <1>10, <1>13, <2>2
    <3>2. r[1][1] = k
      BY <3>1, FirstSymbolOf
    <3> QED BY <1>2, <2>1, <2>2, <3>1, <3>2 DEF Before
  <2>3. CASE s # <<>>
    BY <1>14, <2>1, <2>3 DEF Before
  <2> QED BY <2>2, <2>3
<1>18. SymbolsOf(r, ls2)
  BY <1>1, <1>2, <1>8, <1>13, <1>15, <1>16, <1>17 DEF SymbolsOf
<1> QED BY <1>1, <1>4, <1>17, <1>18

(***************************************************************************)
(* What findCRLF finds.                                                    *)
(***************************************************************************)

\* The input that parseRequest has not taken, read and not read.
stream == inputBuffer_ \o socket

\* The lines it has taken, and those that were read as a whole.
taken == Before(stream, lines)
arrived == Before(socket, lines)

InputOK ==
  /\ lines \in Seq(Texts)
  /\ inputBuffer_ \in Seq(Symbol)
  /\ socket \in Seq(Symbol)
  /\ SymbolsOf(stream, lines)

\* The symbols read come first.
LEMMA StreamIs ==
  ASSUME InputOK
  PROVE  /\ stream \in Seq(Symbol) /\ Len(stream) = Len(inputBuffer_) + Len(socket)
         /\ Len(inputBuffer_) \in Nat /\ Len(socket) \in Nat /\ Len(lines) \in Nat
         /\ \A i \in 1..Len(inputBuffer_) : i \in 1..Len(stream) /\ stream[i] = inputBuffer_[i]
         /\ socket # <<>> => /\ Len(inputBuffer_) + 1 \in 1..Len(stream)
                             /\ stream[Len(inputBuffer_) + 1] = socket[1]
<1>1. inputBuffer_ \in Seq(Symbol) /\ socket \in Seq(Symbol) /\ Len(lines) \in Nat
  BY DEF InputOK
<1>2. Len(inputBuffer_) \in Nat /\ Len(socket) \in Nat
  BY <1>1
<1>3. /\ stream \in Seq(Symbol) /\ Len(stream) = Len(inputBuffer_) + Len(socket)
      /\ \A i \in 1 .. Len(inputBuffer_) + Len(socket) :
           stream[i] = IF i <= Len(inputBuffer_) THEN inputBuffer_[i]
                       ELSE socket[i - Len(inputBuffer_)]
  BY ONLY <1>1, ConcatProperties DEF stream
<1>4. ASSUME NEW i \in 1..Len(inputBuffer_)
      PROVE  i \in 1..Len(stream) /\ stream[i] = inputBuffer_[i]
  <2>1. i \in 1 .. Len(inputBuffer_) + Len(socket) /\ i <= Len(inputBuffer_)
    BY <1>2
  <2> QED BY <1>3, <2>1
<1>5. ASSUME socket # <<>>
      PROVE  /\ Len(inputBuffer_) + 1 \in 1..Len(stream)
             /\ stream[Len(inputBuffer_) + 1] = socket[1]
  <2>1. Len(socket) >= 1
    BY <1>1, <1>5
  <2>2. /\ Len(inputBuffer_) + 1 \in 1 .. Len(inputBuffer_) + Len(socket)
        /\ ~(Len(inputBuffer_) + 1 <= Len(inputBuffer_))
        /\ (Len(inputBuffer_) + 1) - Len(inputBuffer_) = 1
    BY <1>2, <2>1
  <2>3. stream[Len(inputBuffer_) + 1] = socket[(Len(inputBuffer_) + 1) - Len(inputBuffer_)]
    BY <1>3, <2>2
  <2> QED BY <1>3, <2>2, <2>3
<1> QED BY <1>1, <1>2, <1>3, <1>4, <1>5

\* A line is found: it is the first that was not taken, and it was read as a whole.
LEMMA LineFound ==
  ASSUME InputOK, CRLFs # {}
  PROVE  /\ findCRLF \in Nat /\ 1 <= findCRLF /\ findCRLF + 1 <= Len(inputBuffer_)
         /\ stream # <<>> /\ stream[findCRLF + 1] = <<stream[1][1], "\n">>
         /\ taken + 1 \in 1..Len(lines) /\ Line = lines[taken + 1]
<1>1. /\ stream \in Seq(Symbol) /\ Len(stream) = Len(inputBuffer_) + Len(socket)
      /\ Len(inputBuffer_) \in Nat /\ Len(socket) \in Nat /\ Len(lines) \in Nat
      /\ \A i \in 1..Len(inputBuffer_) : i \in 1..Len(stream) /\ stream[i] = inputBuffer_[i]
  BY StreamIs
<1>2. lines \in Seq(Texts) /\ SymbolsOf(stream, lines)
  BY DEF InputOK
<1>3. PICK c \in 1 .. Len(inputBuffer_) - 1 :
        inputBuffer_[c][2] = "\r" /\ inputBuffer_[c + 1][2] = "\n"
  BY DEF CRLFs
<1>4. Len(inputBuffer_) >= 2 /\ 1 \in 1..Len(inputBuffer_) /\ 1 \in 1 .. Len(inputBuffer_) - 1
      /\ 2 \in 1..Len(inputBuffer_) /\ c \in Nat
  BY <1>1, <1>3
<1>5. Len(stream) >= 2 /\ stream # <<>>
  BY <1>1, <1>4
<1> DEFINE k == stream[1][1]
<1>6. k \in 1..Len(lines)
  <2>1. 1 \in 1..Len(stream)
    BY <1>1, <1>4
  <2> QED BY <1>2, <2>1 DEF SymbolsOf
<1>7. taken = k - 1 /\ taken + 1 = k
  BY <1>1, <1>5, <1>6 DEF taken, Before
<1>8. inputBuffer_[1] = stream[1] /\ inputBuffer_[2] = stream[2]
  BY <1>1, <1>4
<1>9. CASE lines[k] = Blank
  <2>1. stream[1] = <<k, "\r">> /\ stream[2] = <<k, "\n">>
    BY <1>1, <1>2, <1>5, <1>9, FirstLine
  <2>2. 1 + 1 = 2 /\ inputBuffer_[1][2] = "\r" /\ inputBuffer_[2][2] = "\n"
    BY <1>8, <2>1, PairParts
  <2>3. 1 \in CRLFs /\ \A j \in CRLFs : 1 <= j
    BY <1>4, <2>2 DEF CRLFs
  <2>4. findCRLF = 1
    <3>1. findCRLF \in CRLFs /\ \A j \in CRLFs : findCRLF <= j
      BY <2>3 DEF findCRLF, First
    <3>2. findCRLF <= 1 /\ 1 <= findCRLF /\ findCRLF \in Int
      BY <2>3, <3>1 DEF CRLFs
    <3> QED BY <3>2
  <2>5. Line = Blank
    BY <2>4 DEF Line
  <2> QED BY <1>4, <1>5, <1>6, <1>7, <1>9, <2>1, <2>4, <2>5
<1>10. CASE lines[k] # Blank
  <2>1. stream[1] = <<k, "text">> /\ stream[2] = <<k, "\r">> /\ stream[3] = <<k, "\n">>
    BY <1>1, <1>2, <1>5, <1>10, FirstLine
  <2>2. inputBuffer_[1][2] = "text" /\ inputBuffer_[2][2] = "\r" /\ inputBuffer_[1][1] = k
    BY <1>8, <2>1, PairParts
  <2>3. c # 1
    BY <1>3, <2>2
  <2>4. c >= 2
    BY <1>3, <1>4, <2>3
  <2>5. Len(inputBuffer_) >= 3 /\ 3 \in 1..Len(inputBuffer_) /\ 2 \in 1 .. Len(inputBuffer_) - 1
    BY <1>1, <1>3, <2>4
  <2>6. 2 + 1 = 3 /\ inputBuffer_[3] = stream[3]
    BY <1>1, <2>5
  <2>7. inputBuffer_[3][2] = "\n"
    BY <2>1, <2>6, PairParts
  <2>8. 2 \in CRLFs
    BY <2>2, <2>5, <2>6, <2>7 DEF CRLFs
  <2>9. ASSUME NEW j \in CRLFs PROVE j \in Int /\ 2 <= j
    <3>1. j \in 1 .. Len(inputBuffer_) - 1 /\ inputBuffer_[j][2] = "\r"
      BY DEF CRLFs
    <3>2. j # 1
      BY <2>2, <3>1
    <3> QED BY <1>1, <3>1, <3>2
  <2>10. findCRLF = 2
    <3>1. findCRLF \in CRLFs /\ \A j \in CRLFs : findCRLF <= j
      BY <2>8, <2>9 DEF findCRLF, First
    <3>2. findCRLF <= 2 /\ 2 <= findCRLF /\ findCRLF \in Int
      BY <2>8, <2>9, <3>1
    <3> QED BY <3>2
  <2>11. Line = lines[k]
    BY <2>2, <2>10 DEF Line
  <2> QED BY <1>5, <1>6, <1>7, <2>1, <2>5, <2>6, <2>10, <2>11
<1> QED BY <1>9, <1>10

\* Lines taken, read and sent.
LEMMA Counts ==
  ASSUME InputOK
  PROVE  /\ taken \in Nat /\ arrived \in Nat /\ Len(lines) \in Nat
         /\ taken <= arrived /\ arrived <= Len(lines)
         /\ CRLFs # {} => taken + 1 <= arrived
<1>1. /\ stream \in Seq(Symbol) /\ Len(stream) = Len(inputBuffer_) + Len(socket)
      /\ Len(inputBuffer_) \in Nat /\ Len(socket) \in Nat /\ Len(lines) \in Nat
      /\ socket # <<>> => /\ Len(inputBuffer_) + 1 \in 1..Len(stream)
                          /\ stream[Len(inputBuffer_) + 1] = socket[1]
  BY StreamIs
<1>2. SymbolsOf(stream, lines)
  BY DEF InputOK
<1>3. ASSUME stream # <<>> PROVE stream[1][1] \in 1..Len(lines) /\ 1 \in 1..Len(stream)
  <2>1. Len(stream) >= 1
    BY <1>1, <1>3
  <2>2. 1 \in 1..Len(stream)
    BY <1>1, <2>1
  <2> QED BY <1>2, <2>2 DEF SymbolsOf
<1>4. taken \in Nat /\ taken <= Len(lines)
  BY <1>1, <1>3 DEF taken, Before
<1>5. CASE socket = <<>>
  <2>1. arrived = Len(lines)
    BY <1>5 DEF arrived, Before
  <2>2. CRLFs # {} => taken + 1 \in 1..Len(lines)
    BY LineFound
  <2> QED BY <1>1, <1>4, <2>1, <2>2
<1>6. CASE socket # <<>>
  <2> DEFINE j == Len(inputBuffer_) + 1
  <2>1. j \in 1..Len(stream) /\ stream[j] = socket[1] /\ arrived = stream[j][1] - 1
    BY <1>1, <1>6 DEF arrived, Before
  <2>2. stream[j][1] \in 1..Len(lines)
    BY <1>2, <2>1 DEF SymbolsOf
  <2>3. stream # <<>>
    BY <1>1, <2>1
  <2>4. 1 <= j /\ stream[1][1] <= stream[j][1]
    BY <1>1, <1>2, <1>3, <2>1, <2>3 DEF SymbolsOf
  <2>5. taken = stream[1][1] - 1 /\ stream[1][1] \in 1..Len(lines)
    BY <1>3, <2>3 DEF taken, Before
  <2>6. arrived \in Nat /\ taken <= arrived /\ arrived <= Len(lines)
    <3>1. PICK x, y : x = stream[1][1] /\ y = stream[j][1]
      OBVIOUS
    <3>2. /\ x \in 1..Len(lines) /\ y \in 1..Len(lines) /\ x <= y /\ Len(lines) \in Nat
          /\ taken = x - 1 /\ arrived = y - 1
      BY <1>1, <2>1, <2>2, <2>4, <2>5, <3>1
    <3> QED BY ONLY <3>2
  <2>7. ASSUME CRLFs # {} PROVE taken + 1 <= arrived
    <3>1. /\ findCRLF \in Nat /\ 1 <= findCRLF /\ findCRLF + 1 <= Len(inputBuffer_)
          /\ stream[findCRLF + 1] = <<stream[1][1], "\n">>
      BY <2>7, LineFound
    <3> DEFINE m == findCRLF + 1
    <3>2. m \in Nat /\ m \in 1 .. Len(stream) - 1 /\ m + 1 \in 1..Len(stream) /\ m + 1 <= j
      BY <1>1, <2>1, <3>1
    <3>3. stream[m + 1] = SymbolAfter(lines, stream[m])
      BY <1>2, <3>2 DEF SymbolsOf
    <3>4. stream[m][1] = stream[1][1] /\ stream[m][2] = "\n"
      BY <3>1, PairParts
    <3>5. stream[m + 1] = FirstSymbol(lines, stream[1][1] + 1)
      BY <3>3, <3>4 DEF SymbolAfter
    <3>6. stream[m + 1][1] = stream[1][1] + 1
      BY <3>5, FirstSymbolOf
    <3>7. stream[m + 1][1] <= stream[j][1]
      BY <1>2, <2>1, <3>2 DEF SymbolsOf
    <3> QED BY <2>1, <2>2, <2>5, <3>6, <3>7
  <2> QED BY <1>1, <1>4, <2>6, <2>7
<1> QED BY <1>5, <1>6

\* No line is found: all that were read as a whole are taken.
LEMMA NoLineFound ==
  ASSUME InputOK, CRLFs = {}
  PROVE  taken = arrived
<1>1. /\ stream \in Seq(Symbol) /\ Len(stream) = Len(inputBuffer_) + Len(socket)
      /\ Len(inputBuffer_) \in Nat /\ Len(socket) \in Nat /\ Len(lines) \in Nat
      /\ \A i \in 1..Len(inputBuffer_) : i \in 1..Len(stream) /\ stream[i] = inputBuffer_[i]
      /\ socket # <<>> => /\ Len(inputBuffer_) + 1 \in 1..Len(stream)
                          /\ stream[Len(inputBuffer_) + 1] = socket[1]
  BY StreamIs
<1>2. lines \in Seq(Texts) /\ SymbolsOf(stream, lines)
  BY DEF InputOK
<1>3. ASSUME NEW i \in 1 .. Len(inputBuffer_) - 1,
             inputBuffer_[i][2] = "\r", inputBuffer_[i + 1][2] = "\n"
      PROVE  FALSE
  BY <1>3 DEF CRLFs
<1>4. CASE inputBuffer_ = <<>>
  <2>1. stream = socket
    <3>1. socket \in Seq(Symbol)
      BY DEF InputOK
    <3> QED BY <1>4, <3>1, ConcatEmptySeq DEF stream
  <2> QED BY <2>1 DEF taken, arrived
<1>5. CASE inputBuffer_ # <<>>
  <2> DEFINE k == stream[1][1]
  <2>1. Len(inputBuffer_) >= 1
    BY <1>5 DEF InputOK
  <2>2. 1 \in 1..Len(inputBuffer_) /\ Len(stream) >= 1 /\ stream # <<>> /\ 1 \in 1..Len(stream)
    BY <1>1, <2>1
  <2>3. k \in 1..Len(lines) /\ taken = k - 1
    BY <1>2, <2>2 DEF SymbolsOf, taken, Before
  <2>4. CASE lines[k] = Blank
    <3>1. Len(stream) >= 2 /\ stream[1] = <<k, "\r">> /\ stream[2] = <<k, "\n">>
      BY <1>1, <1>2, <2>2, <2>4, FirstLine
    <3>2. ~(Len(inputBuffer_) >= 2)
      <4> SUFFICES ASSUME Len(inputBuffer_) >= 2 PROVE FALSE
        OBVIOUS
      <4>1. 1 \in 1 .. Len(inputBuffer_) - 1 /\ 2 \in 1..Len(inputBuffer_) /\ 1 + 1 = 2
        BY <1>1
      <4>2. inputBuffer_[1][2] = "\r" /\ inputBuffer_[2][2] = "\n"
        BY <1>1, <2>2, <3>1, <4>1, PairParts
      <4> QED BY <1>3, <4>1, <4>2
    <3>3. Len(inputBuffer_) + 1 = 2 /\ Len(socket) >= 1
      BY <1>1, <2>1, <3>1, <3>2
    <3>4. socket # <<>>
      BY <3>3
    <3>5. socket[1] = <<k, "\n">>
      BY <1>1, <3>1, <3>3, <3>4
    <3>6. socket[1][1] = k
      BY <3>5, PairParts
    <3> QED BY <2>3, <3>4, <3>6 DEF arrived, Before
  <2>5. CASE lines[k] # Blank
    <3>1. /\ Len(stream) >= 3
          /\ stream[1] = <<k, "text">> /\ stream[2] = <<k, "\r">> /\ stream[3] = <<k, "\n">>
      BY <1>1, <1>2, <2>2, <2>5, FirstLine
    <3>2. ~(Len(inputBuffer_) >= 3)
      <4> SUFFICES ASSUME Len(inputBuffer_) >= 3 PROVE FALSE
        OBVIOUS
      <4>1. 2 \in 1 .. Len(inputBuffer_) - 1 /\ 2 \in 1..Len(inputBuffer_)
            /\ 3 \in 1..Len(inputBuffer_) /\ 2 + 1 = 3
        BY <1>1
      <4>2. inputBuffer_[2][2] = "\r" /\ inputBuffer_[3][2] = "\n"
        BY <1>1, <3>1, <4>1, PairParts
      <4> QED BY <1>3, <4>1, <4>2
    <3>3. (Len(inputBuffer_) + 1 = 2 \/ Len(inputBuffer_) + 1 = 3) /\ Len(socket) >= 1
      BY <1>1, <2>1, <3>1, <3>2
    <3>4. socket # <<>>
      BY <3>3
    <3>5. socket[1] = <<k, "\r">> \/ socket[1] = <<k, "\n">>
      BY <1>1, <3>1, <3>3, <3>4
    <3>6. socket[1][1] = k
      BY <3>5, PairParts
    <3> QED BY <2>3, <3>4, <3>6 DEF arrived, Before
  <2> QED BY <2>4, <2>5
<1> QED BY <1>4, <1>5

(***************************************************************************)
(* What the steps do to the input.                                         *)
(***************************************************************************)

\* Taking elements away from the front of the first of two sequences.
LEMMA RestOfConcat ==
  ASSUME NEW S, NEW s \in Seq(S), NEW t \in Seq(S), NEW m \in Nat, m <= Len(s)
  PROVE  SubSeq(s, m + 1, Len(s)) \o t = SubSeq(s \o t, m + 1, Len(s \o t))
<1> DEFINE u == SubSeq(s, m + 1, Len(s))
           st == s \o t
           v == SubSeq(st, m + 1, Len(st))
<1>1. Len(s) \in Nat /\ Len(t) \in Nat
  OBVIOUS
<1>2. u \in Seq(S) /\ Len(u) = Len(s) - m /\ \A i \in 1 .. Len(s) - m : u[i] = s[m + i]
  BY RestOfSeq
<1>3. /\ st \in Seq(S) /\ Len(st) = Len(s) + Len(t)
      /\ \A i \in 1 .. Len(s) + Len(t) : st[i] = IF i <= Len(s) THEN s[i] ELSE t[i - Len(s)]
  BY ConcatProperties
<1> HIDE DEF u, st
<1>4. m <= Len(st)
  BY <1>1, <1>3
<1>5. v \in Seq(S) /\ Len(v) = Len(st) - m /\ \A i \in 1 .. Len(st) - m : v[i] = st[m + i]
  BY <1>3, <1>4, RestOfSeq
<1> HIDE DEF v
<1>6. /\ u \o t \in Seq(S) /\ Len(u \o t) = Len(u) + Len(t)
      /\ \A i \in 1 .. Len(u) + Len(t) : (u \o t)[i] = IF i <= Len(u) THEN u[i] ELSE t[i - Len(u)]
  BY ONLY <1>2, t \in Seq(S), ConcatProperties
<1>7. Len(u \o t) = Len(v)
  BY <1>1, <1>2, <1>3, <1>5, <1>6
<1>8. ASSUME NEW i \in 1..Len(u \o t) PROVE (u \o t)[i] = v[i]
  <2>1. i \in 1 .. Len(u) + Len(t) /\ i \in 1 .. Len(st) - m /\ m + i \in 1 .. Len(s) + Len(t)
    BY <1>1, <1>2, <1>3, <1>6
  <2>2. CASE i <= Len(s) - m
    <3>1. i \in 1 .. Len(s) - m /\ m + i <= Len(s) /\ i <= Len(u)
      BY <1>1, <1>2, <2>2
    <3> QED BY <1>2, <1>3, <1>5, <1>6, <2>1, <3>1
  <2>3. CASE ~(i <= Len(s) - m)
    <3>1. ~(m + i <= Len(s)) /\ ~(i <= Len(u)) /\ (m + i) - Len(s) = i - Len(u)
      BY <1>1, <1>2, <2>3
    <3>2. (u \o t)[i] = t[i - Len(u)] /\ v[i] = t[(m + i) - Len(s)]
      BY <1>3, <1>5, <1>6, <2>1, <3>1
    <3> QED BY <3>1, <3>2
  <2> QED BY <2>2, <2>3
<1>9. u \o t = v
  BY ONLY <1>5, <1>6, <1>7, <1>8, SeqEqual
<1> QED BY <1>9 DEF u, v, st

\* retrieveUntil takes a line.
LEMMA LineTaken ==
  ASSUME InputOK, CRLFs # {}, retrieveUntil, UNCHANGED input
  PROVE  InputOK' /\ taken' = taken + 1 /\ arrived' = arrived /\ UNCHANGED lines
<1>1. /\ findCRLF \in Nat /\ 1 <= findCRLF /\ findCRLF + 1 <= Len(inputBuffer_)
      /\ stream[findCRLF + 1] = <<stream[1][1], "\n">>
  BY LineFound
<1>2. /\ stream \in Seq(Symbol) /\ Len(stream) = Len(inputBuffer_) + Len(socket)
      /\ Len(inputBuffer_) \in Nat /\ Len(socket) \in Nat
  BY StreamIs
<1>3. lines' = lines /\ socket' = socket
  BY DEF input
<1>4. lines \in Seq(Texts) /\ inputBuffer_ \in Seq(Symbol) /\ socket \in Seq(Symbol)
      /\ SymbolsOf(stream, lines)
  BY DEF InputOK
<1> DEFINE m == findCRLF + 1
<1>5. m \in Nat /\ 1 <= m /\ m <= Len(inputBuffer_) /\ m <= Len(stream) /\ findCRLF + 2 = m + 1
      /\ stream[m] = <<stream[1][1], "\n">>
  BY <1>1, <1>2
<1>6. inputBuffer_' = SubSeq(inputBuffer_, m + 1, Len(inputBuffer_))
  BY <1>5 DEF retrieveUntil
<1> HIDE DEF m
<1>7. inputBuffer_' \in Seq(Symbol)
  BY <1>4, <1>5, <1>6, RestOfSeq
<1>8. stream' = SubSeq(stream, m + 1, Len(stream))
  <2>1. SubSeq(inputBuffer_, m + 1, Len(inputBuffer_)) \o socket
          = SubSeq(inputBuffer_ \o socket, m + 1, Len(inputBuffer_ \o socket))
    BY ONLY <1>4, <1>5, RestOfConcat
  <2> QED BY <1>3, <1>6, <2>1 DEF stream
<1>9. /\ SymbolsOf(stream', lines)
      /\ Before(stream', lines) = Before(stream, lines) + 1
  BY ONLY <1>2, <1>4, <1>5, <1>8, DropLine
<1> QED BY <1>3, <1>4, <1>7, <1>9 DEF InputOK, taken, arrived

\* A read moves symbols from the socket to the buffer.
LEMMA SymbolsRead ==
  ASSUME InputOK, NEW n \in 1..Len(socket), handleRead(n)
  PROVE  InputOK' /\ taken' = taken /\ arrived <= arrived' /\ UNCHANGED lines
<1>1. lines \in Seq(Texts) /\ inputBuffer_ \in Seq(Symbol) /\ socket \in Seq(Symbol)
      /\ SymbolsOf(stream, lines)
  BY DEF InputOK
<1> DEFINE front == SubSeq(socket, 1, n)
           rest == SubSeq(socket, n + 1, Len(socket))
<1>2. inputBuffer_' = inputBuffer_ \o front /\ socket' = rest /\ lines' = lines
  BY DEF handleRead
<1>3. n \in Nat /\ n <= Len(socket) /\ Len(socket) \in Nat
  BY <1>1
<1>4. rest \in Seq(Symbol) /\ Len(rest) = Len(socket) - n
      /\ \A i \in 1 .. Len(socket) - n : rest[i] = socket[n + i]
  BY <1>1, <1>3, RestOfSeq
<1>5. front \in Seq(Symbol) /\ front \o rest = socket
  <2>1. \A i \in 1..n : socket[i] \in Symbol
    BY <1>1, <1>3
  <2>2. front \in Seq(Symbol)
    BY <1>3, <2>1, SubSeqProperties
  <2>3. front \o rest = SubSeq(socket, 1, Len(socket))
    BY <1>1, <1>3, ConcatAdjacentSubSeq
  <2>4. SubSeq(socket, 1, Len(socket)) = socket
    BY <1>1, SubSeqFull
  <2> QED BY <2>2, <2>3, <2>4
<1> HIDE DEF front, rest
<1>6. inputBuffer_' \in Seq(Symbol) /\ socket' \in Seq(Symbol)
  BY <1>1, <1>2, <1>4, <1>5, ConcatProperties
<1>7. stream' = stream
  <2>1. (inputBuffer_ \o front) \o rest = inputBuffer_ \o (front \o rest)
    <3>1. inputBuffer_ \in Seq(Symbol) /\ front \in Seq(Symbol) /\ rest \in Seq(Symbol)
      BY <1>1, <1>4, <1>5
    <3> QED BY ONLY <3>1, ConcatAssociative
  <2> QED BY <1>2, <1>5, <2>1 DEF stream
<1>8. InputOK' /\ taken' = taken
  BY <1>1, <1>2, <1>6, <1>7 DEF InputOK, taken
<1>9. arrived' \in Nat /\ arrived \in Nat /\ arrived <= Len(lines)
  <2>1. (InputOK => arrived \in Nat)'
    BY Counts, PTL
  <2> QED BY <1>8, <2>1, Counts
<1>10. arrived <= arrived'
  <2>1. CASE socket' = <<>>
    <3>1. arrived' = Len(lines)
      BY <1>2, <2>1 DEF arrived, Before
    <3> QED BY <1>9, <3>1
  <2>2. CASE socket' # <<>>
    <3>1. socket # <<>>
      BY <1>3
    <3>2. /\ stream \in Seq(Symbol) /\ Len(stream) = Len(inputBuffer_) + Len(socket)
          /\ Len(inputBuffer_) \in Nat
          /\ Len(inputBuffer_) + 1 \in 1..Len(stream)
          /\ stream[Len(inputBuffer_) + 1] = socket[1]
      BY <3>1, StreamIs
    <3>3. (InputOK => /\ Len(inputBuffer_) \in Nat
                      /\ socket # <<>> => /\ Len(inputBuffer_) + 1 \in 1..Len(stream)
                                          /\ stream[Len(inputBuffer_) + 1] = socket[1])'
      BY StreamIs, PTL
    <3>4. /\ Len(inputBuffer_') + 1 \in 1..Len(stream)
          /\ stream[Len(inputBuffer_') + 1] = socket'[1]
      BY <1>7, <1>8, <2>2, <3>3
    <3>5. Len(inputBuffer_') = Len(inputBuffer_) + Len(front) /\ Len(front) \in Nat
      BY <1>1, <1>2, <1>5, ConcatProperties
    <3>6. Len(inputBuffer_) + 1 <= Len(inputBuffer_') + 1
      BY <3>2, <3>5
    <3>7. socket[1][1] <= socket'[1][1]
      BY <1>1, <3>2, <3>4, <3>6 DEF SymbolsOf
    <3>8. arrived = socket[1][1] - 1 /\ arrived' = socket'[1][1] - 1
      BY <2>2, <3>1 DEF arrived, Before
    <3>9. socket[1][1] \in Int /\ socket'[1][1] \in Int
      BY <1>1, <3>2, <3>4 DEF SymbolsOf
    <3> QED BY <3>7, <3>8, <3>9
  <2> QED BY <2>1, <2>2
<1> QED BY <1>2, <1>8, <1>10

\* A line that is sent is neither taken nor read.
LEMMA LineSent ==
  ASSUME InputOK, NEW text \in Texts, Send(text)
  PROVE  /\ InputOK' /\ taken' = taken /\ arrived' = arrived
         /\ lines' = Append(lines, text)
<1>1. lines \in Seq(Texts) /\ inputBuffer_ \in Seq(Symbol) /\ socket \in Seq(Symbol)
      /\ SymbolsOf(stream, lines)
  BY DEF InputOK
<1>2. stream \in Seq(Symbol)
  BY StreamIs
<1>3. lines' = Append(lines, text) /\ inputBuffer_' = inputBuffer_
      /\ socket' = socket \o Symbols(Len(lines'), text)
  BY DEF Send
<1>4. Len(lines') = Len(lines) + 1 /\ Len(lines) \in Nat /\ Len(lines) + 1 \in Nat
  BY <1>1, <1>3
<1> DEFINE a == Symbols(Len(lines) + 1, text)
<1>5. socket' = socket \o a
  BY <1>3, <1>4
<1>6. LineSymbols(a, Len(lines) + 1, text)
  BY <1>4, SymbolsAre
<1>7. a \in Seq(Symbol) /\ Len(a) >= 2 /\ \A i \in 1..Len(a) : a[i][1] = Len(lines) + 1
  BY <1>6 DEF LineSymbols
<1>8. stream' = stream \o a
  <2> HIDE DEF a
  <2>1. (inputBuffer_ \o socket) \o a = inputBuffer_ \o (socket \o a)
    <3>1. inputBuffer_ \in Seq(Symbol) /\ socket \in Seq(Symbol) /\ a \in Seq(Symbol)
      BY <1>1, <1>7
    <3> QED BY ONLY <3>1, ConcatAssociative
  <2> QED BY <1>3, <1>5, <2>1 DEF stream
<1>9. /\ lines' \in Seq(Texts) /\ SymbolsOf(stream', lines')
      /\ Before(stream', lines') = Before(stream, lines)
  <2>1. stream' = stream \o Symbols(Len(lines) + 1, text)
    BY <1>8
  <2>2. lines \in Seq(Texts) /\ SymbolsOf(stream, lines) /\ text \in Texts
    BY <1>1
  <2>3. Adds(lines, stream, text, lines', stream')
    BY <1>3, <2>1 DEF Adds
  <2> QED BY ONLY <1>2, <2>2, <2>3, AddLine
<1> HIDE DEF a
<1>10. /\ socket' \in Seq(Symbol) /\ Len(socket') = Len(socket) + Len(a)
       /\ \A i \in 1 .. Len(socket) + Len(a) :
            socket'[i] = IF i <= Len(socket) THEN socket[i] ELSE a[i - Len(socket)]
  <2>1. /\ socket \o a \in Seq(Symbol) /\ Len(socket \o a) = Len(socket) + Len(a)
        /\ \A i \in 1 .. Len(socket) + Len(a) :
             (socket \o a)[i] = IF i <= Len(socket) THEN socket[i] ELSE a[i - Len(socket)]
    BY ONLY <1>1, <1>7, ConcatProperties
  <2> QED BY ONLY <1>5, <2>1
<1>11. arrived' = arrived
  <2>1. CASE socket = <<>>
    <3>1. socket' = a
      BY <1>5, <1>7, <2>1, ConcatEmptySeq
    <3>2. socket' # <<>> /\ socket'[1][1] = Len(lines) + 1
      BY <1>7, <3>1
    <3> QED BY <1>4, <2>1, <3>2 DEF arrived, Before
  <2>2. CASE socket # <<>>
    <3>1. Len(socket) \in Nat /\ Len(socket) >= 1 /\ Len(a) \in Nat
      BY <1>1, <1>7, <2>2
    <3>2. 1 \in 1 .. Len(socket) + Len(a) /\ 1 <= Len(socket) /\ Len(socket) + Len(a) >= 3
      BY <1>7, <3>1
    <3>3. socket'[1] = socket[1] /\ socket' # <<>>
      BY <1>10, <3>2
    <3> QED BY <2>2, <3>3 DEF arrived, Before
  <2> QED BY <2>1, <2>2
<1> QED BY <1>1, <1>3, <1>9, <1>10, <1>11 DEF InputOK, taken

(***************************************************************************)
(* The responses to a sequence of lines.  That the recursive function of   *)
(* ResponsesFrom exists is shown from the last line to the first.          *)
(***************************************************************************)

\* The end of a request that has one.
LEMMA FirstEnd ==
  ASSUME NEW ls \in Seq(Texts), NEW i \in Nat, Ends(ls, i) # {}
  PROVE  /\ First(Ends(ls, i)) \in i + 1 .. Len(ls)
         /\ ls[First(Ends(ls, i))].key = "none"
         /\ \A j \in Ends(ls, i) : First(Ends(ls, i)) <= j
<1> DEFINE E == Ends(ls, i)
<1>1. E \subseteq Nat /\ E # {}
  BY DEF Ends
<1>2. \E x \in E : \A y \in E : x <= y
  <2> HIDE DEF E
  <2> QED BY <1>1, LeastNumber
<1>3. First(E) \in E /\ \A j \in E : First(E) <= j
  BY <1>2 DEF First
<1> QED BY <1>3 DEF Ends

\* The responses from a line on depend on those from later lines only.
LEMMA LaterOnly ==
  ASSUME NEW ls \in Seq(Texts), NEW i \in 1 .. Len(ls) + 1, NEW f, NEW g,
         \A j \in i + 1 .. Len(ls) + 1 : f[j] = g[j]
  PROVE  ResponsesAt(ls, i, f) = ResponsesAt(ls, i, g)
<1>1. CASE i > Len(ls) \/ ~Acceptable(ls[i]) \/ Ends(ls, i) = {}
  BY <1>1 DEF ResponsesAt
<1>2. CASE ~(i > Len(ls) \/ ~Acceptable(ls[i]) \/ Ends(ls, i) = {})
  <2> DEFINE e == First(Ends(ls, i)) + 1
  <2>1. First(Ends(ls, i)) \in i + 1 .. Len(ls) /\ Len(ls) \in Nat
    BY <1>2, FirstEnd
  <2>2. e \in i + 1 .. Len(ls) + 1
    BY <2>1
  <2>3. f[e] = g[e]
    BY <2>2
  <2> QED BY <1>2, <2>3 DEF ResponsesAt
<1> QED BY <1>1, <1>2

\* f has the responses from line m on.
Solves(ls, m, f) == f = [i \in m .. Len(ls) + 1 |-> ResponsesAt(ls, i, f)]

LEMMA SolvesAt ==
  ASSUME NEW ls, NEW m, NEW f, Solves(ls, m, f), NEW i \in m .. Len(ls) + 1
  PROVE  f[i] = ResponsesAt(ls, i, f)
<1> DEFINE g == [k \in m .. Len(ls) + 1 |-> ResponsesAt(ls, k, f)]
<1>1. g[i] = ResponsesAt(ls, i, f)
  OBVIOUS
<1>2. f = g
  BY DEF Solves
<1> QED BY <1>1, <1>2

\* One line more at the front.
LEMMA SolvesBefore ==
  ASSUME NEW ls \in Seq(Texts), NEW m \in 1 .. Len(ls), NEW f, Solves(ls, m + 1, f)
  PROVE  \E g : Solves(ls, m, g)
<1> DEFINE N == Len(ls) + 1
           g == [i \in m..N |-> IF i = m THEN ResponsesAt(ls, m, f) ELSE f[i]]
<1>1. Len(ls) \in Nat /\ m \in m..N /\ m \in 1..N
  OBVIOUS
<1>2. ASSUME NEW i \in m + 1 .. N PROVE g[i] = f[i]
  BY <1>1
<1>3. ASSUME NEW i \in m..N PROVE g[i] = ResponsesAt(ls, i, g)
  <2>1. i \in 1 .. Len(ls) + 1 /\ \A j \in i + 1 .. Len(ls) + 1 : j \in m + 1 .. N
    BY <1>1
  <2>2. \A j \in i + 1 .. Len(ls) + 1 : f[j] = g[j]
    BY <1>2, <2>1
  <2>3. ResponsesAt(ls, i, f) = ResponsesAt(ls, i, g)
    <3> HIDE DEF g
    <3> QED BY <2>1, <2>2, LaterOnly
  <2>4. CASE i = m
    <3>1. g[m] = ResponsesAt(ls, m, f)
      BY <1>1
    <3> QED BY <2>3, <2>4, <3>1
  <2>5. CASE i # m
    <3>1. i \in m + 1 .. N
      BY <1>1, <2>5
    <3>2. f[i] = ResponsesAt(ls, i, f)
      BY <3>1, SolvesAt
    <3> QED BY <1>2, <2>3, <3>1, <3>2
  <2> QED BY <2>4, <2>5
<1>4. g = [i \in m..N |-> ResponsesAt(ls, i, g)]
  <2>1. g = [i \in m..N |-> g[i]]
    OBVIOUS
  <2> HIDE DEF g
  <2> QED BY <1>3, <2>1
<1>5. Solves(ls, m, g)
  <2> HIDE DEF g
  <2> QED BY <1>4 DEF Solves
<1> HIDE DEF g
<1> QED BY <1>5

LEMMA Solved ==
  ASSUME NEW ls \in Seq(Texts)
  PROVE  \E f : Solves(ls, 1, f)
<1> DEFINE n == Len(ls)
           G == {d \in 0..n : \E f : Solves(ls, n + 1 - d, f)}
<1>1. n \in Nat
  OBVIOUS
<1>2. 0 \in G
  <2> DEFINE f == [i \in n + 1 .. n + 1 |-> <<>>]
  <2>1. ASSUME NEW i \in n + 1 .. n + 1 PROVE ResponsesAt(ls, i, f) = <<>>
    BY <1>1 DEF ResponsesAt
  <2>2. f = [i \in n + 1 .. n + 1 |-> ResponsesAt(ls, i, f)]
    BY <2>1
  <2>3. Solves(ls, n + 1, f)
    <3> HIDE DEF f
    <3> QED BY <2>2 DEF Solves
  <2>4. n + 1 - 0 = n + 1
    BY <1>1
  <2>5. \E h : Solves(ls, n + 1 - 0, h)
    <3> HIDE DEF f
    <3> QED BY <2>3, <2>4
  <2> QED BY <1>1, <2>5
<1>3. ASSUME NEW d \in 1..n, d - 1 \in G PROVE d \in G
  <2>1. PICK f : Solves(ls, n + 1 - (d - 1), f)
    BY <1>3
  <2> DEFINE m == n + 1 - d
  <2>2. m \in 1..n /\ n + 1 - (d - 1) = m + 1
    BY <1>1
  <2>3. \E g : Solves(ls, m, g)
    <3> HIDE DEF m
    <3> QED BY <2>1, <2>2, SolvesBefore
  <2> QED BY <2>3
<1>4. 0..n \subseteq G
  <2> HIDE DEF G
  <2> QED BY <1>1, <1>2, <1>3, UpTo
<1>5. n \in G /\ n + 1 - n = 1
  BY <1>1, <1>4
<1> QED BY <1>5

\* What ResponsesFrom computes.
LEMMA ResponsesFromAt ==
  ASSUME NEW ls \in Seq(Texts), NEW i \in 1 .. Len(ls) + 1
  PROVE  ResponsesFrom(ls)[i] = ResponsesAt(ls, i, ResponsesFrom(ls))
<1>1. ResponsesFrom(ls) = CHOOSE f : Solves(ls, 1, f)
  BY DEF ResponsesFrom, Solves
<1>2. Solves(ls, 1, ResponsesFrom(ls))
  BY <1>1, Solved
<1> QED BY <1>2, SolvesAt

\* c is the value of the last Connection header after line s and up to line m.
LastConnection(ls, s, m, c) ==
  \/ c = "" /\ \A j \in s + 1 .. m : ls[j].key # "Connection"
  \/ \E j \in s + 1 .. m : /\ ls[j].key = "Connection" /\ c = ls[j].value
                           /\ \A k \in j + 1 .. m : ls[k].key # "Connection"

LEMMA ConnectionIs ==
  ASSUME NEW ls \in Seq(Texts), NEW s \in Nat, NEW e \in Nat, First(Ends(ls, s)) = e,
         NEW c, LastConnection(ls, s, e, c)
  PROVE  Connection(ls, s) = c
<1> DEFINE S == {j \in s + 1 .. e : ls[j].key = "Connection"}
           last == CHOOSE j \in S : \A k \in S : k <= j
<1>1. Connection(ls, s) = IF S = {} THEN "" ELSE ls[last].value
  BY DEF Connection
<1>2. CASE S = {}
  <2>1. \A j \in s + 1 .. e : ls[j].key # "Connection"
    BY <1>2
  <2> QED BY <1>1, <1>2, <2>1 DEF LastConnection
<1>3. CASE S # {}
  <2>1. PICK j \in s + 1 .. e : /\ ls[j].key = "Connection" /\ c = ls[j].value
                                /\ \A k \in j + 1 .. e : ls[k].key # "Connection"
    BY <1>3 DEF LastConnection
  <2>2. j \in S /\ j \in Int
    BY <2>1
  <2>3. ASSUME NEW k \in S PROVE k <= j
    <3>1. k \in Int /\ k \in s + 1 .. e /\ ls[k].key = "Connection"
      OBVIOUS
    <3>2. k \notin j + 1 .. e
      BY <2>1, <3>1
    <3> QED BY <2>2, <3>1, <3>2
  <2>4. last \in S /\ \A k \in S : k <= last
    BY <2>2, <2>3
  <2>5. last = j
    <3>1. last \in Int /\ last <= j /\ j <= last
      BY <2>2, <2>3, <2>4
    <3> QED BY <2>2, <3>1
  <2> HIDE DEF last, S
  <2> QED BY <1>1, <1>3, <2>1, <2>5
<1> QED BY <1>2, <1>3

\* The responses from the first line of a complete request on.
LEMMA CompleteRequest ==
  ASSUME NEW ls \in Seq(Texts), NEW s \in Nat \ {0}, NEW e \in Nat, s < e, e <= Len(ls),
         Acceptable(ls[s]), ls[e].key = "none",
         \A j \in s + 1 .. e - 1 : ls[j].key # "none",
         NEW c, LastConnection(ls, s, e, c)
  PROVE  /\ Response(ls[s], c).close => ResponsesFrom(ls)[s] = <<Response(ls[s], c)>>
         /\ ~Response(ls[s], c).close
              => ResponsesFrom(ls)[s] = <<Response(ls[s], c)>> \o ResponsesFrom(ls)[e + 1]
<1>1. s \in 1 .. Len(ls) + 1 /\ ~(s > Len(ls)) /\ e \in s + 1 .. Len(ls) /\ Len(ls) \in Nat
  OBVIOUS
<1>2. e \in Ends(ls, s)
  BY <1>1 DEF Ends
<1>3. First(Ends(ls, s)) = e
  <2> DEFINE f == First(Ends(ls, s))
  <2>1. f \in s + 1 .. Len(ls) /\ ls[f].key = "none" /\ \A j \in Ends(ls, s) : f <= j
    BY <1>2, FirstEnd
  <2>2. f <= e /\ f \in Int
    BY <1>1, <1>2, <2>1
  <2>3. f \notin s + 1 .. e - 1
    BY <2>1
  <2> HIDE DEF f
  <2>4. f = e
    BY <1>1, <2>1, <2>2, <2>3
  <2> QED BY <2>4 DEF f
<1>4. Connection(ls, s) = c
  BY <1>3, ConnectionIs
<1> DEFINE R == ResponsesFrom(ls)
<1>5. R[s] = ResponsesAt(ls, s, R)
  BY <1>1, ResponsesFromAt
<1> HIDE DEF R
<1>6. ResponsesAt(ls, s, R)
        = <<Response(ls[s], c)>> \o (IF Response(ls[s], c).close THEN <<>> ELSE R[e + 1])
  BY <1>1, <1>2, <1>3, <1>4 DEF ResponsesAt
<1>7. <<Response(ls[s], c)>> \o <<>> = <<Response(ls[s], c)>>
  <2>1. <<Response(ls[s], c)>> \in Seq({Response(ls[s], c)})
    OBVIOUS
  <2> QED BY <2>1, ConcatEmptySeq
<1> QED BY <1>5, <1>6, <1>7 DEF R

\* Those from a line that is refused, from a request that is not complete, and at the end.
LEMMA RefusedRequest ==
  ASSUME NEW ls \in Seq(Texts), NEW s \in 1..Len(ls), ~Acceptable(ls[s])
  PROVE  ResponsesFrom(ls)[s] = <<BadRequest>>
<1>1. s \in 1 .. Len(ls) + 1 /\ ~(s > Len(ls))
  OBVIOUS
<1> QED BY <1>1, ResponsesFromAt DEF ResponsesAt

LEMMA OpenRequest ==
  ASSUME NEW ls \in Seq(Texts), NEW s \in 1 .. Len(ls) + 1,
         s <= Len(ls) => Acceptable(ls[s]) /\ \A j \in s + 1 .. Len(ls) : ls[j].key # "none"
  PROVE  ResponsesFrom(ls)[s] = <<>>
<1>1. ResponsesFrom(ls)[s] = ResponsesAt(ls, s, ResponsesFrom(ls))
  BY ResponsesFromAt
<1>2. CASE s > Len(ls)
  BY <1>1, <1>2 DEF ResponsesAt
<1>3. CASE ~(s > Len(ls))
  <2>1. s <= Len(ls)
    BY <1>3
  <2>2. Ends(ls, s) = {}
    BY <2>1 DEF Ends
  <2> QED BY <1>1, <1>3, <2>1, <2>2 DEF ResponsesAt
<1> QED BY <1>2, <1>3

(***************************************************************************)
(* The inductive invariant.                                                *)
(***************************************************************************)

Answer == [status : Pages \cup {"400", "kUnknown"}, close : BOOLEAN]

\* The responses so far.
answered == IF pc \in {"poll", "closed"} THEN sent ELSE sent \o outBuf

\* ls is what the peer may have sent in the end, as far as the server can know.
Possible(ls) ==
  /\ ls \in Seq(Texts)
  /\ arrived <= Len(ls)
  /\ \A i \in 1..arrived : ls[i] = lines[i]

\* Whatever the peer sends, the responses so far are those to the lines before line s ...
AnsweredBefore(s) ==
  \A ls : Possible(ls) => Responses(ls) = answered \o ResponsesFrom(ls)[s]

\* ... or all that there will be.
AnsweredAll == \A ls : Possible(ls) => Responses(ls) = answered

\* The lines taken last belong to a request that begins at line s.
RequestFrom(s) ==
  /\ s \in Nat \ {0} /\ s <= taken
  /\ Acceptable(lines[s])
  /\ request_ = [method |-> "GET", version |-> lines[s].version, path |-> lines[s].path,
                 connection |-> request_.connection]
  /\ LastConnection(lines, s, taken, request_.connection)
  /\ state_ = "kExpectHeaders" => \A j \in s + 1 .. taken : lines[j].key # "none"
  /\ state_ = "kGotAll" => /\ s < taken /\ lines[taken].key = "none"
                           /\ \A j \in s + 1 .. taken - 1 : lines[j].key # "none"

\* Where the loop thread can be in onMessage.
InOnMessage ==
  /\ pc \in {"poll", "parse", "parsed", "bad", "send", "closed"}
  /\ state_ \in {"kExpectRequestLine", "kExpectHeaders", "kGotAll"}
  /\ needClose \in BOOLEAN
  /\ needClose => pc \in {"send", "closed"}
  /\ pc = "closed" => needClose
  /\ state_ = "kGotAll" => pc = "parsed"
  /\ pc \in {"parse", "parsed"} => response = NoResponse

\* A line is waiting only where one will be looked for.
LinesWaiting ==
  /\ pc \in {"poll", "send"} /\ ~needClose => CRLFs = {}
  /\ pc = "parsed" /\ state_ # "kGotAll" => CRLFs = {}
  /\ pc = "bad" => /\ state_ = "kExpectRequestLine"
                   /\ CRLFs # {} /\ ~Acceptable(lines[taken + 1])

\* Only the last response says that the connection will be closed.
LastCloses ==
  /\ \A i \in 1..Len(answered) : answered[i].close <=> needClose /\ i = Len(answered)
  /\ needClose => answered # <<>>

Progress ==
  /\ needClose => AnsweredAll
  /\ ~needClose /\ state_ = "kExpectRequestLine"
       => AnsweredBefore(taken + 1) /\ (pc # "bad" => request_ = NoRequest)
  /\ ~needClose /\ state_ # "kExpectRequestLine"
       => \E s : RequestFrom(s) /\ AnsweredBefore(s)

HttpInv ==
  /\ InputOK
  /\ sent \in Seq(Answer) /\ outBuf \in Seq(Answer)
  /\ InOnMessage
  /\ LinesWaiting
  /\ LastCloses
  /\ Progress

LEMMA AnsweredType ==
  ASSUME sent \in Seq(Answer), outBuf \in Seq(Answer)
  PROVE  answered \in Seq(Answer)
BY ConcatProperties DEF answered

\* The lines that were there stay.
LinesStay == Len(lines) <= Len(lines') /\ \A i \in 1..Len(lines) : lines'[i] = lines[i]

\* What is possible later was possible before.
LEMMA PossibleBefore ==
  ASSUME InputOK, InputOK', LinesStay, arrived <= arrived', NEW ls, Possible(ls)'
  PROVE  Possible(ls)
<1>1. arrived \in Nat /\ arrived <= Len(lines) /\ Len(lines) \in Nat
  BY Counts
<1>2. (InputOK => arrived \in Nat)'
  BY Counts, PTL
<1>3. arrived' \in Nat
  BY <1>2
<1>4. ls \in Seq(Texts) /\ arrived' <= Len(ls) /\ \A i \in 1..arrived' : ls[i] = lines'[i]
  BY DEF Possible
<1>5. arrived <= Len(ls)
  BY <1>1, <1>3, <1>4
<1>6. ASSUME NEW i \in 1..arrived PROVE ls[i] = lines[i]
  <2>1. i \in 1..arrived' /\ i \in 1..Len(lines)
    BY <1>1, <1>3
  <2> QED BY <1>4, <2>1 DEF LinesStay
<1> QED BY <1>4, <1>5, <1>6 DEF Possible

LEMMA AnsweredStays ==
  ASSUME InputOK, InputOK', LinesStay, arrived <= arrived', answered' = answered
  PROVE  /\ \A s : AnsweredBefore(s) => AnsweredBefore(s)'
         /\ AnsweredAll => AnsweredAll'
<1>1. ASSUME NEW ls, Possible(ls)' PROVE Possible(ls)
  BY <1>1, PossibleBefore
<1>2. ASSUME NEW s, AnsweredBefore(s) PROVE AnsweredBefore(s)'
  BY <1>1, <1>2 DEF AnsweredBefore
<1>3. ASSUME AnsweredAll PROVE AnsweredAll'
  BY <1>1, <1>3 DEF AnsweredAll
<1> QED BY <1>2, <1>3

\* A response is added.
LEMMA AnswerAdded ==
  ASSUME sent \in Seq(Answer), outBuf \in Seq(Answer), NEW x \in Answer,
         pc \notin {"poll", "closed"}, pc' \notin {"poll", "closed"},
         sent' = sent, appendToBuffer(x),
         LastCloses, ~needClose, needClose' <=> x.close
  PROVE  /\ outBuf' \in Seq(Answer)
         /\ answered' = answered \o <<x>>
         /\ LastCloses'
<1>1. outBuf' = Append(outBuf, x)
  BY DEF appendToBuffer
<1>2. outBuf' \in Seq(Answer) /\ outBuf' = outBuf \o <<x>> /\ <<x>> \in Seq(Answer) /\ Len(<<x>>) = 1
  BY <1>1
<1>3. answered = sent \o outBuf /\ answered' = sent \o outBuf'
  BY DEF answered
<1>4. (sent \o outBuf) \o <<x>> = sent \o (outBuf \o <<x>>)
  BY ONLY <1>2, sent \in Seq(Answer), outBuf \in Seq(Answer), ConcatAssociative
<1>5. answered' = answered \o <<x>>
  BY <1>2, <1>3, <1>4
<1>6. answered \in Seq(Answer)
  BY AnsweredType
<1>7. /\ Len(answered') = Len(answered) + 1 /\ Len(answered) \in Nat
      /\ \A i \in 1..Len(answered) : answered'[i] = answered[i]
      /\ answered'[Len(answered) + 1] = x
  BY <1>5, <1>6
<1>8. ASSUME NEW i \in 1..Len(answered')
      PROVE  answered'[i].close <=> needClose' /\ i = Len(answered')
  <2>1. CASE i <= Len(answered)
    <3>1. i \in 1..Len(answered) /\ i # Len(answered')
      BY <1>7, <2>1
    <3> QED BY <1>7, <3>1 DEF LastCloses
  <2>2. CASE ~(i <= Len(answered))
    <3>1. i = Len(answered) + 1 /\ i = Len(answered')
      BY <1>7, <2>2
    <3> QED BY <1>7, <3>1
  <2> QED BY <2>1, <2>2
<1>9. answered' # <<>>
  BY <1>7
<1> QED BY <1>2, <1>5, <1>8, <1>9 DEF LastCloses

\* The input is left alone, the context too.
LEMMA ProgressStays ==
  ASSUME InputOK, InputOK', LinesStay, taken' = taken, arrived <= arrived',
         answered' = answered, UNCHANGED <<state_, request_, needClose>>, Progress,
         pc # "bad" \/ pc' = "bad"
  PROVE  Progress'
<1>1. /\ \A s : AnsweredBefore(s) => AnsweredBefore(s)'
      /\ AnsweredAll => AnsweredAll'
  BY AnsweredStays
<1>2. taken \in Nat /\ taken <= Len(lines) /\ Len(lines) \in Nat
  <2>1. taken \in Nat /\ arrived \in Nat /\ Len(lines) \in Nat /\ taken <= arrived /\ arrived <= Len(lines)
    BY Counts
  <2> QED BY <2>1
<1>3. ASSUME NEW s, RequestFrom(s) PROVE RequestFrom(s)'
  <2>1. s \in Nat \ {0} /\ s <= taken
    BY <1>3 DEF RequestFrom
  <2>2. \A j \in 1..taken : lines'[j] = lines[j]
    BY <1>2 DEF LinesStay
  <2>3. s \in 1..taken /\ \A j \in s + 1 .. taken : j \in 1..taken
    BY <1>2, <2>1
  <2>4. lines'[s] = lines[s] /\ \A j \in s + 1 .. taken : lines'[j] = lines[j]
    BY <2>2, <2>3
  <2>5. Acceptable(lines'[s])
    BY <1>3, <2>4 DEF RequestFrom
  <2>6. LastConnection(lines', s, taken, request_.connection)
    <3>1. LastConnection(lines, s, taken, request_.connection)
      BY <1>3 DEF RequestFrom
    <3>2. CASE request_.connection = "" /\ \A j \in s + 1 .. taken : lines[j].key # "Connection"
      BY <2>4, <3>2 DEF LastConnection
    <3>3. ASSUME NEW j \in s + 1 .. taken,
                 /\ lines[j].key = "Connection" /\ request_.connection = lines[j].value
                 /\ \A k \in j + 1 .. taken : lines[k].key # "Connection"
          PROVE  LastConnection(lines', s, taken, request_.connection)
      <4>1. \A k \in j + 1 .. taken : k \in s + 1 .. taken
        BY <1>2, <2>1
      <4> QED BY <2>4, <3>3, <4>1 DEF LastConnection
    <3> QED BY <3>1, <3>2, <3>3 DEF LastConnection
  <2>7. state_ = "kExpectHeaders" => \A j \in s + 1 .. taken : lines'[j].key # "none"
    BY <1>3, <2>4 DEF RequestFrom
  <2>8. ASSUME state_ = "kGotAll"
        PROVE  /\ s < taken /\ lines'[taken].key = "none"
               /\ \A j \in s + 1 .. taken - 1 : lines'[j].key # "none"
    <3>1. /\ s < taken /\ lines[taken].key = "none"
          /\ \A j \in s + 1 .. taken - 1 : lines[j].key # "none"
      BY <1>3, <2>8 DEF RequestFrom
    <3>2. taken \in s + 1 .. taken /\ \A j \in s + 1 .. taken - 1 : j \in s + 1 .. taken
      BY <1>2, <2>1, <3>1
    <3> QED BY <2>4, <3>1, <3>2
  <2>9. request_ = [method |-> "GET", version |-> lines[s].version, path |-> lines[s].path,
                    connection |-> request_.connection]
    BY <1>3 DEF RequestFrom
  <2> QED BY <2>1, <2>4, <2>5, <2>6, <2>7, <2>8, <2>9 DEF RequestFrom
<1>4. needClose' => AnsweredAll'
  BY <1>1 DEF Progress
<1>5. ASSUME ~needClose', state_' = "kExpectRequestLine"
      PROVE  AnsweredBefore(taken + 1)' /\ (pc' # "bad" => request_' = NoRequest)
  <2>1. AnsweredBefore(taken + 1) /\ (pc # "bad" => request_ = NoRequest)
    BY <1>5 DEF Progress
  <2>2. PICK t : t = taken + 1
    OBVIOUS
  <2>3. AnsweredBefore(t)'
    BY <1>1, <2>1, <2>2
  <2>4. t = taken' + 1
    BY <2>2
  <2>5. AnsweredBefore(taken + 1)'
    BY <2>3, <2>4
  <2> QED BY <2>1, <2>5
<1>6. ASSUME ~needClose', state_' # "kExpectRequestLine"
      PROVE  \E s : RequestFrom(s)' /\ AnsweredBefore(s)'
  <2>1. PICK s : RequestFrom(s) /\ AnsweredBefore(s)
    BY <1>6 DEF Progress
  <2> QED BY <1>1, <1>3, <2>1
<1> QED BY <1>4, <1>5, <1>6 DEF Progress

LEMMA ResponseIsAnswer ==
  ASSUME NEW text, NEW c, Acceptable(text)
  PROVE  Response(text, c) \in Answer /\ Response(text, c).close \in BOOLEAN
<1>1. text.path \in Pages
  BY DEF Acceptable
<1>2. Response(text, c).status \in Pages \cup {"400", "kUnknown"}
  BY <1>1 DEF Response
<1>3. Response(text, c).close \in BOOLEAN
  BY DEF Response
<1>4. Response(text, c) = [status |-> Response(text, c).status, close |-> Response(text, c).close]
  BY DEF Response
<1> HIDE DEF Response
<1> QED BY <1>2, <1>3, <1>4 DEF Answer

LEMMA ResponsesType ==
  ASSUME NEW ls \in Seq(Texts), NEW i \in 1 .. Len(ls) + 1
  PROVE  ResponsesFrom(ls)[i] \in Seq(Answer)
<1> DEFINE n == Len(ls)
           R == ResponsesFrom(ls)
           G == {d \in 0..n : \A j \in n + 1 - d .. n + 1 : R[j] \in Seq(Answer)}
<1>1. n \in Nat
  OBVIOUS
<1>2. 0 \in G
  <2>1. R[n + 1] = <<>>
    <3>1. n + 1 \in 1 .. n + 1 /\ n + 1 > n
      BY <1>1
    <3> QED BY <3>1, ResponsesFromAt DEF ResponsesAt
  <2>2. R[n + 1] \in Seq(Answer)
    BY <2>1
  <2>3. \A j \in n + 1 - 0 .. n + 1 : j = n + 1
    BY <1>1
  <2> HIDE DEF R
  <2> QED BY <1>1, <2>2, <2>3
<1>3. ASSUME NEW d \in 1..n, d - 1 \in G PROVE d \in G
  <2> DEFINE m == n + 1 - d
  <2>1. m \in 1..n /\ n + 1 - (d - 1) = m + 1
    BY <1>1
  <2>2. \A j \in m + 1 .. n + 1 : R[j] \in Seq(Answer)
    BY <1>3, <2>1
  <2>3. R[m] \in Seq(Answer)
    <3>1. m \in 1 .. Len(ls) + 1 /\ ~(m > Len(ls))
      BY <1>1, <2>1
    <3>2. R[m] = ResponsesAt(ls, m, R)
      BY <3>1, ResponsesFromAt
    <3> HIDE DEF R, m
    <3>3. CASE ~Acceptable(ls[m])
      <4>1. R[m] = <<BadRequest>>
        BY <3>1, <3>2, <3>3 DEF ResponsesAt
      <4>2. BadRequest \in Answer
        BY DEF BadRequest, Answer
      <4> QED BY <4>1, <4>2
    <3>4. CASE Acceptable(ls[m]) /\ Ends(ls, m) = {}
      BY <3>1, <3>2, <3>4 DEF ResponsesAt
    <3>5. CASE Acceptable(ls[m]) /\ Ends(ls, m) # {}
      <4> DEFINE answer == Response(ls[m], Connection(ls, m))
                 later == IF answer.close THEN <<>> ELSE R[First(Ends(ls, m)) + 1]
      <4>1. R[m] = <<answer>> \o later
        BY <3>1, <3>2, <3>5 DEF ResponsesAt
      <4>2. answer \in Answer
        BY <3>5, ResponseIsAnswer
      <4>3. First(Ends(ls, m)) \in m + 1 .. Len(ls)
        <5>1. m \in Nat
          BY <2>1
        <5> QED BY <3>5, <5>1, FirstEnd
      <4>4. First(Ends(ls, m)) + 1 \in m + 1 .. n + 1
        BY <1>1, <2>1, <4>3
      <4>5. later \in Seq(Answer)
        BY <2>2, <4>4
      <4>6. <<answer>> \in Seq(Answer)
        <5> HIDE DEF answer
        <5> QED BY <4>2
      <4> HIDE DEF answer, later
      <4> QED BY <4>1, <4>5, <4>6, ConcatProperties
    <3> QED BY <3>3, <3>4, <3>5
  <2>4. ASSUME NEW j \in m .. n + 1 PROVE R[j] \in Seq(Answer)
    <3>1. j = m \/ j \in m + 1 .. n + 1
      BY <1>1, <2>1
    <3> QED BY <2>2, <2>3, <3>1
  <2>5. d \in 0..n
    BY <1>1
  <2> QED BY <2>4, <2>5
<1>4. 0..n \subseteq G
  <2> HIDE DEF G
  <2> QED BY <1>1, <1>2, <1>3, UpTo
<1>5. n \in G /\ i \in n + 1 - n .. n + 1
  BY <1>1, <1>4
<1> QED BY <1>5

(***************************************************************************)
(* The invariant holds.                                                    *)
(***************************************************************************)

LEMMA HttpStarts ==
  ASSUME HttpInit
  PROVE  HttpInv
<1>1. /\ lines = <<>> /\ socket = <<>> /\ inputBuffer_ = <<>> /\ sent = <<>> /\ outBuf = <<>>
      /\ state_ = "kExpectRequestLine" /\ request_ = NoRequest /\ response = NoResponse
      /\ needClose = FALSE /\ pc = "poll"
  BY DEF HttpInit
<1>2. stream = <<>>
  <2>1. <<>> \in Seq(Symbol)
    OBVIOUS
  <2> QED BY <1>1, <2>1, ConcatEmptySeq DEF stream
<1>3. InputOK
  BY <1>1, <1>2 DEF InputOK, SymbolsOf
<1>4. answered = <<>>
  BY <1>1 DEF answered
<1>5. taken = 0
  BY <1>1, <1>2 DEF taken, Before
<1>6. CRLFs = {}
  BY <1>1 DEF CRLFs
<1>7. AnsweredBefore(taken + 1)
  <2> SUFFICES ASSUME NEW ls, Possible(ls)
               PROVE  Responses(ls) = answered \o ResponsesFrom(ls)[taken + 1]
    BY DEF AnsweredBefore
  <2>1. ResponsesFrom(ls)[1] \in Seq(Answer)
    BY ResponsesType DEF Possible
  <2>2. <<>> \o ResponsesFrom(ls)[1] = ResponsesFrom(ls)[1]
    BY ONLY <2>1, ConcatEmptySeq
  <2>3. taken + 1 = 1
    BY <1>5
  <2> QED BY <1>4, <2>2, <2>3 DEF Responses
<1>8. InOnMessage /\ LinesWaiting
  BY <1>1, <1>6 DEF InOnMessage, LinesWaiting
<1>9. LastCloses
  BY <1>1, <1>4 DEF LastCloses
<1>10. Progress
  BY <1>1, <1>7 DEF Progress
<1> QED BY <1>1, <1>3, <1>8, <1>9, <1>10 DEF HttpInv

LEMMA SendKeeps ==
  ASSUME HttpInv, NEW text \in Texts, Send(text)
  PROVE  HttpInv'
<1>1. InputOK' /\ taken' = taken /\ arrived' = arrived /\ lines' = Append(lines, text)
  BY LineSent DEF HttpInv
<1>2. InputOK /\ lines \in Seq(Texts)
  BY DEF HttpInv, InputOK
<1>3. /\ UNCHANGED <<inputBuffer_, state_, request_, response, outBuf, needClose, pc, sent>>
  BY DEF Send, context, locals
<1>4. LinesStay
  BY <1>1, <1>2 DEF LinesStay
<1>5. answered' = answered
  BY <1>3 DEF answered
<1>6. arrived <= arrived' /\ taken \in Nat /\ arrived \in Nat
  <2>1. arrived \in Nat /\ taken \in Nat
    BY <1>2, Counts
  <2> QED BY <1>1, <2>1
<1>7. Progress'
  BY <1>1, <1>2, <1>3, <1>4, <1>5, <1>6, ProgressStays DEF HttpInv
<1>8. InOnMessage'
  BY <1>3 DEF HttpInv, InOnMessage
<1>9. LastCloses'
  BY <1>3, <1>5 DEF HttpInv, LastCloses
<1>10. CRLFs' = CRLFs
  BY <1>3 DEF CRLFs
<1>11. LinesWaiting'
  <2>1. ASSUME CRLFs # {} PROVE lines'[taken + 1] = lines[taken + 1]
    <3>1. taken + 1 \in 1..Len(lines)
      BY <1>2, <2>1, LineFound
    <3> QED BY <1>4, <3>1 DEF LinesStay
  <2> QED BY <1>1, <1>3, <1>10, <2>1 DEF HttpInv, LinesWaiting
<1> QED BY <1>1, <1>3, <1>7, <1>8, <1>9, <1>11 DEF HttpInv

LEMMA ReadKeeps ==
  ASSUME HttpInv, NEW n \in 1..Len(socket), handleRead(n)
  PROVE  HttpInv'
<1>1. InputOK' /\ taken' = taken /\ arrived <= arrived' /\ lines' = lines
  BY SymbolsRead DEF HttpInv
<1>2. InputOK /\ lines \in Seq(Texts) /\ sent \in Seq(Answer)
  BY DEF HttpInv, InputOK
<1>3. /\ UNCHANGED <<state_, request_, sent>> /\ pc = "poll" /\ pc' = "parse"
      /\ response' = NoResponse /\ outBuf' = <<>> /\ needClose' = FALSE
  BY DEF handleRead, context
<1>4. LinesStay
  BY <1>1, <1>2 DEF LinesStay
<1>5. answered' = answered
  <2>1. answered = sent /\ answered' = sent \o <<>>
    BY <1>3 DEF answered
  <2> QED BY <1>2, <2>1, ConcatEmptySeq
<1>6. needClose = FALSE
  BY <1>3 DEF HttpInv, InOnMessage
<1>7. Progress'
  BY <1>1, <1>2, <1>3, <1>4, <1>5, <1>6, ProgressStays DEF HttpInv
<1>8. InOnMessage'
  BY <1>3 DEF HttpInv, InOnMessage
<1>9. LastCloses'
  BY <1>3, <1>5, <1>6 DEF HttpInv, LastCloses
<1>10. LinesWaiting'
  BY <1>3 DEF LinesWaiting
<1> QED BY <1>1, <1>2, <1>3, <1>7, <1>8, <1>9, <1>10 DEF HttpInv

\* A step that leaves input and context alone, and adds no response.
LEMMA StepKeeps ==
  ASSUME HttpInv, UNCHANGED <<lines, socket, inputBuffer_, state_, request_, needClose>>,
         answered' = answered, pc # "bad" \/ pc' = "bad"
  PROVE  InputOK' /\ LastCloses' /\ Progress' /\ CRLFs' = CRLFs /\ taken' = taken
<1>1. stream' = stream /\ CRLFs' = CRLFs
  BY DEF stream, CRLFs
<1>2. taken' = taken /\ arrived' = arrived
  BY <1>1 DEF taken, arrived
<1>3. InputOK /\ InputOK'
  BY <1>1 DEF HttpInv, InputOK
<1>4. arrived <= arrived'
  <2>1. arrived \in Nat
    BY <1>3, Counts
  <2> QED BY <1>2, <2>1
<1>5. LinesStay
  <2>1. Len(lines) \in Nat
    BY <1>3, Counts
  <2> QED BY <2>1 DEF LinesStay
<1>6. Progress'
  BY <1>2, <1>3, <1>4, <1>5, ProgressStays DEF HttpInv
<1>7. LastCloses'
  BY DEF HttpInv, LastCloses
<1> QED BY <1>1, <1>2, <1>3, <1>6, <1>7

LEMMA NeedMoreKeeps ==
  ASSUME HttpInv, NeedMore
  PROVE  HttpInv'
<1>1. /\ UNCHANGED <<lines, socket, inputBuffer_, state_, request_, needClose, response, outBuf, sent>>
      /\ pc = "parse" /\ pc' = "parsed" /\ state_ \in {"kExpectRequestLine", "kExpectHeaders"}
      /\ CRLFs = {}
  BY DEF NeedMore, input, context, locals
<1>2. answered' = answered
  BY <1>1 DEF answered
<1>3. InputOK' /\ LastCloses' /\ Progress' /\ CRLFs' = CRLFs
  BY <1>1, <1>2, StepKeeps
<1>4. InOnMessage'
  BY <1>1 DEF HttpInv, InOnMessage
<1>5. LinesWaiting'
  BY <1>1, <1>3 DEF LinesWaiting
<1> QED BY <1>1, <1>3, <1>4, <1>5 DEF HttpInv

LEMMA BreakKeeps ==
  ASSUME HttpInv, onMessageBreak
  PROVE  HttpInv'
<1>1. /\ UNCHANGED <<lines, socket, inputBuffer_, state_, request_, needClose, response, outBuf, sent>>
      /\ pc = "parsed" /\ pc' = "send" /\ state_ # "kGotAll"
  BY DEF onMessageBreak, input, context, locals
<1>2. answered' = answered
  BY <1>1 DEF answered
<1>3. InputOK' /\ LastCloses' /\ Progress' /\ CRLFs' = CRLFs
  BY <1>1, <1>2, StepKeeps
<1>4. InOnMessage'
  BY <1>1 DEF HttpInv, InOnMessage
<1>5. CRLFs = {}
  BY <1>1 DEF HttpInv, LinesWaiting
<1>6. LinesWaiting'
  BY <1>1, <1>3, <1>5 DEF LinesWaiting
<1> QED BY <1>1, <1>3, <1>4, <1>6 DEF HttpInv

LEMMA EndKeeps ==
  ASSUME HttpInv, onMessageEnd
  PROVE  HttpInv'
<1>1. /\ UNCHANGED <<lines, socket, inputBuffer_, state_, request_, needClose, response, outBuf>>
      /\ pc = "send" /\ pc' = (IF needClose THEN "closed" ELSE "poll") /\ sent' = sent \o outBuf
  BY DEF onMessageEnd, input, context, locals
<1>2. answered' = answered
  BY <1>1 DEF answered
<1>3. InputOK' /\ LastCloses' /\ Progress' /\ CRLFs' = CRLFs
  BY <1>1, <1>2, StepKeeps
<1>4. sent \in Seq(Answer) /\ outBuf \in Seq(Answer) /\ InOnMessage /\ LinesWaiting
  BY DEF HttpInv
<1>5. InOnMessage' /\ LinesWaiting'
  <2>1. CASE needClose
    BY <1>1, <1>4, <2>1 DEF InOnMessage, LinesWaiting
  <2>2. CASE ~needClose
    <3>1. CRLFs = {}
      BY <1>1, <1>4, <2>2 DEF LinesWaiting
    <3> QED BY <1>1, <1>3, <1>4, <2>2, <3>1 DEF InOnMessage, LinesWaiting
  <2> QED BY <2>1, <2>2
<1>6. sent' \in Seq(Answer)
  BY <1>1, <1>4, ConcatProperties
<1> QED BY <1>1, <1>3, <1>4, <1>5, <1>6 DEF HttpInv

\* A request line is judged on its own: nothing of an earlier request is left.
LEMMA RequestLine ==
  ASSUME NEW text, request_ = NoRequest
  PROVE  /\ processRequestLine(text) /\ checkHeaderCallback(Processed(text)) <=> Acceptable(text)
         /\ Acceptable(text)
              => Processed(text) = [method |-> "GET", version |-> text.version,
                                    path |-> text.path, connection |-> ""]
<1>1. setMethod(text) = IF text.method \in Methods THEN text.method ELSE "kInvalid"
  BY DEF setMethod, NoRequest
<1>2. "kInvalid" \notin Methods /\ "GET" \in Methods
  BY DEF Methods
<1>3. ASSUME Acceptable(text)
      PROVE  /\ processRequestLine(text)
             /\ Processed(text) = [method |-> "GET", version |-> text.version,
                                   path |-> text.path, connection |-> ""]
  <2>1. text.method = "GET" /\ text.path \in Pages /\ text.version \in {"kHttp10", "kHttp11"}
    BY <1>3 DEF Acceptable
  <2>2. text.path # "none"
    BY <2>1, HttpAssumption
  <2>3. setMethod(text) = "GET"
    BY <1>1, <1>2, <2>1
  <2>4. processRequestLine(text)
    BY <2>1, <2>2, <2>3 DEF processRequestLine
  <2>5. Processed(text) = [request_ EXCEPT !.method = "GET", !.path = text.path,
                                           !.version = text.version]
    BY <2>1, <2>2, <2>3 DEF Processed
  <2> QED BY <2>4, <2>5 DEF NoRequest
<1>4. ASSUME Acceptable(text) PROVE checkHeaderCallback(Processed(text))
  <2>2. Processed(text) = [method |-> "GET", version |-> text.version,
                          path |-> text.path, connection |-> ""]
    BY <1>3, <1>4
  <2>1. Processed(text).method = "GET" /\ Processed(text).path = text.path
    <3>1. ASSUME NEW p, NEW v, NEW q, p = [method |-> "GET", version |-> v, path |-> q, connection |-> ""]
          PROVE  p.method = "GET" /\ p.path = q
      BY ONLY <3>1
    <3> QED BY ONLY <2>2, <3>1
  <2> QED BY <1>4, <2>1 DEF Acceptable, checkHeaderCallback, checkGetCallback
<1>5. ASSUME processRequestLine(text), checkHeaderCallback(Processed(text)) PROVE Acceptable(text)
  <2>1. /\ setMethod(text) # "kInvalid" /\ text.path # "none"
        /\ text.version \in {"kHttp10", "kHttp11"}
    BY <1>5 DEF processRequestLine
  <2>2. Processed(text).method = setMethod(text) /\ Processed(text).path = text.path
    BY <2>1 DEF Processed, NoRequest
  <2>3. setMethod(text) = "GET" /\ text.path \in Pages
    BY <1>5, <2>2 DEF checkHeaderCallback, checkGetCallback
  <2>4. text.method = "GET"
    BY <1>1, <2>3
  <2> QED BY <2>1, <2>3, <2>4 DEF Acceptable
<1> QED BY <1>3, <1>4, <1>5

LEMMA RequestLineKeeps ==
  ASSUME HttpInv, ParseRequestLine
  PROVE  HttpInv'
<1>1. /\ pc = "parse" /\ state_ = "kExpectRequestLine" /\ CRLFs # {}
      /\ UNCHANGED input /\ UNCHANGED <<lines, socket, response, outBuf, needClose, sent>>
  BY DEF ParseRequestLine, input, locals
<1>2. /\ InputOK /\ sent \in Seq(Answer) /\ outBuf \in Seq(Answer) /\ InOnMessage /\ LastCloses
      /\ Progress
  BY DEF HttpInv
<1>3. needClose = FALSE /\ response = NoResponse
  BY <1>1, <1>2 DEF InOnMessage
<1>4. AnsweredBefore(taken + 1) /\ request_ = NoRequest
  BY <1>1, <1>2, <1>3 DEF Progress
<1>5. taken + 1 \in 1..Len(lines) /\ Line = lines[taken + 1]
  BY <1>1, <1>2, LineFound
<1>6. taken \in Nat /\ arrived \in Nat /\ Len(lines) \in Nat
  BY <1>2, Counts
<1>7. LinesStay
  BY <1>1, <1>6 DEF LinesStay
<1>10. PICK t : t = taken + 1
  OBVIOUS
<1>8. CASE Acceptable(Line)
  <2>1. /\ retrieveUntil /\ state_' = "kExpectHeaders" /\ pc' = pc
        /\ request_' = [method |-> "GET", version |-> Line.version, path |-> Line.path,
                        connection |-> ""]
    BY <1>4, <1>8, RequestLine DEF ParseRequestLine
  <2>2. InputOK' /\ taken' = t /\ arrived' = arrived
    BY <1>1, <1>2, <1>10, <2>1, LineTaken
  <2>3. answered' = answered
    BY <1>1, <2>1 DEF answered
  <2>4. arrived <= arrived'
    BY <1>6, <2>2
  <2>5. AnsweredBefore(t)'
    <3>1. \A s : AnsweredBefore(s) => AnsweredBefore(s)'
      BY <1>2, <1>7, <2>2, <2>3, <2>4, AnsweredStays
    <3>2. AnsweredBefore(t)
      BY <1>4, <1>10
    <3> QED BY <3>1, <3>2
  <2>6. t \in Nat \ {0} /\ lines'[t] = Line
    BY <1>1, <1>5, <1>6, <1>10
  <2>7. RequestFrom(t)'
    <3>1. \A j \in t + 1 .. t : FALSE
      BY <2>6
    <3>2. LastConnection(lines', t, t, "")
      BY <3>1 DEF LastConnection
    <3>3. request_'.connection = ""
      BY <2>1
    <3>4. t <= t
      BY <2>6
    <3> QED BY <1>8, <2>1, <2>2, <2>6, <3>1, <3>2, <3>3, <3>4 DEF RequestFrom
  <2>8. InOnMessage'
    BY <1>1, <1>2, <1>3, <2>1 DEF InOnMessage
  <2>9. LinesWaiting'
    BY <1>1, <2>1 DEF LinesWaiting
  <2>10. LastCloses'
    BY <1>1, <1>2, <2>3 DEF LastCloses
  <2>11. Progress'
    BY <1>1, <1>3, <2>1, <2>5, <2>7 DEF Progress
  <2> QED BY <1>1, <1>2, <2>2, <2>8, <2>9, <2>10, <2>11 DEF HttpInv
<1>9. CASE ~Acceptable(Line)
  <2>1. pc' = "bad" /\ UNCHANGED <<inputBuffer_, state_>>
    BY <1>4, <1>9, RequestLine DEF ParseRequestLine
  <2>2. stream' = stream /\ CRLFs' = CRLFs
    BY <1>1, <2>1 DEF stream, CRLFs
  <2>3. taken' = taken /\ arrived' = arrived
    BY <1>1, <2>2 DEF taken, arrived
  <2>4. InputOK'
    BY <1>1, <1>2, <2>1, <2>2 DEF InputOK
  <2>5. answered' = answered
    BY <1>1, <2>1 DEF answered
  <2>6. AnsweredBefore(taken + 1)'
    <3>1. arrived <= arrived'
      BY <1>6, <2>3
    <3>2. \A s : AnsweredBefore(s) => AnsweredBefore(s)'
      BY <1>2, <1>7, <2>4, <2>5, <3>1, AnsweredStays
    <3>3. PICK s : s = taken + 1
      OBVIOUS
    <3>4. AnsweredBefore(s)'
      BY <1>4, <3>2, <3>3
    <3>5. s = taken' + 1
      BY <2>3, <3>3
    <3> QED BY <3>4, <3>5
  <2>7. InOnMessage'
    BY <1>1, <1>2, <1>3, <2>1 DEF InOnMessage
  <2>8. LinesWaiting'
    <3>1. ~Acceptable(lines'[taken' + 1])
      BY <1>1, <1>5, <1>9, <2>3
    <3> QED BY <1>1, <2>1, <2>2, <3>1 DEF LinesWaiting
  <2>9. LastCloses'
    BY <1>1, <1>2, <2>5 DEF LastCloses
  <2>10. Progress'
    BY <1>1, <1>3, <2>1, <2>6 DEF Progress
  <2> QED BY <1>1, <1>2, <2>4, <2>7, <2>8, <2>9, <2>10 DEF HttpInv
<1> QED BY <1>8, <1>9

LEMMA ConnectionSoFar ==
  ASSUME NEW ls, NEW s \in Nat, NEW m \in Nat, s <= m, NEW c, LastConnection(ls, s, m, c)
  PROVE  /\ ls[m + 1].key = "Connection" => LastConnection(ls, s, m + 1, ls[m + 1].value)
         /\ ls[m + 1].key # "Connection" => LastConnection(ls, s, m + 1, c)
<1>1. m + 1 \in s + 1 .. m + 1 /\ \A k \in (m + 1) + 1 .. m + 1 : FALSE
  OBVIOUS
<1>2. ASSUME ls[m + 1].key = "Connection" PROVE LastConnection(ls, s, m + 1, ls[m + 1].value)
  BY <1>1, <1>2 DEF LastConnection
<1>3. ASSUME ls[m + 1].key # "Connection" PROVE LastConnection(ls, s, m + 1, c)
  <2>1. CASE c = "" /\ \A j \in s + 1 .. m : ls[j].key # "Connection"
    <3>1. ASSUME NEW j \in s + 1 .. m + 1 PROVE ls[j].key # "Connection"
      <4>1. j \in s + 1 .. m \/ j = m + 1
        OBVIOUS
      <4> QED BY <1>3, <2>1, <4>1
    <3> QED BY <2>1, <3>1 DEF LastConnection
  <2>2. ASSUME NEW j \in s + 1 .. m,
               /\ ls[j].key = "Connection" /\ c = ls[j].value
               /\ \A k \in j + 1 .. m : ls[k].key # "Connection"
        PROVE  LastConnection(ls, s, m + 1, c)
    <3>1. ASSUME NEW k \in j + 1 .. m + 1 PROVE ls[k].key # "Connection"
      <4>1. k \in j + 1 .. m \/ k = m + 1
        OBVIOUS
      <4> QED BY <1>3, <2>2, <4>1
    <3>2. j \in s + 1 .. m + 1
      OBVIOUS
    <3> QED BY <2>2, <3>1, <3>2 DEF LastConnection
  <2> QED BY <2>1, <2>2 DEF LastConnection
<1> QED BY <1>2, <1>3

\* A line of a request's headers is taken.
HeaderTaken(s, t) ==
  /\ s \in Nat \ {0} /\ s < t /\ t = taken + 1
  /\ RequestFrom(s) /\ AnsweredBefore(s)
  /\ Line = lines[t]
  /\ InputOK' /\ taken' = t /\ lines' = lines
  /\ AnsweredBefore(s)'

LEMMA HeaderIsTaken ==
  ASSUME HttpInv, pc = "parse", state_ = "kExpectHeaders", CRLFs # {}, retrieveUntil,
         UNCHANGED <<lines, socket, outBuf, needClose, sent>>, pc' \in {"parse", "parsed"}
  PROVE  /\ ~needClose /\ response = NoResponse
         /\ LastCloses'
         /\ \E s, t : HeaderTaken(s, t)
<1>2. /\ InputOK /\ sent \in Seq(Answer) /\ outBuf \in Seq(Answer) /\ InOnMessage /\ LastCloses
      /\ Progress
  BY DEF HttpInv
<1>3. ~needClose /\ response = NoResponse
  BY <1>2 DEF InOnMessage
<1>4. PICK s : RequestFrom(s) /\ AnsweredBefore(s)
  BY <1>2, <1>3 DEF Progress
<1>5. Line = lines[taken + 1]
  BY <1>2, LineFound
<1>6. taken \in Nat /\ arrived \in Nat /\ Len(lines) \in Nat
  BY <1>2, Counts
<1>7. LinesStay
  BY <1>6 DEF LinesStay
<1>8. PICK t : t = taken + 1
  OBVIOUS
<1>9. InputOK' /\ taken' = t /\ arrived' = arrived
  <2>1. UNCHANGED input
    BY DEF input
  <2> QED BY <1>2, <1>8, <2>1, LineTaken
<1>10. answered' = answered
  BY DEF answered
<1>11. AnsweredBefore(s)'
  <2>1. arrived <= arrived'
    BY <1>6, <1>9
  <2> QED BY <1>2, <1>4, <1>7, <1>9, <1>10, <2>1, AnsweredStays
<1>12. LastCloses'
  BY <1>2, <1>10 DEF LastCloses
<1>13. s \in Nat \ {0} /\ s < t
  <2>1. s \in Nat \ {0} /\ s <= taken
    BY <1>4 DEF RequestFrom
  <2> QED BY <1>6, <1>8, <2>1
<1>14. HeaderTaken(s, t)
  BY <1>4, <1>5, <1>8, <1>9, <1>11, <1>13 DEF HeaderTaken
<1> QED BY <1>3, <1>12, <1>14

LEMMA HeaderKeeps ==
  ASSUME HttpInv, ParseHeader
  PROVE  HttpInv'
<1>1. /\ pc = "parse" /\ state_ = "kExpectHeaders" /\ CRLFs # {} /\ retrieveUntil
      /\ Line.key # "none" /\ addHeader(Line)
      /\ UNCHANGED <<lines, socket, state_, response, outBuf, needClose, pc, sent>>
  BY DEF ParseHeader, input, locals
<1>2. /\ ~needClose /\ response = NoResponse /\ LastCloses'
      /\ \E s, t : HeaderTaken(s, t)
  BY <1>1, HeaderIsTaken
<1>3. PICK s, t : HeaderTaken(s, t)
  BY <1>2
<1>4. /\ s \in Nat \ {0} /\ s < t /\ t = taken + 1 /\ Line = lines[t]
      /\ InputOK' /\ taken' = t /\ AnsweredBefore(s)'
  BY <1>3 DEF HeaderTaken
<1>5. /\ s <= taken /\ Acceptable(lines[s])
      /\ request_ = [method |-> "GET", version |-> lines[s].version, path |-> lines[s].path,
                     connection |-> request_.connection]
      /\ LastConnection(lines, s, taken, request_.connection)
      /\ \A j \in s + 1 .. taken : lines[j].key # "none"
  BY <1>1, <1>3 DEF HeaderTaken, RequestFrom
<1>6. taken \in Nat
  BY Counts DEF HttpInv
<1>7. /\ lines[t].key = "Connection" => LastConnection(lines, s, t, lines[t].value)
      /\ lines[t].key # "Connection" => LastConnection(lines, s, t, request_.connection)
  BY <1>4, <1>5, <1>6, ConnectionSoFar
<1>8. /\ request_' = [method |-> "GET", version |-> lines[s].version, path |-> lines[s].path,
                      connection |-> request_'.connection]
      /\ LastConnection(lines, s, t, request_'.connection)
  <2>1. CASE lines[t].key = "Connection"
    <3>1. request_' = [request_ EXCEPT !.connection = lines[t].value]
      BY <1>1, <1>4, <2>1 DEF addHeader
    <3>2. request_' = [method |-> "GET", version |-> lines[s].version, path |-> lines[s].path,
                       connection |-> lines[t].value]
      BY <1>5, <3>1
    <3>3. request_'.connection = lines[t].value
      BY <3>2
    <3> QED BY <1>7, <2>1, <3>2, <3>3
  <2>2. CASE lines[t].key # "Connection"
    <3>1. request_' = request_
      BY <1>1, <1>4, <2>2 DEF addHeader
    <3> QED BY <1>5, <1>7, <2>2, <3>1
  <2> QED BY <2>1, <2>2
<1>9. ASSUME NEW j \in s + 1 .. t PROVE lines[j].key # "none"
  <2>1. j \in s + 1 .. taken \/ j = t
    BY <1>4, <1>6
  <2> QED BY <1>1, <1>4, <1>5, <2>1
<1>10. RequestFrom(s)'
  <2>1. s <= t
    BY <1>4, <1>6
  <2> QED BY <1>1, <1>4, <1>5, <1>8, <1>9, <2>1 DEF RequestFrom
<1>11. Progress'
  BY <1>1, <1>2, <1>4, <1>10 DEF Progress
<1>12. InOnMessage'
  BY <1>1 DEF HttpInv, InOnMessage
<1>13. LinesWaiting'
  BY <1>1 DEF LinesWaiting
<1> QED BY <1>1, <1>2, <1>4, <1>11, <1>12, <1>13 DEF HttpInv

LEMMA EndHeadersKeeps ==
  ASSUME HttpInv, EndHeaders
  PROVE  HttpInv'
<1>1. /\ pc = "parse" /\ state_ = "kExpectHeaders" /\ CRLFs # {} /\ retrieveUntil
      /\ Line.key = "none" /\ state_' = "kGotAll" /\ pc' = "parsed"
      /\ UNCHANGED <<lines, socket, request_, response, outBuf, needClose, sent>>
  BY DEF EndHeaders, input, locals
<1>2. /\ ~needClose /\ response = NoResponse /\ LastCloses'
      /\ \E s, t : HeaderTaken(s, t)
  BY <1>1, HeaderIsTaken
<1>3. PICK s, t : HeaderTaken(s, t)
  BY <1>2
<1>4. /\ s \in Nat \ {0} /\ s < t /\ t = taken + 1 /\ Line = lines[t]
      /\ InputOK' /\ taken' = t /\ AnsweredBefore(s)'
  BY <1>3 DEF HeaderTaken
<1>5. /\ s <= taken /\ Acceptable(lines[s])
      /\ request_ = [method |-> "GET", version |-> lines[s].version, path |-> lines[s].path,
                     connection |-> request_.connection]
      /\ LastConnection(lines, s, taken, request_.connection)
      /\ \A j \in s + 1 .. taken : lines[j].key # "none"
  BY <1>1, <1>3 DEF HeaderTaken, RequestFrom
<1>6. taken \in Nat
  BY Counts DEF HttpInv
<1>7. LastConnection(lines, s, t, request_.connection)
  <2>1. lines[t].key # "Connection"
    BY <1>1, <1>4
  <2> QED BY <1>4, <1>5, <1>6, <2>1, ConnectionSoFar
<1>8. t - 1 = taken
  BY <1>4, <1>6
<1>9. RequestFrom(s)'
  <2>1. s <= t
    BY <1>4, <1>6
  <2> QED BY <1>1, <1>4, <1>5, <1>7, <1>8, <2>1 DEF RequestFrom
<1>10. Progress'
  BY <1>1, <1>2, <1>4, <1>9 DEF Progress
<1>11. InOnMessage'
  BY <1>1, <1>2 DEF HttpInv, InOnMessage
<1>12. LinesWaiting'
  BY <1>1 DEF LinesWaiting
<1> QED BY <1>1, <1>2, <1>4, <1>10, <1>11, <1>12 DEF HttpInv

LEMMA BadRequestKeeps ==
  ASSUME HttpInv, onBadRequest
  PROVE  HttpInv'
<1>1. /\ pc = "bad" /\ pc' = "send" /\ appendToBuffer(BadRequest) /\ needClose' = TRUE
      /\ state_' = "kExpectRequestLine"
      /\ UNCHANGED <<lines, socket, inputBuffer_, response, sent>>
  BY DEF onBadRequest, contextReset, input
<1>2. /\ InputOK /\ sent \in Seq(Answer) /\ outBuf \in Seq(Answer) /\ InOnMessage /\ LastCloses
      /\ Progress /\ LinesWaiting
  BY DEF HttpInv
<1>3. ~needClose /\ state_ = "kExpectRequestLine" /\ CRLFs # {} /\ ~Acceptable(lines[taken + 1])
  BY <1>1, <1>2 DEF InOnMessage, LinesWaiting
<1>4. AnsweredBefore(taken + 1)
  BY <1>2, <1>3 DEF Progress
<1>5. BadRequest \in Answer /\ BadRequest.close = TRUE
  BY DEF BadRequest, Answer
<1>6. outBuf' \in Seq(Answer) /\ answered' = answered \o <<BadRequest>> /\ LastCloses'
  BY <1>1, <1>2, <1>3, <1>5, AnswerAdded
<1>7. stream' = stream
  BY <1>1 DEF stream
<1>8. InputOK' /\ arrived' = arrived
  BY <1>1, <1>2, <1>7 DEF InputOK, arrived
<1>9. taken \in Nat /\ arrived \in Nat /\ taken + 1 <= arrived
  BY <1>2, <1>3, Counts
<1>10. AnsweredAll'
  <2> SUFFICES ASSUME NEW ls, Possible(ls)' PROVE Responses(ls) = answered'
    BY DEF AnsweredAll
  <2>1. /\ Possible(ls) /\ ls \in Seq(Texts) /\ arrived <= Len(ls)
        /\ \A i \in 1..arrived : ls[i] = lines[i]
    BY <1>1, <1>8 DEF Possible
  <2>2. taken + 1 \in 1..Len(ls) /\ taken + 1 \in 1..arrived
    BY <1>9, <2>1
  <2>3. ~Acceptable(ls[taken + 1])
    BY <1>3, <2>1, <2>2
  <2>4. ResponsesFrom(ls)[taken + 1] = <<BadRequest>>
    BY <2>1, <2>2, <2>3, RefusedRequest
  <2>5. Responses(ls) = answered \o ResponsesFrom(ls)[taken + 1]
    BY <1>4, <2>1 DEF AnsweredBefore
  <2> QED BY <1>6, <2>4, <2>5
<1>11. Progress'
  BY <1>1, <1>10 DEF Progress
<1>12. InOnMessage' /\ LinesWaiting'
  BY <1>1, <1>2 DEF InOnMessage, LinesWaiting
<1> QED BY <1>1, <1>2, <1>6, <1>8, <1>11, <1>12 DEF HttpInv

\* What onRequest makes of a request is the response to its lines.
LEMMA OnRequestResponds ==
  ASSUME NEW req, NEW text, Acceptable(text),
         req = [method |-> "GET", version |-> text.version, path |-> text.path,
                connection |-> req.connection]
  PROVE  onRequest(req, NoResponse) = Response(text, req.connection)
<1>1. req.method = "GET" /\ req.version = text.version /\ req.path = text.path
  <2>1. ASSUME NEW p, NEW v, NEW q, NEW c,
               p = [method |-> "GET", version |-> v, path |-> q, connection |-> c]
        PROVE  p.method = "GET" /\ p.version = v /\ p.path = q
    BY ONLY <2>1
  <2> QED BY ONLY <2>1, req = [method |-> "GET", version |-> text.version, path |-> text.path,
                               connection |-> req.connection]
<1>2. text.path \in Pages /\ text.version \in {"kHttp10", "kHttp11"}
  BY DEF Acceptable
<1>3. NoResponse.status = "kUnknown"
  BY DEF NoResponse
<1> DEFINE a == \/ req.connection = "close"
                \/ req.version = "kHttp10" /\ req.connection # "Keep-Alive"
           d == IF text.version = "kHttp10" THEN req.connection # "Keep-Alive"
                                            ELSE req.connection = "close"
           u == IF req.method = "GET" /\ checkGetCallback(req.path) /\ req.path \notin Silent
                THEN req.path ELSE NoResponse.status
           w == IF text.path \in Silent THEN "kUnknown" ELSE text.path
<1>4. a <=> d
  BY <1>1
<1>5. a = d
  <2>1. a \in BOOLEAN /\ d \in BOOLEAN
    OBVIOUS
  <2> HIDE DEF a, d
  <2> QED BY <1>4, <2>1
<1>6. u = w
  BY <1>1, <1>2, <1>3 DEF checkGetCallback
<1>7. onRequest(req, NoResponse) = [status |-> u, close |-> a]
  BY DEF onRequest
<1>8. Response(text, req.connection) = [status |-> w, close |-> d]
  BY DEF Response
<1> HIDE DEF a, d, u, w
<1> QED BY <1>5, <1>6, <1>7, <1>8

LEMMA SameConnection ==
  ASSUME NEW ls, NEW mine, NEW s \in Nat, NEW m \in Nat, NEW c, LastConnection(mine, s, m, c),
         \A j \in s + 1 .. m : ls[j] = mine[j]
  PROVE  LastConnection(ls, s, m, c)
<1>1. CASE c = "" /\ \A j \in s + 1 .. m : mine[j].key # "Connection"
  BY <1>1 DEF LastConnection
<1>2. ASSUME NEW j \in s + 1 .. m,
             /\ mine[j].key = "Connection" /\ c = mine[j].value
             /\ \A k \in j + 1 .. m : mine[k].key # "Connection"
      PROVE  LastConnection(ls, s, m, c)
  <2>1. \A k \in j + 1 .. m : k \in s + 1 .. m
    OBVIOUS
  <2> QED BY <1>2, <2>1 DEF LastConnection
<1> QED BY <1>1, <1>2 DEF LastConnection

LEMMA GotAllKeeps ==
  ASSUME HttpInv, onMessageGotAll
  PROVE  HttpInv'
<1> DEFINE y == onRequest(request_, response)
<1>1. /\ pc = "parsed" /\ state_ = "kGotAll" /\ appendToBuffer(y) /\ needClose' = y.close
      /\ state_' = "kExpectRequestLine" /\ request_' = NoRequest /\ response' = NoResponse
      /\ pc' = (IF needClose' THEN "send" ELSE "parse")
      /\ UNCHANGED <<lines, socket, inputBuffer_, sent>>
  BY DEF onMessageGotAll, contextReset, input
<1>2. /\ InputOK /\ sent \in Seq(Answer) /\ outBuf \in Seq(Answer) /\ InOnMessage /\ LastCloses
      /\ Progress
  BY DEF HttpInv
<1>3. ~needClose /\ response = NoResponse
  BY <1>1, <1>2 DEF InOnMessage
<1>4. PICK s : RequestFrom(s) /\ AnsweredBefore(s)
  BY <1>1, <1>2, <1>3 DEF Progress
<1>5. /\ s \in Nat \ {0} /\ Acceptable(lines[s])
      /\ request_ = [method |-> "GET", version |-> lines[s].version, path |-> lines[s].path,
                     connection |-> request_.connection]
      /\ LastConnection(lines, s, taken, request_.connection)
      /\ s < taken /\ lines[taken].key = "none"
      /\ \A j \in s + 1 .. taken - 1 : lines[j].key # "none"
  BY <1>1, <1>4 DEF RequestFrom
<1>6. taken \in Nat /\ arrived \in Nat /\ taken <= arrived
  BY <1>2, Counts
<1> DEFINE c == request_.connection
           x == Response(lines[s], c)
<1>7. y = x
  BY <1>3, <1>5, OnRequestResponds
<1>8. x \in Answer /\ x.close \in BOOLEAN
  BY <1>5, ResponseIsAnswer
<1> HIDE DEF x, y
<1>9. pc' \notin {"poll", "closed"} /\ pc \notin {"poll", "closed"}
  BY <1>1
<1>10. /\ outBuf' \in Seq(Answer) /\ answered' = answered \o <<x>> /\ LastCloses'
  <2>1. appendToBuffer(x) /\ (needClose' <=> x.close) /\ sent' = sent
    BY <1>1, <1>7
  <2> QED BY <1>2, <1>3, <1>8, <1>9, <2>1, AnswerAdded
<1>11. stream' = stream
  BY <1>1 DEF stream
<1>12. InputOK' /\ arrived' = arrived /\ taken' = taken
  BY <1>1, <1>2, <1>11 DEF InputOK, arrived, taken
<1>13. ASSUME NEW ls, Possible(ls)'
       PROVE  /\ needClose' => Responses(ls) = answered'
              /\ ~needClose' => Responses(ls) = answered' \o ResponsesFrom(ls)[taken + 1]
  <2>1. /\ Possible(ls) /\ ls \in Seq(Texts) /\ arrived <= Len(ls)
        /\ \A i \in 1..arrived : ls[i] = lines[i]
    BY <1>1, <1>12, <1>13 DEF Possible
  <2>2. s \in 1..arrived /\ taken \in 1..arrived /\ \A j \in s + 1 .. taken : j \in 1..arrived
    BY <1>5, <1>6
  <2>3. /\ taken <= Len(ls) /\ Acceptable(ls[s]) /\ ls[taken].key = "none" /\ ls[s] = lines[s]
        /\ \A j \in s + 1 .. taken : ls[j] = lines[j]
    <3>1. taken <= Len(ls)
      BY <1>6, <2>1
    <3> QED BY <1>5, <2>1, <2>2, <3>1
  <2>4. LastConnection(ls, s, taken, c)
    BY <1>5, <1>6, <2>3, SameConnection
  <2>5. ASSUME NEW j \in s + 1 .. taken - 1 PROVE ls[j].key # "none"
    <3>1. j \in s + 1 .. taken
      BY <1>5, <1>6
    <3> QED BY <1>5, <2>3, <3>1
  <2>6. /\ x.close => ResponsesFrom(ls)[s] = <<x>>
        /\ ~x.close => ResponsesFrom(ls)[s] = <<x>> \o ResponsesFrom(ls)[taken + 1]
    <3>1. Response(ls[s], c) = x
      BY <2>3 DEF x
    <3>2. /\ Response(ls[s], c).close => ResponsesFrom(ls)[s] = <<Response(ls[s], c)>>
          /\ ~Response(ls[s], c).close
               => ResponsesFrom(ls)[s] = <<Response(ls[s], c)>> \o ResponsesFrom(ls)[taken + 1]
      <4>1. PICK e : e = taken
        OBVIOUS
      <4>2. /\ ls \in Seq(Texts) /\ s \in Nat \ {0} /\ e \in Nat /\ s < e /\ e <= Len(ls)
            /\ Acceptable(ls[s]) /\ ls[e].key = "none" /\ LastConnection(ls, s, e, c)
        BY <1>5, <1>6, <2>1, <2>3, <2>4, <4>1
      <4>3. \A i \in s + 1 .. e - 1 : ls[i].key # "none"
        BY <2>5, <4>1
      <4>4. /\ Response(ls[s], c).close => ResponsesFrom(ls)[s] = <<Response(ls[s], c)>>
            /\ ~Response(ls[s], c).close
                 => ResponsesFrom(ls)[s] = <<Response(ls[s], c)>> \o ResponsesFrom(ls)[e + 1]
        BY ONLY <4>2, <4>3, CompleteRequest
      <4> QED BY <4>1, <4>4
    <3> QED BY <3>1, <3>2
  <2>7. Responses(ls) = answered \o ResponsesFrom(ls)[s]
    BY <1>4, <2>1 DEF AnsweredBefore
  <2>8. ASSUME needClose' PROVE Responses(ls) = answered'
    BY <1>1, <1>7, <1>10, <2>6, <2>7, <2>8
  <2>9. ASSUME ~needClose' PROVE Responses(ls) = answered' \o ResponsesFrom(ls)[taken + 1]
    <3> DEFINE r == ResponsesFrom(ls)[taken + 1]
    <3>1. taken + 1 \in 1 .. Len(ls) + 1
      BY <1>6, <2>1, <2>3
    <3>2. r \in Seq(Answer)
      BY <2>1, <3>1, ResponsesType
    <3>3. answered \in Seq(Answer) /\ <<x>> \in Seq(Answer)
      BY <1>2, <1>8, AnsweredType
    <3>4. Responses(ls) = answered \o (<<x>> \o r)
      BY <1>1, <1>7, <2>6, <2>7, <2>9
    <3> HIDE DEF r
    <3>5. (answered \o <<x>>) \o r = answered \o (<<x>> \o r)
      BY ONLY <3>2, <3>3, ConcatAssociative
    <3>6. Responses(ls) = answered' \o r
      BY <1>10, <3>4, <3>5
    <3> QED BY <3>6 DEF r
  <2> QED BY <2>8, <2>9
<1>14. ASSUME needClose' PROVE AnsweredAll'
  BY <1>13, <1>14 DEF AnsweredAll
<1>15. ASSUME ~needClose' PROVE AnsweredBefore(taken + 1)'
  BY <1>12, <1>13, <1>15 DEF AnsweredBefore
<1>16. Progress'
  BY <1>1, <1>14, <1>15 DEF Progress
<1>17. needClose' \in BOOLEAN
  BY <1>1, <1>7, <1>8
<1>18. InOnMessage' /\ LinesWaiting'
  <2>1. CASE needClose'
    BY <1>1, <1>17, <2>1 DEF InOnMessage, LinesWaiting
  <2>2. CASE ~needClose'
    BY <1>1, <1>17, <2>2 DEF InOnMessage, LinesWaiting
  <2> QED BY <2>1, <2>2
<1> QED BY <1>1, <1>2, <1>10, <1>12, <1>16, <1>18 DEF HttpInv

LEMMA HttpInvKept ==
  ASSUME HttpInv, [HttpNext]_httpVars
  PROVE  HttpInv'
<1>1. ASSUME NEW text \in Texts, Send(text) PROVE HttpInv'
  BY <1>1, SendKeeps
<1>2. ASSUME NEW n \in 1..Len(socket), handleRead(n) PROVE HttpInv'
  BY <1>2, ReadKeeps
<1>3. CASE onMessage
  BY <1>3, RequestLineKeeps, HeaderKeeps, EndHeadersKeeps, NeedMoreKeeps, BadRequestKeeps,
     GotAllKeeps, BreakKeeps, EndKeeps DEF onMessage
<1>4. CASE UNCHANGED httpVars
  <2>1. UNCHANGED <<lines, socket, inputBuffer_, state_, request_, response, outBuf, needClose,
                    pc, sent>>
    BY <1>4 DEF httpVars
  <2>2. stream' = stream /\ CRLFs' = CRLFs /\ answered' = answered
    BY <2>1 DEF stream, CRLFs, answered
  <2>3. taken' = taken /\ arrived' = arrived
    BY <2>1, <2>2 DEF taken, arrived
  <2>4. \A ls : Possible(ls)' <=> Possible(ls)
    BY <2>1, <2>3 DEF Possible
  <2>5. InputOK' /\ InOnMessage' /\ LinesWaiting' /\ LastCloses'
    BY <2>1, <2>2, <2>3 DEF HttpInv, InputOK, InOnMessage, LinesWaiting, LastCloses
  <2>6. Progress'
    BY <2>1, <2>2, <2>3, <2>4 DEF HttpInv, Progress, AnsweredAll, AnsweredBefore, RequestFrom
  <2> QED BY <2>1, <2>5, <2>6 DEF HttpInv
<1> QED BY <1>1, <1>2, <1>3, <1>4 DEF HttpNext

\* The lines that have arrived are one of the possible inputs.
LEMMA ArrivedIsPossible ==
  ASSUME InputOK
  PROVE  Possible(Arrived) /\ Len(Arrived) = arrived
<1>1. lines \in Seq(Texts) /\ arrived \in Nat /\ Len(lines) \in Nat /\ arrived <= Len(lines)
  BY Counts DEF InputOK
<1>2. CASE socket = <<>>
  <2>1. Arrived = lines /\ arrived = Len(lines)
    BY <1>2 DEF Arrived, arrived, Before
  <2> QED BY <1>1, <2>1 DEF Possible
<1>3. CASE socket # <<>>
  <2>1. Arrived = SubSeq(lines, 1, arrived)
    BY <1>3 DEF Arrived, arrived, Before
  <2>2. \A i \in 1..arrived : lines[i] \in Texts
    BY <1>1
  <2>3. /\ SubSeq(lines, 1, arrived) \in Seq(Texts) /\ Len(SubSeq(lines, 1, arrived)) = arrived
        /\ \A i \in 1..arrived : SubSeq(lines, 1, arrived)[i] = lines[i]
    <3>1. 1 \in Int /\ arrived \in Int
      BY <1>1
    <3>2. /\ SubSeq(lines, 1, arrived) \in Seq(Texts)
          /\ Len(SubSeq(lines, 1, arrived)) = IF 1 <= arrived THEN arrived - 1 + 1 ELSE 0
          /\ \A i \in 1 .. arrived - 1 + 1 : SubSeq(lines, 1, arrived)[i] = lines[1 + i - 1]
      BY <2>2, <3>1, SubSeqProperties
    <3>3. Len(SubSeq(lines, 1, arrived)) = arrived
      BY <1>1, <3>2
    <3>4. ASSUME NEW i \in 1..arrived PROVE SubSeq(lines, 1, arrived)[i] = lines[i]
      <4>1. i \in 1 .. arrived - 1 + 1 /\ 1 + i - 1 = i
        BY <1>1
      <4> QED BY <3>2, <4>1
    <3> QED BY <3>2, <3>3, <3>4
  <2>4. arrived <= arrived
    BY <1>1
  <2> QED BY <2>1, <2>3, <2>4 DEF Possible
<1> QED BY <1>2, <1>3

LEMMA InvAnswers ==
  ASSUME HttpInv
  PROVE  AnswersAsAWhole
<1> SUFFICES ASSUME pc \in {"poll", "closed"}
             PROVE  /\ sent = Responses(Arrived)
                    /\ pc = "closed" <=> sent # <<>> /\ sent[Len(sent)].close
  BY DEF AnswersAsAWhole
<1>1. /\ InputOK /\ sent \in Seq(Answer) /\ InOnMessage /\ LinesWaiting /\ LastCloses /\ Progress
  BY DEF HttpInv
<1>2. Possible(Arrived) /\ Len(Arrived) = arrived /\ Arrived \in Seq(Texts)
  BY <1>1, ArrivedIsPossible DEF Possible
<1>3. answered = sent
  BY DEF answered
<1>4. pc = "closed" <=> needClose
  BY <1>1 DEF InOnMessage
<1>5. taken \in Nat /\ arrived \in Nat /\ taken <= arrived
  BY <1>1, Counts
<1>6. sent = Responses(Arrived)
  <2>1. CASE needClose
    <3>1. AnsweredAll
      BY <1>1, <2>1 DEF Progress
    <3> QED BY <1>2, <1>3, <3>1 DEF AnsweredAll
  <2>2. CASE ~needClose
    <3>1. CRLFs = {} /\ state_ # "kGotAll"
      BY <1>1, <1>4, <2>2 DEF LinesWaiting, InOnMessage
    <3>2. taken = arrived
      BY <1>1, <3>1, NoLineFound
    <3>3. ASSUME NEW s, AnsweredBefore(s), ResponsesFrom(Arrived)[s] = <<>>
          PROVE  sent = Responses(Arrived)
      <4>1. Responses(Arrived) = answered \o ResponsesFrom(Arrived)[s]
        BY <1>2, <3>3 DEF AnsweredBefore
      <4>2. sent \o <<>> = sent
        BY <1>1, ConcatEmptySeq
      <4> QED BY <1>3, <3>3, <4>1, <4>2
    <3>4. CASE state_ = "kExpectRequestLine"
      <4>1. AnsweredBefore(taken + 1)
        BY <1>1, <2>2, <3>4 DEF Progress
      <4>2. taken + 1 \in 1 .. Len(Arrived) + 1 /\ ~(taken + 1 <= Len(Arrived))
        BY <1>2, <1>5, <3>2
      <4>3. ResponsesFrom(Arrived)[taken + 1] = <<>>
        BY <1>2, <4>2, OpenRequest
      <4> QED BY <3>3, <4>1, <4>3
    <3>5. CASE state_ # "kExpectRequestLine"
      <4>1. PICK s : RequestFrom(s) /\ AnsweredBefore(s)
        BY <1>1, <2>2, <3>5 DEF Progress
      <4>2. state_ = "kExpectHeaders"
        BY <1>1, <3>1, <3>5 DEF InOnMessage
      <4>3. /\ s \in Nat \ {0} /\ s <= taken /\ Acceptable(lines[s])
            /\ \A j \in s + 1 .. taken : lines[j].key # "none"
        BY <4>1, <4>2 DEF RequestFrom
      <4>4. \A i \in 1..arrived : Arrived[i] = lines[i]
        BY <1>2 DEF Possible
      <4>5. s \in 1 .. Len(Arrived) + 1 /\ s \in 1..arrived /\ s <= Len(Arrived)
        BY <1>2, <1>5, <3>2, <4>3
      <4>6. ASSUME NEW j \in s + 1 .. Len(Arrived) PROVE Arrived[j].key # "none"
        <5>1. j \in s + 1 .. taken /\ j \in 1..arrived
          BY <1>2, <1>5, <3>2, <4>3
        <5> QED BY <4>3, <4>4, <5>1
      <4>7. Acceptable(Arrived[s])
        BY <4>3, <4>4, <4>5
      <4>8. ResponsesFrom(Arrived)[s] = <<>>
        BY <1>2, <4>5, <4>6, <4>7, OpenRequest
      <4> QED BY <3>3, <4>1, <4>8
    <3> QED BY <3>4, <3>5
  <2> QED BY <2>1, <2>2
<1>7. needClose <=> sent # <<>> /\ sent[Len(sent)].close
  <2>1. \A i \in 1..Len(sent) : sent[i].close <=> needClose /\ i = Len(sent)
    BY <1>1, <1>3 DEF LastCloses
  <2>2. needClose => sent # <<>>
    BY <1>1, <1>3 DEF LastCloses
  <2>3. ASSUME sent # <<>> PROVE Len(sent) \in 1..Len(sent)
    BY <1>1, <2>3
  <2> QED BY <2>1, <2>2, <2>3
<1> QED BY <1>4, <1>6, <1>7

\* However a peer's bytes are cut into reads, HttpServer answers every complete
\* request it has received exactly once and in order, each from its own lines only,
\* refuses what it is not made for, and closes if and only if the last answer says so.
THEOREM RequestsAnsweredAsAWhole == HttpSpec => []AnswersAsAWhole
<1>1. HttpInit => HttpInv
  BY HttpStarts
<1>2. HttpInv /\ [HttpNext]_httpVars => HttpInv'
  BY HttpInvKept
<1>3. HttpInv => AnswersAsAWhole
  BY InvAnswers
<1> QED BY <1>1, <1>2, <1>3, PTL DEF HttpSpec

\* The loop of parseRequest is never entered with a finished request: on one it has
\* neither a branch to take nor a reason to stop.
FinishedRequestIsTaken == pc = "parse" => state_ \in {"kExpectRequestLine", "kExpectHeaders"}

\* onMessage takes a finished request out of the context before it parses on.
THEOREM NoParsingAfterGotAll == HttpSpec => []FinishedRequestIsTaken
<1>1. HttpInit => HttpInv
  BY HttpStarts
<1>2. HttpInv /\ [HttpNext]_httpVars => HttpInv'
  BY HttpInvKept
<1>3. HttpInv => FinishedRequestIsTaken
  BY DEF HttpInv, InOnMessage, FinishedRequestIsTaken
<1> QED BY <1>1, <1>2, <1>3, PTL DEF HttpSpec
=============================================================================
