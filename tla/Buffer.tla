--------------------------------- MODULE Buffer ---------------------------------
(***************************************************************************)
(* muduo::net::Buffer: a vector of bytes with two indices into it.  Bytes   *)
(* are appended at writerIndex_, retrieved at readerIndex_ and prepended    *)
(* before it; when the vector is full the readable bytes move to the front  *)
(* or the vector grows.  The operations are functions from a Buffer to a    *)
(* Buffer, because readFd() and shrink() are made of the others.            *)
(***************************************************************************)
EXTENDS Integers, Sequences

CONSTANTS kCheapPrepend,  \* 8
          kInitialSize,   \* 1024
          ExtraSize,      \* readFd()'s extrabuf: 65536
          ByteBase,       \* values of a byte: 256
          CR, LF,         \* the bytes of kCRLF: 13 and 10
          Widths,         \* sizes of the integers, in bytes: 1, 2, 4, 8
          MaxData,        \* bound on the bytes of one call
          MaxSize         \* bound on the vector

ASSUME SizesAssumption == /\ kCheapPrepend \in Nat /\ kInitialSize \in Nat
                          /\ ExtraSize \in Nat /\ MaxData \in Nat /\ MaxSize \in Nat
ASSUME ByteAssumption == /\ ByteBase \in Nat \ {0} /\ ByteBase % 2 = 0
                         /\ Widths \subseteq Nat \ {0}
                         /\ CR \in 0 .. ByteBase - 1 /\ LF \in 0 .. ByteBase - 1

VARIABLES buf,    \* the fields buffer_, readerIndex_ and writerIndex_
          got,    \* the integer that the last call returned, or 0
          line    \* the string that the last call returned, or the empty one

vars == <<buf, got, line>>

Bytes == 0 .. ByteBase - 1
Data == UNION {[1 .. n -> Bytes] : n \in 0 .. MaxData}

(* Buffer.h, on the indices: "0 <= readerIndex <= writerIndex <= size".      *)
TypeOK ==
  /\ buf.buffer_ \in Seq(Bytes)
  /\ buf.readerIndex_ \in 0 .. buf.writerIndex_
  /\ buf.writerIndex_ \in 0 .. Len(buf.buffer_)
  /\ got \in Int
  /\ line \in Seq(Bytes)

(* Buffer(initialSize); the vector is filled with zeros. *)
newBuffer(initialSize) ==
  [buffer_ |-> [i \in 1 .. kCheapPrepend + initialSize |-> 0],
   readerIndex_ |-> kCheapPrepend,
   writerIndex_ |-> kCheapPrepend]

Init == buf = newBuffer(kInitialSize) /\ got = 0 /\ line = <<>>

--------------------------------------------------------------------------------
readableBytes(b) == b.writerIndex_ - b.readerIndex_
writableBytes(b) == Len(b.buffer_) - b.writerIndex_
prependableBytes(b) == b.readerIndex_

(* The readable bytes: toStringPiece(). *)
contentOf(b) == SubSeq(b.buffer_, b.readerIndex_ + 1, b.writerIndex_)

(* std::copy of data to begin() + at *)
copyTo(buffer, at, data) ==
  [i \in 1 .. Len(buffer) |-> IF i \in at + 1 .. at + Len(data) THEN data[i - at] ELSE buffer[i]]

(* vector::resize() *)
resize(buffer, n) == [i \in 1 .. n |-> IF i <= Len(buffer) THEN buffer[i] ELSE 0]

(* Mutant: the room in front is taken for granted. *)
Mutant_mustGrow(b, len) == writableBytes(b) + prependableBytes(b) < len

(* Is there too little room in the whole vector, but for kCheapPrepend? *)
mustGrow(b, len) == writableBytes(b) + prependableBytes(b) < len + kCheapPrepend

(* Mutant: the indices move, the bytes stay. *)
Mutant_makeSpace(b, len) ==
  IF mustGrow(b, len)
  THEN [b EXCEPT !.buffer_ = resize(@, b.writerIndex_ + len)]
  ELSE [b EXCEPT !.readerIndex_ = kCheapPrepend,
                 !.writerIndex_ = kCheapPrepend + readableBytes(b)]

(* The vector grows, or the readable bytes move to the front. *)
makeSpace(b, len) ==
  IF mustGrow(b, len)
  THEN [b EXCEPT !.buffer_ = resize(@, b.writerIndex_ + len)]
  ELSE [buffer_ |-> copyTo(b.buffer_, kCheapPrepend, contentOf(b)),
        readerIndex_ |-> kCheapPrepend,
        writerIndex_ |-> kCheapPrepend + readableBytes(b)]

ensureWritableBytes(b, len) == IF writableBytes(b) < len THEN makeSpace(b, len) ELSE b

hasWritten(b, len) == [b EXCEPT !.writerIndex_ = @ + len]

unwrite(b, len) == [b EXCEPT !.writerIndex_ = @ - len]

append(b, data) ==
  LET e == ensureWritableBytes(b, Len(data))
  IN  hasWritten([e EXCEPT !.buffer_ = copyTo(@, e.writerIndex_, data)], Len(data))

prepend(b, data) ==
  LET at == b.readerIndex_ - Len(data)
  IN  [b EXCEPT !.readerIndex_ = at, !.buffer_ = copyTo(@, at, data)]

retrieveAll(b) == [b EXCEPT !.readerIndex_ = kCheapPrepend, !.writerIndex_ = kCheapPrepend]

(* retrieve(), and retrieveAsString() and retrieveUntil(), which call it *)
retrieve(b, len) ==
  IF len < readableBytes(b) THEN [b EXCEPT !.readerIndex_ = @ + len] ELSE retrieveAll(b)

(* swap() with a new Buffer that holds the readable bytes and has room *)
shrink(b, reserve) ==
  append(ensureWritableBytes(newBuffer(kInitialSize), readableBytes(b) + reserve), contentOf(b))

(* Mutant: the second half of a large read is forgotten. *)
Mutant_readFd(b, data) ==
  [b EXCEPT !.buffer_ = copyTo(@, b.writerIndex_, data), !.writerIndex_ = @ + Len(data)]

(* readv() into the writable bytes and, beyond them, into extrabuf, which is *)
(* then appended.                                                            *)
readFd(b, data) ==
  LET w == writableBytes(b)
      filled == [b EXCEPT !.buffer_ = copyTo(@, b.writerIndex_, data)]
  IN  IF Len(data) <= w
      THEN [filled EXCEPT !.writerIndex_ = @ + Len(data)]
      ELSE append([filled EXCEPT !.writerIndex_ = Len(filled.buffer_)],
                  SubSeq(data, w + 1, Len(data)))

(* The most that one readv() asks for. *)
readLimit(b) == IF writableBytes(b) < ExtraSize THEN writableBytes(b) + ExtraSize
                                                ELSE writableBytes(b)

(* Mutant: the sign is lost. *)
Mutant_signed(n, w) == n

(* How many values w bytes have: ByteBase to the power w *)
Values[w \in Nat] == IF w = 0 THEN 1 ELSE Values[w - 1] * ByteBase

(* The two's complement reading of an unsigned integer of w bytes *)
signed(n, w) == IF 2 * n >= Values[w] THEN n - Values[w] ELSE n

(* networkToHost16, 32 and 64 of the bytes memcpy() took *)
networkToHost(bytes, w) ==
  LET value[i \in 0 .. w] == IF i = 0 THEN 0 ELSE value[i - 1] * ByteBase + bytes[i]
  IN  signed(value[w], w)

(* std::search() and memchr() between start and beginWrite(): the first      *)
(* place of these bytes, or NULL.  Bytes behind writerIndex_ do not count.   *)
NULL == -1

search(b, start, bytes) ==
  LET places == {i \in start .. b.writerIndex_ - Len(bytes) :
                   SubSeq(b.buffer_, i + 1, i + Len(bytes)) = bytes}
  IN  IF places = {} THEN NULL ELSE CHOOSE i \in places : \A j \in places : i <= j

kCRLF == <<CR, LF>>

findCRLF(b, start) == search(b, start, kCRLF)

findEOL(b, start) == search(b, start, <<LF>>)

peekInt(b, w) == networkToHost(SubSeq(contentOf(b), 1, w), w)

--------------------------------------------------------------------------------
(* The calls.  An assert on an argument is the caller's duty. *)

Becomes(b) == Len(b.buffer_) <= MaxSize /\ buf' = b /\ got' = 0 /\ line' = <<>>

(* append(), and appendInt8, 16, 32 and 64: the bytes of an integer are data *)
Append_ == \E data \in Data : Becomes(append(buf, data))

(* prepend(), and prependInt8, 16, 32 and 64 *)
Prepend == \E data \in Data : /\ Len(data) <= prependableBytes(buf)
                              /\ Becomes(prepend(buf, data))

Retrieve == \E len \in 0 .. readableBytes(buf) : Becomes(retrieve(buf, len))

Unwrite == \E len \in 0 .. readableBytes(buf) : Becomes(unwrite(buf, len))

(* ensureWritableBytes(), by a caller that fills the room itself and then    *)
(* calls hasWritten()                                                        *)
EnsureWritable == \E len \in 0 .. MaxData : Becomes(ensureWritableBytes(buf, len))

HasWritten ==
  \E data \in Data : /\ Len(data) <= writableBytes(buf)
                     /\ Becomes(hasWritten([buf EXCEPT !.buffer_ = copyTo(@, buf.writerIndex_, data)],
                                           Len(data)))

Shrink == \E reserve \in 0 .. MaxData : Becomes(shrink(buf, reserve))

ReadFd == \E data \in Data : Len(data) <= readLimit(buf) /\ Becomes(readFd(buf, data))

(* readInt8, 16, 32 and 64: peek, then retrieve *)
ReadInt == \E w \in Widths : /\ readableBytes(buf) >= w
                             /\ got' = peekInt(buf, w)
                             /\ line' = <<>>
                             /\ buf' = retrieve(buf, w)

(* A line is taken out: what is before the end that findCRLF() or findEOL()  *)
(* found, as a string, and the end itself.                                   *)
retrieveLine(at, width) ==
  /\ at # NULL
  /\ line' = SubSeq(buf.buffer_, buf.readerIndex_ + 1, at)
  /\ got' = 0
  /\ buf' = retrieve(buf, at + width - buf.readerIndex_)

ReadLine == \E start \in buf.readerIndex_ .. buf.writerIndex_ :
              \/ retrieveLine(findCRLF(buf, start), 2)
              \/ retrieveLine(findEOL(buf, start), 1)

Next == \/ Append_ \/ Prepend \/ Retrieve \/ Unwrite \/ EnsureWritable
        \/ HasWritten \/ Shrink \/ ReadFd \/ ReadInt \/ ReadLine

Spec == Init /\ [][Next]_vars

--------------------------------------------------------------------------------
(* Properties. *)

(* Buffer::makeSpace and ensureWritableBytes: whatever the indices have      *)
(* become through prepend, unwrite and retrieve, their asserts hold: bytes   *)
(* only ever move towards the front, and the room asked for is there.        *)
MakeSpaceAsserts ==
  \A len \in 0 .. MaxData :
    /\ writableBytes(ensureWritableBytes(buf, len)) >= len
    /\ writableBytes(buf) < len /\ ~mustGrow(buf, len) => kCheapPrepend < buf.readerIndex_

(* Buffer implements ByteQueue: through growing, moving to the front,        *)
(* prepending, shrinking and split reads, no byte is lost, repeated or       *)
(* overwritten, integers come back as they were written, and lines end where *)
(* their end was received, not at a stale byte of the vector.                *)
Q == INSTANCE ByteQueue WITH content <- contentOf(buf)

ImplementsByteQueue == Q!Spec

================================================================================
