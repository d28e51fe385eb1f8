------------------------------ MODULE BufferProofs ------------------------------
(***************************************************************************)
(* Proofs about Buffer for any sizes of its vector: the indices stay in     *)
(* order, the asserts of makeSpace() hold, and every operation does to the  *)
(* readable bytes what ByteQueue says.                                      *)
(***************************************************************************)
EXTENDS Buffer, SequenceTheorems, NaturalsInduction, WellFoundedInduction, TLAPS

(* The indices are in order and the vector never gets smaller than the room  *)
(* for prepending, which retrieveAll() relies on.                            *)
WellFormed(b) ==
  /\ b \in [buffer_ : Seq(Bytes), readerIndex_ : Nat, writerIndex_ : Nat]
  /\ b.readerIndex_ <= b.writerIndex_
  /\ b.writerIndex_ <= Len(b.buffer_)
  /\ kCheapPrepend <= Len(b.buffer_)

--------------------------------------------------------------------------------
(* Facts about the vector. *)

(* A function on 1 .. n is a sequence of length n. *)
LEMMA FunctionIsSeq ==
  ASSUME NEW S, NEW n \in Nat, NEW f \in [1 .. n -> S]
  PROVE  f \in Seq(S) /\ Len(f) = n
PROOF
  <1>1. f \in Seq(S)
    BY SeqDef
  <1>2. DOMAIN f = 1 .. n /\ DOMAIN f = 1 .. Len(f) /\ Len(f) \in Nat
    BY <1>1, LenProperties
  <1> QED
    BY <1>1, <1>2

(* The fields of a Buffer. *)
LEMMA Fields ==
  ASSUME NEW b, WellFormed(b)
  PROVE  /\ b.buffer_ \in Seq(Bytes) /\ b.readerIndex_ \in Nat /\ b.writerIndex_ \in Nat
         /\ Len(b.buffer_) \in Nat
         /\ \A i \in 1 .. Len(b.buffer_) : b.buffer_[i] \in Bytes
         /\ readableBytes(b) \in Nat /\ writableBytes(b) \in Nat
PROOF
  <1>1. b.buffer_ \in Seq(Bytes) /\ b.readerIndex_ \in Nat /\ b.writerIndex_ \in Nat
    BY DEF WellFormed
  <1>2. Len(b.buffer_) \in Nat
    BY <1>1, LenProperties
  <1>3. \A i \in 1 .. Len(b.buffer_) : b.buffer_[i] \in Bytes
    BY <1>1, ElementOfSeq
  <1> QED
    BY <1>1, <1>2, <1>3 DEF WellFormed, readableBytes, writableBytes

(* The readable bytes are what is between the indices. *)
LEMMA ContentOf ==
  ASSUME NEW b, WellFormed(b)
  PROVE  /\ contentOf(b) \in Seq(Bytes)
         /\ Len(contentOf(b)) = b.writerIndex_ - b.readerIndex_
         /\ \A i \in 1 .. b.writerIndex_ - b.readerIndex_ :
              contentOf(b)[i] = b.buffer_[b.readerIndex_ + i]
PROOF
  <1> DEFINE r == b.readerIndex_  w == b.writerIndex_
  <1>1. r \in Nat /\ w \in Nat /\ r <= w
    BY Fields DEF WellFormed
  <1>2. \A i \in r + 1 .. w : b.buffer_[i] \in Bytes
    BY <1>1, Fields DEF WellFormed
  <1> HIDE DEF r, w
  <1>3. /\ SubSeq(b.buffer_, r + 1, w) \in Seq(Bytes)
        /\ Len(SubSeq(b.buffer_, r + 1, w)) = IF r + 1 <= w THEN w - (r + 1) + 1 ELSE 0
        /\ \A i \in 1 .. w - (r + 1) + 1 : SubSeq(b.buffer_, r + 1, w)[i] = b.buffer_[r + 1 + i - 1]
    BY <1>1, <1>2, SubSeqProperties
  <1>4. contentOf(b) = SubSeq(b.buffer_, r + 1, w)
    BY DEF contentOf, r, w
  <1>5. /\ contentOf(b) \in Seq(Bytes)
        /\ Len(contentOf(b)) = w - r
        /\ \A i \in 1 .. w - r : contentOf(b)[i] = b.buffer_[r + i]
    BY <1>1, <1>3, <1>4
  <1> QED
    BY <1>5 DEF r, w

(* ... and nothing else is. *)
LEMMA ContentIs ==
  ASSUME NEW b, WellFormed(b), NEW s \in Seq(Bytes),
         Len(s) = b.writerIndex_ - b.readerIndex_,
         \A i \in 1 .. Len(s) : s[i] = b.buffer_[b.readerIndex_ + i]
  PROVE  contentOf(b) = s
  BY ContentOf, SeqEqual

(* copyTo() changes len bytes behind at. *)
LEMMA CopyTo ==
  ASSUME NEW buffer \in Seq(Bytes), NEW at \in Nat, NEW data \in Seq(Bytes)
  PROVE  /\ copyTo(buffer, at, data) \in Seq(Bytes)
         /\ Len(copyTo(buffer, at, data)) = Len(buffer)
         /\ \A i \in 1 .. Len(buffer) :
              copyTo(buffer, at, data)[i] =
                IF at < i /\ i <= at + Len(data) THEN data[i - at] ELSE buffer[i]
PROOF
  <1>1. Len(buffer) \in Nat /\ Len(data) \in Nat
    BY LenProperties
  <1>2. \A i \in 1 .. Len(buffer) :
          i \in at + 1 .. at + Len(data) <=> (at < i /\ i <= at + Len(data))
    BY <1>1
  <1>3. \A i \in 1 .. Len(buffer) : at < i /\ i <= at + Len(data) => data[i - at] \in Bytes
    BY <1>1, ElementOfSeq
  <1>4. \A i \in 1 .. Len(buffer) : buffer[i] \in Bytes
    BY ElementOfSeq
  <1>5. copyTo(buffer, at, data) \in [1 .. Len(buffer) -> Bytes]
    BY <1>2, <1>3, <1>4 DEF copyTo
  <1>6. \A i \in 1 .. Len(buffer) :
              copyTo(buffer, at, data)[i] =
                IF at < i /\ i <= at + Len(data) THEN data[i - at] ELSE buffer[i]
    BY <1>2 DEF copyTo
  <1> QED
    BY <1>1, <1>5, <1>6, FunctionIsSeq

(* resize() to more bytes keeps the ones there were. *)
LEMMA Resize ==
  ASSUME NEW buffer \in Seq(Bytes), NEW n \in Nat, Len(buffer) <= n
  PROVE  /\ resize(buffer, n) \in Seq(Bytes)
         /\ Len(resize(buffer, n)) = n
         /\ \A i \in 1 .. Len(buffer) : resize(buffer, n)[i] = buffer[i]
PROOF
  <1>1. Len(buffer) \in Nat
    BY LenProperties
  <1>2. \A i \in 1 .. Len(buffer) : buffer[i] \in Bytes
    BY ElementOfSeq
  <1>3. 0 \in Bytes
    BY ByteAssumption DEF Bytes
  <1>4. \A i \in 1 .. n : (IF i <= Len(buffer) THEN buffer[i] ELSE 0) \in Bytes
    BY <1>1, <1>2, <1>3
  <1>5. resize(buffer, n) \in [1 .. n -> Bytes]
    BY <1>4 DEF resize
  <1>6. \A i \in 1 .. Len(buffer) : resize(buffer, n)[i] = buffer[i]
    BY <1>1 DEF resize
  <1> QED
    BY <1>5, <1>6, FunctionIsSeq

(* Buffer(initialSize) is empty. *)
LEMMA NewBuffer ==
  ASSUME NEW n \in Nat
  PROVE  WellFormed(newBuffer(n)) /\ contentOf(newBuffer(n)) = <<>>
PROOF
  <1> DEFINE v == [i \in 1 .. kCheapPrepend + n |-> 0]
  <1>1. v \in [1 .. kCheapPrepend + n -> Bytes] /\ kCheapPrepend \in Nat
    BY ByteAssumption, SizesAssumption DEF Bytes
  <1>2. v \in Seq(Bytes) /\ Len(v) = kCheapPrepend + n
    BY <1>1, SizesAssumption, FunctionIsSeq
  <1> HIDE DEF v
  <1>3. newBuffer(n) = [buffer_ |-> v, readerIndex_ |-> kCheapPrepend, writerIndex_ |-> kCheapPrepend]
    BY DEF newBuffer, v
  <1>4. WellFormed(newBuffer(n))
    BY <1>1, <1>2, <1>3 DEF WellFormed
  <1>5. Len(contentOf(newBuffer(n))) = 0 /\ contentOf(newBuffer(n)) \in Seq(Bytes)
    BY <1>1, <1>3, <1>4, ContentOf
  <1> QED
    BY <1>4, <1>5, EmptySeq

--------------------------------------------------------------------------------
(* Making room. *)

(* A Buffer with the same readable bytes elsewhere has the same content. *)
LEMMA SameContent ==
  ASSUME NEW b, WellFormed(b), NEW c, WellFormed(c),
         c.writerIndex_ - c.readerIndex_ = b.writerIndex_ - b.readerIndex_,
         \A i \in 1 .. b.writerIndex_ - b.readerIndex_ :
           c.buffer_[c.readerIndex_ + i] = b.buffer_[b.readerIndex_ + i]
  PROVE  contentOf(c) = contentOf(b)
  BY ContentOf, ContentIs

(* makeSpace(): nothing is lost, and there is room for len. *)
LEMMA MakeSpace ==
  ASSUME NEW b, WellFormed(b), NEW len \in Nat, writableBytes(b) < len
  PROVE  /\ WellFormed(makeSpace(b, len))
         /\ contentOf(makeSpace(b, len)) = contentOf(b)
         /\ writableBytes(makeSpace(b, len)) >= len
PROOF
  <1> DEFINE r == b.readerIndex_  w == b.writerIndex_  v == b.buffer_  c == makeSpace(b, len)
  <1>1. /\ v \in Seq(Bytes) /\ r \in Nat /\ w \in Nat /\ Len(v) \in Nat
        /\ r <= w /\ w <= Len(v) /\ kCheapPrepend <= Len(v) /\ kCheapPrepend \in Nat
        /\ Len(v) - w < len
    BY Fields, SizesAssumption DEF WellFormed, writableBytes
  <1>2. CASE mustGrow(b, len)
    <2>1. w + len \in Nat /\ Len(v) <= w + len
      BY <1>1
    <2>2. /\ resize(v, w + len) \in Seq(Bytes)
          /\ Len(resize(v, w + len)) = w + len
          /\ \A i \in 1 .. Len(v) : resize(v, w + len)[i] = v[i]
      BY <1>1, <2>1, Resize
    <2>3. c = [b EXCEPT !.buffer_ = resize(v, w + len)]
      BY <1>2 DEF makeSpace
    <2>4. c = [buffer_ |-> resize(v, w + len), readerIndex_ |-> r, writerIndex_ |-> w]
      BY <2>3 DEF WellFormed
    <2> HIDE DEF r, w, v, c
    <2>5. WellFormed(c)
      BY <1>1, <2>1, <2>2, <2>4 DEF WellFormed
    <2>6. \A i \in 1 .. w - r : c.buffer_[c.readerIndex_ + i] = v[r + i]
      BY <1>1, <2>2, <2>4
    <2>7. contentOf(c) = contentOf(b)
      BY <1>1, <2>4, <2>5, <2>6, SameContent DEF r, w, v
    <2>8. writableBytes(c) = len
      BY <1>1, <2>2, <2>4 DEF writableBytes
    <2> QED
      BY <1>1, <2>5, <2>7, <2>8 DEF c
  <1>3. CASE ~mustGrow(b, len)
    <2>1. Len(v) - w + r >= len + kCheapPrepend
      BY <1>1, <1>3 DEF mustGrow, writableBytes, prependableBytes
    <2>2. /\ contentOf(b) \in Seq(Bytes) /\ Len(contentOf(b)) = w - r
          /\ \A i \in 1 .. w - r : contentOf(b)[i] = v[r + i]
      BY ContentOf
    <2>3. c = [buffer_ |-> copyTo(v, kCheapPrepend, contentOf(b)), readerIndex_ |-> kCheapPrepend,
               writerIndex_ |-> kCheapPrepend + (w - r)]
      BY <1>3 DEF makeSpace, readableBytes
    <2> HIDE DEF r, w, v, c
    <2>4. /\ copyTo(v, kCheapPrepend, contentOf(b)) \in Seq(Bytes)
          /\ Len(copyTo(v, kCheapPrepend, contentOf(b))) = Len(v)
          /\ \A i \in 1 .. Len(v) : copyTo(v, kCheapPrepend, contentOf(b))[i] =
               IF kCheapPrepend < i /\ i <= kCheapPrepend + Len(contentOf(b))
               THEN contentOf(b)[i - kCheapPrepend] ELSE v[i]
      BY <1>1, <2>2, CopyTo
    <2>5. WellFormed(c)
      BY <1>1, <2>1, <2>3, <2>4 DEF WellFormed
    <2>6. \A i \in 1 .. w - r : c.buffer_[c.readerIndex_ + i] = v[r + i]
      BY <1>1, <2>1, <2>2, <2>3, <2>4
    <2>7. contentOf(c) = contentOf(b)
      <3>1. c.writerIndex_ - c.readerIndex_ = w - r
        BY <1>1, <2>3
      <3> QED
        BY <2>5, <2>6, <3>1, SameContent DEF r, w, v
    <2>8. writableBytes(c) >= len
      BY <1>1, <2>1, <2>3, <2>4 DEF writableBytes
    <2> QED
      BY <2>5, <2>7, <2>8 DEF c
  <1> QED
    BY <1>2, <1>3

(* ensureWritableBytes() *)
LEMMA EnsureWritableBytes ==
  ASSUME NEW b, WellFormed(b), NEW len \in Nat
  PROVE  /\ WellFormed(ensureWritableBytes(b, len))
         /\ contentOf(ensureWritableBytes(b, len)) = contentOf(b)
         /\ writableBytes(ensureWritableBytes(b, len)) >= len
PROOF
  <1>1. CASE writableBytes(b) < len
    BY <1>1, MakeSpace DEF ensureWritableBytes
  <1>2. CASE ~(writableBytes(b) < len)
    <2>1. writableBytes(b) \in Nat
      BY Fields
    <2> QED
      BY <1>2, <2>1 DEF ensureWritableBytes
  <1> QED
    BY <1>1, <1>2

--------------------------------------------------------------------------------
(* Writing and reading. *)

(* The bytes of data are written behind the readable ones: append(),         *)
(* readFd() and callers of hasWritten() do this once there is room.          *)
Filled(b, data) == hasWritten([b EXCEPT !.buffer_ = copyTo(@, b.writerIndex_, data)], Len(data))

(* ... and then they are readable. *)
LEMMA Fill ==
  ASSUME NEW b, WellFormed(b), NEW data \in Seq(Bytes), Len(data) <= writableBytes(b)
  PROVE  WellFormed(Filled(b, data)) /\ contentOf(Filled(b, data)) = contentOf(b) \o data
PROOF
  <1> DEFINE r == b.readerIndex_  w == b.writerIndex_  v == b.buffer_  c == Filled(b, data)
             n == Len(data)  u == copyTo(v, w, data)
  <1>1. /\ v \in Seq(Bytes) /\ r \in Nat /\ w \in Nat /\ Len(v) \in Nat /\ n \in Nat
        /\ r <= w /\ w <= Len(v) /\ kCheapPrepend <= Len(v) /\ w + n <= Len(v)
    BY Fields, LenProperties DEF WellFormed, writableBytes
  <1>2. /\ u \in Seq(Bytes) /\ Len(u) = Len(v)
        /\ \A i \in 1 .. Len(v) : u[i] = IF w < i /\ i <= w + n THEN data[i - w] ELSE v[i]
    BY <1>1, CopyTo
  <1>3. c = [buffer_ |-> u, readerIndex_ |-> r, writerIndex_ |-> w + n]
    <2>1. [b EXCEPT !.buffer_ = u] = [buffer_ |-> u, readerIndex_ |-> r, writerIndex_ |-> w]
      BY DEF WellFormed
    <2>2. c = hasWritten([buffer_ |-> u, readerIndex_ |-> r, writerIndex_ |-> w], n)
      BY <2>1 DEF Filled
    <2> QED
      BY <2>2 DEF hasWritten
  <1>4. /\ contentOf(b) \in Seq(Bytes) /\ Len(contentOf(b)) = w - r
        /\ \A i \in 1 .. w - r : contentOf(b)[i] = v[r + i]
    BY ContentOf
  <1>5. /\ contentOf(b) \o data \in Seq(Bytes)
        /\ Len(contentOf(b) \o data) = Len(contentOf(b)) + n
        /\ \A i \in 1 .. Len(contentOf(b)) + n :
             (contentOf(b) \o data)[i] =
               IF i <= Len(contentOf(b)) THEN contentOf(b)[i] ELSE data[i - Len(contentOf(b))]
    BY <1>4, ConcatProperties
  <1> HIDE DEF r, w, v, c, n, u
  <1>6. WellFormed(c)
    BY <1>1, <1>2, <1>3, SizesAssumption DEF WellFormed
  <1>7. \A i \in 1 .. w - r + n : (contentOf(b) \o data)[i] = u[r + i]
    <2> SUFFICES ASSUME NEW i \in 1 .. w - r + n PROVE (contentOf(b) \o data)[i] = u[r + i]
      OBVIOUS
    <2>0. i \in Int /\ (i <= w - r \/ i > w - r)
      BY <1>1
    <2>1. CASE i <= w - r
      <3>1. (contentOf(b) \o data)[i] = contentOf(b)[i] /\ contentOf(b)[i] = v[r + i]
        BY <1>1, <1>4, <1>5, <2>1
      <3>2. r + i \in 1 .. Len(v) /\ ~(w < r + i)
        BY <1>1, <2>1
      <3> QED
        BY <1>2, <3>1, <3>2
    <2>2. CASE i > w - r
      <3>1. (contentOf(b) \o data)[i] = data[i - (w - r)]
        BY <1>1, <1>4, <1>5, <2>2
      <3>2. r + i \in 1 .. Len(v) /\ w < r + i /\ r + i <= w + n
        BY <1>1, <2>2
      <3>3. u[r + i] = data[r + i - w] /\ r + i - w = i - (w - r)
        BY <1>1, <1>2, <3>2
      <3> QED
        BY <3>1, <3>3
    <2> QED
      BY <2>0, <2>1, <2>2
  <1>8. contentOf(c) = contentOf(b) \o data
    <2>1. Len(contentOf(b) \o data) = w - r + n /\ c.writerIndex_ - c.readerIndex_ = w - r + n
      BY <1>1, <1>3, <1>4, <1>5
    <2>2. \A i \in 1 .. w - r + n : (contentOf(b) \o data)[i] = c.buffer_[c.readerIndex_ + i]
      BY <1>3, <1>7
    <2> QED
      BY <1>5, <1>6, <2>1, <2>2, ContentIs
  <1> QED
    BY <1>6, <1>8 DEF c

(* append() *)
LEMMA AppendBytes ==
  ASSUME NEW b, WellFormed(b), NEW data \in Seq(Bytes)
  PROVE  WellFormed(append(b, data)) /\ contentOf(append(b, data)) = contentOf(b) \o data
PROOF
  <1> DEFINE e == ensureWritableBytes(b, Len(data))
  <1>1. Len(data) \in Nat
    BY LenProperties
  <1>2. WellFormed(e) /\ contentOf(e) = contentOf(b) /\ writableBytes(e) >= Len(data)
    BY <1>1, EnsureWritableBytes
  <1>3. append(b, data) = Filled(e, data)
    BY DEF append, Filled
  <1> HIDE DEF e
  <1>4. Len(data) <= writableBytes(e)
    BY <1>1, <1>2, Fields
  <1> QED
    BY <1>2, <1>3, <1>4, Fill

(* retrieveAll() *)
LEMMA RetrieveAll ==
  ASSUME NEW b, WellFormed(b)
  PROVE  WellFormed(retrieveAll(b)) /\ contentOf(retrieveAll(b)) = <<>>
PROOF
  <1> DEFINE c == retrieveAll(b)
  <1>1. c = [buffer_ |-> b.buffer_, readerIndex_ |-> kCheapPrepend, writerIndex_ |-> kCheapPrepend]
    <2>1. b = [buffer_ |-> b.buffer_, readerIndex_ |-> b.readerIndex_, writerIndex_ |-> b.writerIndex_]
      BY DEF WellFormed
    <2>2. c = [[b EXCEPT !.readerIndex_ = kCheapPrepend] EXCEPT !.writerIndex_ = kCheapPrepend]
      BY DEF retrieveAll
    <2> QED
      BY <2>1, <2>2
  <1> HIDE DEF c
  <1>2. WellFormed(c)
    BY <1>1, Fields, SizesAssumption DEF WellFormed
  <1>3. contentOf(c) \in Seq(Bytes) /\ Len(contentOf(c)) = 0
    BY <1>1, <1>2, ContentOf, SizesAssumption
  <1> QED
    BY <1>2, <1>3, EmptySeq DEF c

(* retrieve() takes bytes from the front. *)
LEMMA RetrieveBytes ==
  ASSUME NEW b, WellFormed(b), NEW len \in 0 .. readableBytes(b)
  PROVE  /\ WellFormed(retrieve(b, len))
         /\ contentOf(retrieve(b, len)) = SubSeq(contentOf(b), len + 1, Len(contentOf(b)))
PROOF
  <1> DEFINE r == b.readerIndex_  w == b.writerIndex_  v == b.buffer_  c == retrieve(b, len)
             s == contentOf(b)
  <1>1. /\ v \in Seq(Bytes) /\ r \in Nat /\ w \in Nat /\ Len(v) \in Nat /\ len \in Nat
        /\ r <= w /\ w <= Len(v) /\ kCheapPrepend <= Len(v) /\ r + len <= w
    BY Fields DEF WellFormed, readableBytes
  <1>2. s \in Seq(Bytes) /\ Len(s) = w - r /\ \A i \in 1 .. w - r : s[i] = v[r + i]
    BY ContentOf
  <1>3. CASE len < readableBytes(b)
    <2>1. c = [buffer_ |-> v, readerIndex_ |-> r + len, writerIndex_ |-> w]
      BY <1>3 DEF retrieve, WellFormed
    <2> HIDE DEF r, w, v, c, s
    <2>2. WellFormed(c)
      BY <1>1, <2>1 DEF WellFormed
    <2>3. \A i \in len + 1 .. w - r : s[i] \in Bytes
      BY <1>1, <1>2, ElementOfSeq
    <2>4. /\ SubSeq(s, len + 1, w - r) \in Seq(Bytes)
          /\ Len(SubSeq(s, len + 1, w - r)) =
               IF len + 1 <= w - r THEN w - r - (len + 1) + 1 ELSE 0
          /\ \A i \in 1 .. w - r - (len + 1) + 1 : SubSeq(s, len + 1, w - r)[i] = s[len + 1 + i - 1]
      BY <1>1, <2>3, SubSeqProperties
    <2>5. Len(SubSeq(s, len + 1, w - r)) = w - (r + len)
      BY <1>1, <2>4
    <2>6. \A i \in 1 .. w - (r + len) : SubSeq(s, len + 1, w - r)[i] = v[(r + len) + i]
      BY <1>1, <1>2, <2>4
    <2>7. contentOf(c) = SubSeq(s, len + 1, w - r)
      BY <2>1, <2>2, <2>4, <2>5, <2>6, ContentIs
    <2> QED
      BY <1>2, <2>2, <2>7 DEF c, s
  <1>4. CASE ~(len < readableBytes(b))
    <2>1. len = w - r
      BY <1>1, <1>4 DEF readableBytes
    <2>2. c = retrieveAll(b)
      BY <1>4 DEF retrieve
    <2>3. SubSeq(s, len + 1, Len(s)) = <<>>
      BY <1>1, <1>2, <2>1, SubSeqEmpty
    <2> QED
      BY <2>2, <2>3, RetrieveAll
  <1> QED
    BY <1>3, <1>4

(* unwrite() takes bytes from the back. *)
LEMMA UnwriteBytes ==
  ASSUME NEW b, WellFormed(b), NEW len \in 0 .. readableBytes(b)
  PROVE  /\ WellFormed(unwrite(b, len))
         /\ contentOf(unwrite(b, len)) = SubSeq(contentOf(b), 1, Len(contentOf(b)) - len)
PROOF
  <1> DEFINE r == b.readerIndex_  w == b.writerIndex_  v == b.buffer_  c == unwrite(b, len)
             s == contentOf(b)
  <1>1. /\ v \in Seq(Bytes) /\ r \in Nat /\ w \in Nat /\ Len(v) \in Nat /\ len \in Nat
        /\ r <= w /\ w <= Len(v) /\ kCheapPrepend <= Len(v) /\ r + len <= w
    BY Fields DEF WellFormed, readableBytes
  <1>2. s \in Seq(Bytes) /\ Len(s) = w - r /\ \A i \in 1 .. w - r : s[i] = v[r + i]
    BY ContentOf
  <1>3. c = [buffer_ |-> v, readerIndex_ |-> r, writerIndex_ |-> w - len]
    BY DEF unwrite, WellFormed
  <1> HIDE DEF r, w, v, c, s
  <1>4. WellFormed(c)
    BY <1>1, <1>3 DEF WellFormed
  <1>5. \A i \in 1 .. w - r - len : s[i] \in Bytes
    BY <1>1, <1>2, ElementOfSeq
  <1>6. /\ SubSeq(s, 1, w - r - len) \in Seq(Bytes)
        /\ Len(SubSeq(s, 1, w - r - len)) = IF 1 <= w - r - len THEN w - r - len - 1 + 1 ELSE 0
        /\ \A i \in 1 .. w - r - len - 1 + 1 : SubSeq(s, 1, w - r - len)[i] = s[1 + i - 1]
    BY <1>1, <1>5, SubSeqProperties
  <1>7. Len(SubSeq(s, 1, w - r - len)) = w - len - r
    BY <1>1, <1>6
  <1>8. \A i \in 1 .. w - len - r : SubSeq(s, 1, w - r - len)[i] = v[r + i]
    BY <1>1, <1>2, <1>6
  <1>9. contentOf(c) = SubSeq(s, 1, w - r - len)
    BY <1>3, <1>4, <1>6, <1>7, <1>8, ContentIs
  <1> QED
    BY <1>2, <1>4, <1>9 DEF c, s

(* prepend() puts bytes in front. *)
LEMMA PrependBytes ==
  ASSUME NEW b, WellFormed(b), NEW data \in Seq(Bytes), Len(data) <= prependableBytes(b)
  PROVE  WellFormed(prepend(b, data)) /\ contentOf(prepend(b, data)) = data \o contentOf(b)
PROOF
  <1> DEFINE r == b.readerIndex_  w == b.writerIndex_  v == b.buffer_  c == prepend(b, data)
             n == Len(data)  at == r - n  u == copyTo(v, at, data)  s == contentOf(b)
  <1>1. /\ v \in Seq(Bytes) /\ r \in Nat /\ w \in Nat /\ Len(v) \in Nat /\ n \in Nat
        /\ r <= w /\ w <= Len(v) /\ kCheapPrepend <= Len(v) /\ n <= r
    BY Fields, LenProperties DEF WellFormed, prependableBytes
  <1>2. at \in Nat /\ at + n = r
    BY <1>1
  <1>3. /\ u \in Seq(Bytes) /\ Len(u) = Len(v)
        /\ \A i \in 1 .. Len(v) :
             u[i] = IF at < i /\ i <= at + n THEN data[i - at] ELSE v[i]
    BY <1>1, <1>2, CopyTo
  <1>4. c = [buffer_ |-> u, readerIndex_ |-> at, writerIndex_ |-> w]
    <2>1. b = [buffer_ |-> v, readerIndex_ |-> r, writerIndex_ |-> w]
      BY DEF WellFormed
    <2>2. c = [[b EXCEPT !.readerIndex_ = at] EXCEPT !.buffer_ = u]
      BY DEF prepend
    <2> HIDE DEF u, v, r, w, c, at
    <2> QED
      BY <2>1, <2>2
  <1>5. s \in Seq(Bytes) /\ Len(s) = w - r /\ \A i \in 1 .. w - r : s[i] = v[r + i]
    BY ContentOf
  <1>6. /\ data \o s \in Seq(Bytes)
        /\ Len(data \o s) = n + Len(s)
        /\ \A i \in 1 .. n + Len(s) : (data \o s)[i] = IF i <= n THEN data[i] ELSE s[i - n]
    BY <1>5, ConcatProperties
  <1> HIDE DEF r, w, v, c, n, u, s, at
  <1>7. WellFormed(c)
    BY <1>1, <1>2, <1>3, <1>4 DEF WellFormed
  <1>8. \A i \in 1 .. n + (w - r) : (data \o s)[i] = u[at + i]
    <2> SUFFICES ASSUME NEW i \in 1 .. n + (w - r) PROVE (data \o s)[i] = u[at + i]
      OBVIOUS
    <2>0. i \in Int /\ (i <= n \/ i > n) /\ at + i \in 1 .. Len(v)
      BY <1>1, <1>2
    <2>1. CASE i <= n
      <3>1. (data \o s)[i] = data[i]
        BY <1>5, <1>6, <2>1
      <3>2. at < at + i /\ at + i <= at + n /\ at + i - at = i
        BY <1>1, <1>2, <2>0, <2>1
      <3>3. u[at + i] = data[at + i - at]
        BY <1>1, <1>2, <1>3, <2>0, <3>2
      <3> QED
        BY <3>1, <3>2, <3>3
    <2>2. CASE i > n
      <3>1. (data \o s)[i] = s[i - n] /\ i - n \in 1 .. w - r
        BY <1>1, <1>5, <1>6, <2>2
      <3>2. ~(at + i <= at + n) /\ r + (i - n) = at + i
        BY <1>1, <1>2, <2>0, <2>2
      <3> QED
        BY <1>3, <1>5, <2>0, <3>1, <3>2
    <2> QED
      BY <2>0, <2>1, <2>2
  <1>9. contentOf(c) = data \o s
    <2>1. Len(data \o s) = n + (w - r) /\ c.writerIndex_ - c.readerIndex_ = n + (w - r)
      BY <1>1, <1>2, <1>4, <1>5, <1>6
    <2>2. \A i \in 1 .. n + (w - r) : (data \o s)[i] = c.buffer_[c.readerIndex_ + i]
      BY <1>4, <1>8
    <2> QED
      BY <1>6, <1>7, <2>1, <2>2, ContentIs
  <1> QED
    BY <1>7, <1>9 DEF c, s

(* shrink() keeps the readable bytes. *)
LEMMA ShrinkKeepsBytes ==
  ASSUME NEW b, WellFormed(b), NEW reserve \in Nat
  PROVE  WellFormed(shrink(b, reserve)) /\ contentOf(shrink(b, reserve)) = contentOf(b)
PROOF
  <1> DEFINE n == newBuffer(kInitialSize)  e == ensureWritableBytes(n, readableBytes(b) + reserve)
  <1>1. WellFormed(n) /\ contentOf(n) = <<>>
    BY NewBuffer, SizesAssumption
  <1>2. readableBytes(b) + reserve \in Nat
    BY Fields
  <1>3. WellFormed(e) /\ contentOf(e) = <<>>
    BY <1>1, <1>2, EnsureWritableBytes
  <1>4. contentOf(b) \in Seq(Bytes)
    BY ContentOf
  <1>5. WellFormed(append(e, contentOf(b))) /\ contentOf(append(e, contentOf(b))) = <<>> \o contentOf(b)
    BY <1>3, <1>4, AppendBytes
  <1> QED
    BY <1>4, <1>5, ConcatEmptySeq DEF shrink

(* readFd(): both halves of a large read arrive, in order. *)
LEMMA ReadFdBytes ==
  ASSUME NEW b, WellFormed(b), NEW data \in Seq(Bytes)
  PROVE  WellFormed(readFd(b, data)) /\ contentOf(readFd(b, data)) = contentOf(b) \o data
PROOF
  <1> DEFINE n == Len(data)  w == writableBytes(b)  wi == b.writerIndex_  v == b.buffer_
             head == SubSeq(data, 1, w)  tail == SubSeq(data, w + 1, n)
             filled == [b EXCEPT !.buffer_ = copyTo(@, b.writerIndex_, data)]
  <1>1. /\ n \in Nat /\ w \in Nat /\ wi \in Nat /\ v \in Seq(Bytes) /\ Len(v) \in Nat
        /\ wi + w = Len(v)
    BY Fields, LenProperties DEF writableBytes
  <1>2. CASE n <= w
    <2>1. readFd(b, data) = Filled(b, data)
      BY <1>2 DEF readFd, Filled, hasWritten
    <2> QED
      BY <1>2, <2>1, Fill
  <1>3. CASE ~(n <= w)
    <2>1. readFd(b, data) = append([filled EXCEPT !.writerIndex_ = Len(filled.buffer_)], tail)
      BY <1>3 DEF readFd
    <2>2. \A i \in 1 .. n : data[i] \in Bytes
      BY ElementOfSeq
    <2>3. head \in Seq(Bytes) /\ Len(head) = w /\ \A i \in 1 .. w : head[i] = data[i]
      <3>1. /\ head \in Seq(Bytes) /\ Len(head) = IF 1 <= w THEN w - 1 + 1 ELSE 0
            /\ \A i \in 1 .. w - 1 + 1 : head[i] = data[1 + i - 1]
        BY <1>1, <1>3, <2>2, SubSeqProperties
      <3> HIDE DEF w, n, head
      <3> QED
        BY <1>1, <3>1
    <2>4. tail \in Seq(Bytes)
      BY <1>1, <1>3, <2>2, SubSeqProperties
    <2>5. head \o tail = data
      <3>1. SubSeq(data, 1, w) \o SubSeq(data, w + 1, n) = SubSeq(data, 1, n)
        <4> HIDE DEF w
        <4>1. 1 \in 1 .. Len(data) + 1 /\ w \in 1 - 1 .. Len(data) /\ n \in w .. Len(data)
          BY <1>1, <1>3
        <4> QED
          BY <4>1, ConcatAdjacentSubSeq
      <3> QED
        BY <3>1, SubSeqFull
    <2>6. copyTo(v, wi, data) = copyTo(v, wi, head)
      <3>1. copyTo(v, wi, data) \in Seq(Bytes) /\ copyTo(v, wi, head) \in Seq(Bytes)
        BY <1>1, <2>3, CopyTo
      <3>2. /\ Len(copyTo(v, wi, data)) = Len(v) /\ Len(copyTo(v, wi, head)) = Len(v)
            /\ \A i \in 1 .. Len(v) : copyTo(v, wi, data)[i] =
                 IF wi < i /\ i <= wi + n THEN data[i - wi] ELSE v[i]
            /\ \A i \in 1 .. Len(v) : copyTo(v, wi, head)[i] =
                 IF wi < i /\ i <= wi + Len(head) THEN head[i - wi] ELSE v[i]
        BY <1>1, <2>3, CopyTo
      <3> HIDE DEF n, w, wi, v, head
      <3>3. \A i \in 1 .. Len(v) : copyTo(v, wi, data)[i] = copyTo(v, wi, head)[i]
        <4> SUFFICES ASSUME NEW i \in 1 .. Len(v)
                     PROVE  copyTo(v, wi, data)[i] = copyTo(v, wi, head)[i]
          OBVIOUS
        <4>1. CASE wi < i
          <5>1. i <= wi + n /\ i <= wi + Len(head) /\ i - wi \in 1 .. w
            BY <1>1, <1>3, <2>3, <4>1
          <5>2. copyTo(v, wi, data)[i] = data[i - wi] /\ copyTo(v, wi, head)[i] = head[i - wi]
            BY <3>2, <4>1, <5>1
          <5> QED
            BY <2>3, <5>1, <5>2
        <4>2. CASE ~(wi < i)
          BY <3>2, <4>2
        <4> QED
          BY <4>1, <4>2
      <3> QED
        BY <3>1, <3>2, <3>3, SeqEqual
    <2>7. [filled EXCEPT !.writerIndex_ = Len(filled.buffer_)] = Filled(b, head)
      <3> DEFINE u == copyTo(v, wi, head)  r == b.readerIndex_
      <3>1. filled = [buffer_ |-> u, readerIndex_ |-> r, writerIndex_ |-> wi]
        BY <2>6 DEF WellFormed
      <3>2. Len(u) = wi + w /\ Len(head) = w
        BY <1>1, <2>3, CopyTo
      <3>3. Filled(b, head) = hasWritten([b EXCEPT !.buffer_ = u], w)
        BY <3>2 DEF Filled
      <3>4. [b EXCEPT !.buffer_ = u] = [buffer_ |-> u, readerIndex_ |-> r, writerIndex_ |-> wi]
        BY DEF WellFormed
      <3> HIDE DEF filled, u, r, wi, w, head
      <3> QED
        BY <3>1, <3>2, <3>3, <3>4 DEF hasWritten
    <2>8. WellFormed(Filled(b, head)) /\ contentOf(Filled(b, head)) = contentOf(b) \o head
      <3>1. Len(head) <= writableBytes(b)
        BY <1>1, <2>3
      <3> HIDE DEF head
      <3> QED
        BY <2>3, <3>1, Fill
    <2>9. /\ WellFormed(readFd(b, data))
          /\ contentOf(readFd(b, data)) = (contentOf(b) \o head) \o tail
      <3> HIDE DEF head, tail, filled
      <3> QED
        BY <2>1, <2>4, <2>7, <2>8, AppendBytes
    <2>10. (contentOf(b) \o head) \o tail = contentOf(b) \o (head \o tail)
      <3> HIDE DEF head, tail
      <3> QED
        BY <2>3, <2>4, ContentOf, ConcatAssociative, SMTT(30)
    <2> QED
      BY <2>5, <2>9, <2>10
  <1> QED
    BY <1>2, <1>3

--------------------------------------------------------------------------------
(* Lines. *)

(* A set of natural numbers has a least element. *)
LEMMA LeastExists ==
  ASSUME NEW P \in SUBSET Nat, P # {}
  PROVE  \E i \in P : \A j \in P : i <= j
PROOF
  <1>1. IsWellFoundedOn(OpToRel(<, Nat), Nat)
    BY NatLessThanWellFounded
  <1>2. PICK i \in P : \A j \in P : ~(<<j, i>> \in OpToRel(<, Nat))
    BY <1>1, WFMin
  <1>3. \A j \in P : ~(j < i)
    BY <1>2 DEF OpToRel
  <1> QED
    BY <1>3

(* A part of the readable bytes, in the vector. *)
LEMMA ContentPart ==
  ASSUME NEW b, WellFormed(b), NEW k \in Nat, NEW m \in Nat,
         k + m <= b.writerIndex_ - b.readerIndex_
  PROVE  SubSeq(contentOf(b), k + 1, k + m) =
           SubSeq(b.buffer_, b.readerIndex_ + k + 1, b.readerIndex_ + k + m)
PROOF
  <1> DEFINE r == b.readerIndex_  w == b.writerIndex_  v == b.buffer_  s == contentOf(b)
             x == SubSeq(s, k + 1, k + m)  y == SubSeq(v, r + k + 1, r + k + m)
  <1>1. /\ r \in Nat /\ w \in Nat /\ Len(v) \in Nat /\ r <= w /\ w <= Len(v) /\ k + m <= w - r
        /\ \A i \in 1 .. Len(v) : v[i] \in Bytes
    BY Fields DEF WellFormed
  <1>2. \A i \in 1 .. w - r : s[i] = v[r + i]
    BY ContentOf
  <1> HIDE DEF r, w, v, s
  <1>3. \A i \in r + k + 1 .. r + k + m : v[i] \in Bytes
    BY <1>1
  <1>4. \A i \in k + 1 .. k + m : s[i] \in Bytes
    <2>1. \A i \in k + 1 .. k + m : i \in 1 .. w - r /\ r + i \in 1 .. Len(v)
      BY <1>1
    <2> QED
      BY <1>1, <1>2, <2>1
  <1>5. /\ x \in Seq(Bytes)
        /\ Len(x) = IF k + 1 <= k + m THEN k + m - (k + 1) + 1 ELSE 0
        /\ \A i \in 1 .. k + m - (k + 1) + 1 : x[i] = s[k + 1 + i - 1]
    BY <1>4, SubSeqProperties
  <1>6. /\ y \in Seq(Bytes)
        /\ Len(y) = IF r + k + 1 <= r + k + m THEN r + k + m - (r + k + 1) + 1 ELSE 0
        /\ \A i \in 1 .. r + k + m - (r + k + 1) + 1 : y[i] = v[r + k + 1 + i - 1]
    BY <1>1, <1>3, SubSeqProperties
  <1> HIDE DEF x, y
  <1>7. Len(x) = m /\ \A i \in 1 .. m : x[i] = s[k + i]
    BY <1>5
  <1>8. Len(y) = m /\ \A i \in 1 .. m : y[i] = v[r + (k + i)]
    <2>1. r + k + m - (r + k + 1) + 1 = m /\ \A i \in 1 .. m : r + k + 1 + i - 1 = r + (k + i)
      BY <1>1
    <2> QED
      BY <1>1, <1>6, <2>1
  <1>9. \A i \in 1 .. m : x[i] = y[i]
    <2>1. \A i \in 1 .. m : k + i \in 1 .. w - r
      BY <1>1
    <2>2. \A i \in 1 .. m : s[k + i] = v[r + (k + i)]
      BY <1>2, <2>1
    <2> QED
      BY <1>7, <1>8, <2>2
  <1>10. x = y
    BY <1>5, <1>6, <1>7, <1>8, <1>9, SeqEqual
  <1> QED
    BY <1>10 DEF x, y, r, v, s

(* search() finds the first place, if there is one. *)
LEMMA SearchFindsFirst ==
  ASSUME NEW b, WellFormed(b), NEW start \in b.readerIndex_ .. b.writerIndex_,
         NEW bytes \in Seq(Bytes), search(b, start, bytes) # NULL
  PROVE  LET at == search(b, start, bytes) IN
         /\ at \in start .. b.writerIndex_ - Len(bytes)
         /\ SubSeq(b.buffer_, at + 1, at + Len(bytes)) = bytes
         /\ \A j \in start .. at - 1 : SubSeq(b.buffer_, j + 1, j + Len(bytes)) # bytes
PROOF
  <1> DEFINE places == {i \in start .. b.writerIndex_ - Len(bytes) :
                          SubSeq(b.buffer_, i + 1, i + Len(bytes)) = bytes}
             at == search(b, start, bytes)
  <1>1. start \in Nat /\ Len(bytes) \in Nat /\ b.writerIndex_ \in Nat
    BY Fields, LenProperties
  <1>2. places # {} /\ at = CHOOSE i \in places : \A j \in places : i <= j
    BY DEF search
  <1>3. places \in SUBSET Nat
    BY <1>1
  <1>4. \E i \in places : \A j \in places : i <= j
    <2> HIDE DEF places
    <2> QED
      BY <1>2, <1>3, LeastExists
  <1>5. at \in places /\ \A j \in places : at <= j
    <2> HIDE DEF places, at
    <2> QED
      BY <1>2, <1>4, Zenon
  <1>6. at \in start .. b.writerIndex_ - Len(bytes) /\ SubSeq(b.buffer_, at + 1, at + Len(bytes)) = bytes
    <2> HIDE DEF at
    <2> QED
      BY <1>5
  <1>7. ASSUME NEW j \in start .. at - 1
        PROVE  SubSeq(b.buffer_, j + 1, j + Len(bytes)) # bytes
    <2> HIDE DEF at
    <2>1. j \in start .. b.writerIndex_ - Len(bytes) /\ ~(at <= j)
      BY <1>1, <1>6
    <2> QED
      BY <1>5, <2>1
  <1> QED
    BY <1>6, <1>7

--------------------------------------------------------------------------------
(* Integers. *)

(* Induction over the natural numbers, for a set. *)
LEMMA SetInduction ==
  ASSUME NEW S \in SUBSET Nat, 0 \in S, \A n \in S : n + 1 \in S
  PROVE  \A n \in Nat : n \in S
PROOF
  <1> SUFFICES ASSUME Nat \ S # {} PROVE FALSE
    OBVIOUS
  <1>1. PICK m \in Nat \ S : \A j \in Nat \ S : m <= j
    BY LeastExists
  <1>2. m # 0 /\ m - 1 \in Nat /\ ~(m <= m - 1) /\ (m - 1) + 1 = m
    OBVIOUS
  <1>3. m - 1 \in S
    BY <1>1, <1>2
  <1> QED
    BY <1>2, <1>3

(* There is a function that multiplies by m and adds the next d.  Values and *)
(* the value of a number's first bytes are such functions.                   *)
LEMMA RecursionExists ==
  ASSUME NEW a \in Nat, NEW m \in Nat, NEW d \in [Nat -> Nat]
  PROVE  \E f \in [Nat -> Nat] : f[0] = a /\ \A n \in Nat : f[n + 1] = f[n] * m + d[n + 1]
PROOF
  <1> DEFINE G(n, f) == /\ f \in [Nat -> Nat] /\ f[0] = a
                        /\ \A i \in Nat : i < n => f[i + 1] = f[i] * m + d[i + 1]
             S == {n \in Nat : \E f \in [Nat -> Nat] : G(n, f)}
  <1>0. \A x \in Nat, i \in Nat : x * m + d[i + 1] \in Nat
    <2>1. \A x \in Nat : x * m \in Nat
      OBVIOUS
    <2>2. \A i \in Nat : d[i + 1] \in Nat
      OBVIOUS
    <2> QED
      BY <2>1, <2>2
  <1>1. 0 \in S
    <2> DEFINE f == [i \in Nat |-> a]
    <2>1. f \in [Nat -> Nat] /\ G(0, f)
      OBVIOUS
    <2> QED
      BY <2>1
  <1>2. ASSUME NEW n \in S
        PROVE  n + 1 \in S
    <2>1. PICK f \in [Nat -> Nat] : G(n, f)
      OBVIOUS
    <2> DEFINE v == f[n] * m + d[n + 1]  g == [f EXCEPT ![n + 1] = v]
    <2>2. n \in Nat /\ n + 1 \in Nat /\ v \in Nat
      BY <1>0
    <2> HIDE DEF v
    <2>3. g \in [Nat -> Nat] /\ g[n + 1] = v /\ \A i \in Nat : i # n + 1 => g[i] = f[i]
      BY <2>2
    <2> HIDE DEF g
    <2>4. g[0] = a /\ g[n] = f[n]
      BY <2>1, <2>2, <2>3
    <2>5. ASSUME NEW i \in Nat, i < n + 1
          PROVE  g[i + 1] = g[i] * m + d[i + 1]
      <3>1. CASE i = n
        BY <2>3, <2>4, <3>1 DEF v
      <3>2. CASE i < n
        <4>1. g[i + 1] = f[i + 1] /\ g[i] = f[i]
          BY <2>2, <2>3, <3>2
        <4> QED
          BY <2>1, <3>2, <4>1
      <3> QED
        BY <2>2, <2>5, <3>1, <3>2
    <2>6. G(n + 1, g)
      BY <2>3, <2>4, <2>5
    <2> QED
      BY <2>2, <2>3, <2>6
  <1>3. \A n \in Nat : \E f \in [Nat -> Nat] : G(n, f)
    <2>1. S \in SUBSET Nat
      OBVIOUS
    <2> HIDE DEF S
    <2>2. \A n \in Nat : n \in S
      BY <1>1, <1>2, <2>1, SetInduction
    <2> QED
      BY <2>2 DEF S
  <1> DEFINE F(n) == CHOOSE f : G(n, f)
  <1>4. \A n \in Nat : G(n, F(n))
    <2> HIDE DEF G
    <2> QED
      BY <1>3
  <1>5. ASSUME NEW n \in Nat, NEW f, NEW g, G(n, f), G(n + 1, g)
        PROVE  f[n] = g[n]
    <2> DEFINE T == {i \in Nat : i <= n => f[i] = g[i]}
    <2>1. T \in SUBSET Nat /\ 0 \in T
      BY <1>5
    <2>2. ASSUME NEW i \in T
          PROVE  i + 1 \in T
      <3>1. i \in Nat /\ i + 1 \in Nat
        OBVIOUS
      <3>2. CASE i + 1 <= n
        <4>1. i < n /\ i < n + 1 /\ f[i] = g[i]
          BY <3>1, <3>2
        <4>2. f[i + 1] = f[i] * m + d[i + 1] /\ g[i + 1] = g[i] * m + d[i + 1]
          BY <1>5, <3>1, <4>1
        <4> QED
          BY <3>1, <4>1, <4>2
      <3> QED
        BY <3>1, <3>2
    <2>3. n \in T
      <3> HIDE DEF T
      <3> QED
        BY <2>1, <2>2, SetInduction
    <2> QED
      BY <2>3
  <1> DEFINE h == [n \in Nat |-> F(n)[n]]
  <1> HIDE DEF F
  <1>6. h \in [Nat -> Nat] /\ h[0] = a
    BY <1>4
  <1>7. ASSUME NEW n \in Nat
        PROVE  h[n + 1] = h[n] * m + d[n + 1]
    <2>1. G(n, F(n)) /\ G(n + 1, F(n + 1))
      BY <1>4
    <2>2. F(n)[n] = F(n + 1)[n]
      <3> HIDE DEF G
      <3> QED
        BY <1>5, <2>1
    <2>3. F(n + 1)[n + 1] = F(n + 1)[n] * m + d[n + 1]
      BY <2>1
    <2> QED
      BY <2>2, <2>3
  <1> HIDE DEF h
  <1> QED
    BY <1>6, <1>7

(* Values[n] is ByteBase to the power n. *)
LEMMA ValuesFacts ==
  /\ Values[0] = 1
  /\ \A n \in Nat : Values[n] \in Nat \ {0} /\ Values[n + 1] = Values[n] * ByteBase
PROOF
  <1>0. ByteBase \in Nat \ {0}
    BY ByteAssumption
  <1> DEFINE zero == [i \in Nat |-> 0]
  <1>1. zero \in [Nat -> Nat] /\ \A i \in Nat : zero[i + 1] = 0
    OBVIOUS
  <1> HIDE DEF zero
  <1>2. PICK f \in [Nat -> Nat] : f[0] = 1 /\ \A n \in Nat : f[n + 1] = f[n] * ByteBase + zero[n + 1]
    <2>1. 1 \in Nat /\ ByteBase \in Nat
      BY <1>0
    <2> QED
      BY <1>1, <2>1, RecursionExists, Zenon
  <1>3. \A n \in Nat : f[n + 1] = f[n] * ByteBase
    <2>1. \A n \in Nat : f[n] * ByteBase \in Nat
      BY <1>0
    <2> QED
      BY <1>1, <1>2, <2>1
  <1>4. f = [w \in Nat |-> IF w = 0 THEN 1 ELSE f[w - 1] * ByteBase]
    <2>1. \A w \in Nat : f[w] = IF w = 0 THEN 1 ELSE f[w - 1] * ByteBase
      <3>1. \A w \in Nat : w # 0 => w - 1 \in Nat /\ (w - 1) + 1 = w
        OBVIOUS
      <3> QED
        BY <1>2, <1>3, <3>1
    <2> QED
      BY <2>1
  <1>5. Values = [w \in Nat |-> IF w = 0 THEN 1 ELSE Values[w - 1] * ByteBase]
    <2>1. \E g : g = [w \in Nat |-> IF w = 0 THEN 1 ELSE g[w - 1] * ByteBase]
      BY <1>4, Zenon
    <2> QED
      BY <2>1, Zenon DEF Values
  <1>6. Values[0] = 1 /\ \A n \in Nat : Values[n + 1] = Values[n] * ByteBase
    <2> HIDE DEF Values
    <2>1. Values[0] = 1
      BY <1>5
    <2>2. ASSUME NEW n \in Nat
          PROVE  Values[n + 1] = Values[n] * ByteBase
      <3>1. n + 1 \in Nat /\ n + 1 # 0 /\ (n + 1) - 1 = n
        OBVIOUS
      <3>2. Values[n + 1] = IF n + 1 = 0 THEN 1 ELSE Values[(n + 1) - 1] * ByteBase
        BY <1>5, <3>1
      <3> QED
        BY <3>1, <3>2
    <2> QED
      BY <2>1, <2>2
  <1> DEFINE T == {n \in Nat : Values[n] \in Nat \ {0}}
  <1>7. T \in SUBSET Nat /\ 0 \in T
    BY <1>6
  <1>8. ASSUME NEW n \in T
        PROVE  n + 1 \in T
    <2>1. \A x \in Nat \ {0} : x * ByteBase \in Nat \ {0}
      BY <1>0
    <2> QED
      BY <1>6, <2>1
  <1>9. \A n \in Nat : n \in T
    <2> HIDE DEF T
    <2> QED
      BY <1>7, <1>8, SetInduction
  <1> QED
    BY <1>6, <1>9

(* The values of the first bytes of a number: the local value of             *)
(* networkToHost().                                                          *)
ValueOf(bytes, w) ==
  CHOOSE value : value = [i \in 0 .. w |-> IF i = 0 THEN 0 ELSE value[i - 1] * ByteBase + bytes[i]]

(* ... exist and are no larger than so many bytes can say. *)
LEMMA ValueFacts ==
  ASSUME NEW w \in Nat, NEW bytes, \A i \in 1 .. w : bytes[i] \in Bytes
  PROVE  /\ ValueOf(bytes, w)[0] = 0
         /\ \A i \in 0 .. w : ValueOf(bytes, w)[i] \in 0 .. Values[i] - 1
         /\ \A i \in 1 .. w : ValueOf(bytes, w)[i] = ValueOf(bytes, w)[i - 1] * ByteBase + bytes[i]
PROOF
  <1>0. ByteBase \in Nat \ {0}
    BY ByteAssumption
  <1> DEFINE d == [i \in Nat |-> IF i \in 1 .. w THEN bytes[i] ELSE 0]
  <1>1. d \in [Nat -> Nat] /\ \A i \in 1 .. w : d[i] = bytes[i]
    BY DEF Bytes
  <1> HIDE DEF d
  <1>2. PICK f \in [Nat -> Nat] : f[0] = 0 /\ \A n \in Nat : f[n + 1] = f[n] * ByteBase + d[n + 1]
    <2>1. 0 \in Nat /\ ByteBase \in Nat
      BY <1>0
    <2>2. d \in [Nat -> Nat]
      BY <1>1
    <2> QED
      BY <2>1, <2>2, RecursionExists, ZenonT(60)
  <1> DEFINE g == [i \in 0 .. w |-> f[i]]  V == ValueOf(bytes, w)
  <1>3. g = [i \in 0 .. w |-> IF i = 0 THEN 0 ELSE g[i - 1] * ByteBase + bytes[i]]
    <2>1. ASSUME NEW i \in 0 .. w
          PROVE  g[i] = IF i = 0 THEN 0 ELSE g[i - 1] * ByteBase + bytes[i]
      <3>1. CASE i = 0
        BY <1>2, <3>1
      <3>2. CASE i # 0
        <4>1. i - 1 \in Nat /\ i - 1 \in 0 .. w /\ (i - 1) + 1 = i /\ i \in 1 .. w
          BY <3>2
        <4>2. f[i] = f[i - 1] * ByteBase + bytes[i]
          BY <1>1, <1>2, <4>1
        <4> QED
          BY <3>2, <4>1, <4>2
      <3> QED
        BY <3>1, <3>2
    <2> QED
      BY <2>1
  <1>4. V = [i \in 0 .. w |-> IF i = 0 THEN 0 ELSE V[i - 1] * ByteBase + bytes[i]]
    <2> HIDE DEF g
    <2>1. \E h : h = [i \in 0 .. w |-> IF i = 0 THEN 0 ELSE h[i - 1] * ByteBase + bytes[i]]
      BY <1>3, Zenon
    <2> QED
      BY <2>1, Zenon DEF ValueOf
  <1> HIDE DEF V
  <1>5. V[0] = 0 /\ \A i \in 1 .. w : V[i] = V[i - 1] * ByteBase + bytes[i]
    <2>1. \A i \in 0 .. w : V[i] = IF i = 0 THEN 0 ELSE V[i - 1] * ByteBase + bytes[i]
      BY <1>4, Zenon
    <2>2. 0 \in 0 .. w /\ \A i \in 1 .. w : i \in 0 .. w /\ i # 0
      OBVIOUS
    <2> QED
      BY <2>1, <2>2, Zenon
  <1> DEFINE T == {i \in Nat : i <= w => V[i] \in 0 .. Values[i] - 1}
  <1>6. T \in SUBSET Nat /\ 0 \in T
    BY <1>5, ValuesFacts
  <1>7. ASSUME NEW i \in T
        PROVE  i + 1 \in T
    <2>1. i \in Nat /\ i + 1 \in Nat
      OBVIOUS
    <2>2. CASE i + 1 <= w
      <3>1. V[i] \in 0 .. Values[i] - 1 /\ i + 1 \in 1 .. w /\ (i + 1) - 1 = i
        BY <2>1, <2>2
      <3>2. V[i + 1] = V[i] * ByteBase + bytes[i + 1] /\ bytes[i + 1] \in 0 .. ByteBase - 1
        BY <1>5, <3>1 DEF Bytes
      <3>3. Values[i] \in Nat \ {0} /\ Values[i + 1] = Values[i] * ByteBase
        BY <2>1, ValuesFacts
      <3>4. \A x \in Nat, p \in Nat, m \in Nat \ {0}, y \in Nat :
              x <= p - 1 /\ y <= m - 1 => x * m + y \in 0 .. p * m - 1
        <4> SUFFICES ASSUME NEW x \in Nat, NEW p \in Nat, NEW m \in Nat \ {0}, NEW y \in Nat,
                            x + 1 <= p, y <= m - 1
                     PROVE  x * m + y \in 0 .. p * m - 1
          OBVIOUS
        <4>1. (x + 1) * m <= p * m /\ (x + 1) * m = x * m + m /\ x * m \in Nat /\ p * m \in Nat
          OBVIOUS
        <4> QED
          BY <4>1
      <3>5. V[i] * ByteBase + bytes[i + 1] \in 0 .. Values[i] * ByteBase - 1
        <4>1. V[i] \in Nat /\ V[i] <= Values[i] - 1 /\ Values[i] \in Nat
          BY <3>1, <3>3
        <4>2. bytes[i + 1] \in Nat /\ bytes[i + 1] <= ByteBase - 1
          BY <1>0, <3>2
        <4> QED
          BY <1>0, <3>4, <4>1, <4>2, Zenon
      <3> QED
        BY <2>1, <3>2, <3>3, <3>5
    <2> QED
      BY <2>1, <2>2
  <1>8. \A i \in Nat : i \in T
    <2> HIDE DEF T
    <2> QED
      BY <1>6, <1>7, SetInduction
  <1> QED
    BY <1>5, <1>8 DEF V

(* Dividing a number by ByteBase to the power k leaves its first bytes. *)
LEMMA FirstBytes ==
  ASSUME NEW w \in Nat, NEW bytes, \A i \in 1 .. w : bytes[i] \in Bytes, NEW k \in 0 .. w
  PROVE  \E rest \in Nat : /\ rest < Values[k]
                           /\ ValueOf(bytes, w)[w] = ValueOf(bytes, w)[w - k] * Values[k] + rest
PROOF
  <1>0. ByteBase \in Nat \ {0}
    BY ByteAssumption
  <1> DEFINE V == ValueOf(bytes, w)
             T == {j \in Nat : j <= w => \E rest \in Nat : rest < Values[j] /\ V[w] = V[w - j] * Values[j] + rest}
  <1>1. /\ \A i \in 0 .. w : V[i] \in Nat
        /\ \A i \in 1 .. w : V[i] = V[i - 1] * ByteBase + bytes[i]
    BY ValueFacts, ValuesFacts
  <1> HIDE DEF V
  <1>2. T \in SUBSET Nat /\ 0 \in T
    <2>1. V[w] = V[w - 0] * Values[0] + 0 /\ 0 < Values[0]
      BY <1>1, ValuesFacts
    <2> QED
      BY <2>1
  <1>3. ASSUME NEW j \in T
        PROVE  j + 1 \in T
    <2>1. j \in Nat /\ j + 1 \in Nat
      OBVIOUS
    <2>2. CASE j + 1 <= w
      <3>1. PICK rest \in Nat : rest < Values[j] /\ V[w] = V[w - j] * Values[j] + rest
        BY <2>1, <2>2
      <3> DEFINE x == V[w - (j + 1)]  y == bytes[w - j]  p == Values[j]
      <3>2. w - j \in 1 .. w /\ (w - j) - 1 = w - (j + 1) /\ w - (j + 1) \in 0 .. w
        BY <2>1, <2>2
      <3>3. V[w - j] = x * ByteBase + y /\ x \in Nat
        BY <1>1, <3>2
      <3>4. y \in Nat /\ y <= ByteBase - 1
        BY <1>0, <3>2 DEF Bytes
      <3>5. p \in Nat \ {0} /\ Values[j + 1] = p * ByteBase
        BY <2>1, ValuesFacts
      <3> HIDE DEF x, y, p
      <3>6. rest < p /\ V[w] = (x * ByteBase + y) * p + rest
        BY <3>1, <3>3 DEF p
      <3>7. \A a \in Nat, m \in Nat \ {0}, b \in Nat, q \in Nat \ {0}, c \in Nat :
              b <= m - 1 /\ c < q =>
                /\ (a * m + b) * q + c = a * (q * m) + (b * q + c)
                /\ b * q + c \in Nat /\ b * q + c < q * m
        <4> SUFFICES ASSUME NEW a \in Nat, NEW m \in Nat \ {0}, NEW b \in Nat, NEW q \in Nat \ {0},
                            NEW c \in Nat, b + 1 <= m, c < q
                     PROVE  /\ (a * m + b) * q + c = a * (q * m) + (b * q + c)
                            /\ b * q + c \in Nat /\ b * q + c < q * m
          OBVIOUS
        <4>1. (b + 1) * q <= m * q /\ (b + 1) * q = b * q + q /\ m * q = q * m
              /\ b * q \in Nat /\ q * m \in Nat
          OBVIOUS
        <4>2. (a * m + b) * q = (a * m) * q + b * q /\ (a * m) * q = a * (q * m) /\ a * (q * m) \in Nat
          OBVIOUS
        <4> QED
          BY <4>1, <4>2
      <3>8. /\ V[w] = x * Values[j + 1] + (y * p + rest)
            /\ y * p + rest \in Nat /\ y * p + rest < Values[j + 1]
        BY <1>0, <3>3, <3>4, <3>5, <3>6, <3>7
      <3> QED
        BY <2>1, <3>8 DEF x
    <2> QED
      BY <2>1, <2>2
  <1>4. \A j \in Nat : j \in T
    <2> HIDE DEF T
    <2> QED
      BY <1>2, <1>3, SetInduction
  <1> QED
    BY <1>4 DEF V

(* Division and remainder. *)
LEMMA DivMod ==
  ASSUME NEW q \in Nat, NEW p \in Nat \ {0}, NEW r \in Nat, r < p
  PROVE  /\ (q * p + r) \div p = q /\ (q * p + r) % p = r
         /\ r % p = r /\ (r - p) % p = r
  OBVIOUS

(* Two's complement: an even number of values, half of them negative. *)
LEMMA TwosComplement ==
  ASSUME NEW m \in Nat \ {0}, m % 2 = 0, NEW p \in Nat \ {0}, NEW v \in Nat, v < p * m
  PROVE  LET x == IF 2 * v >= p * m THEN v - p * m ELSE v IN
         x \in -((p * m) \div 2) .. ((p * m) \div 2) - 1 /\ x % (p * m) = v
PROOF
  <1> DEFINE h == m \div 2  n == p * m
  <1>1. h \in Nat /\ m = 2 * h
    OBVIOUS
  <1>2. p * h \in Nat /\ p * (2 * h) = 2 * (p * h)
    BY <1>1
  <1>3. n \in Nat \ {0} /\ n = 2 * (p * h)
    BY <1>1, <1>2
  <1> HIDE DEF h, n
  <1>4. n \div 2 = p * h
    BY <1>2, <1>3
  <1>5. v % n = v /\ (v - n) % n = v
    BY <1>3, DivMod DEF n
  <1>6. v < n
    BY DEF n
  <1>7. ASSUME NEW x, x = IF 2 * v >= n THEN v - n ELSE v
        PROVE  x \in -(n \div 2) .. (n \div 2) - 1 /\ x % n = v
    <2>1. PICK k \in Nat : k = p * h
      BY <1>2
    <2>2. n \in Nat /\ n = 2 * k /\ n \div 2 = k
      BY <1>3, <1>4, <2>1
    <2>3. CASE 2 * v >= n
      BY <1>5, <1>6, <1>7, <2>2, <2>3
    <2>4. CASE ~(2 * v >= n)
      BY <1>5, <1>6, <1>7, <2>2, <2>4
    <2> QED
      BY <2>3, <2>4
  <1> QED
    BY <1>7 DEF n

(* networkToHost() gives the integer whose bytes these are. *)
LEMMA IntegerOfBytes ==
  ASSUME NEW w \in Nat \ {0}, NEW bytes \in Seq(Bytes), Len(bytes) = w
  PROVE  /\ networkToHost(bytes, w) \in Q!Ints(w)
         /\ networkToHost(bytes, w) \in Int
         /\ Q!Encode(networkToHost(bytes, w), w) = bytes
PROOF
  <1> DEFINE V == ValueOf(bytes, w)  v == V[w]  p == Values[w - 1]  n == Values[w]
             x == networkToHost(bytes, w)
  <1>0. ByteBase \in Nat \ {0} /\ ByteBase % 2 = 0
    BY ByteAssumption
  <1>1. \A i \in 1 .. w : bytes[i] \in Bytes
    BY ElementOfSeq
  <1>2. p \in Nat \ {0} /\ n = p * ByteBase /\ n \in Nat \ {0}
    <2>1. w - 1 \in Nat /\ (w - 1) + 1 = w
      OBVIOUS
    <2> QED
      BY <2>1, ValuesFacts
  <1>3. /\ \A i \in 0 .. w : V[i] \in 0 .. Values[i] - 1
        /\ \A i \in 1 .. w : V[i] = V[i - 1] * ByteBase + bytes[i]
    BY <1>1, ValueFacts
  <1>4. v \in Nat /\ v < n
    <2> HIDE DEF V
    <2>1. v \in 0 .. n - 1
      BY <1>3
    <2> HIDE DEF v, n
    <2> QED
      BY <1>2, <2>1
  <1>5. x = IF 2 * v >= n THEN v - n ELSE v
    BY DEF networkToHost, ValueOf, signed
  <1> HIDE DEF x, v, n, p
  <1>6. x \in -(n \div 2) .. (n \div 2) - 1 /\ x % n = v
    BY <1>0, <1>2, <1>4, <1>5, TwosComplement
  <1>7. Q!Values = Values
    BY DEF Q!Values, Values
  <1>8. x \in Q!Ints(w)
    BY <1>6, <1>7 DEF Q!Ints, n
  <1>9. ASSUME NEW i \in 1 .. w
        PROVE  (v \div Values[w - i]) % ByteBase = bytes[i]
    <2> HIDE DEF V
    <2>1. w - i \in 0 .. w /\ w - (w - i) = i /\ i \in 0 .. w /\ i - 1 \in 0 .. w
      OBVIOUS
    <2>2. \E rest \in Nat : rest < Values[w - i] /\ V[w] = V[w - (w - i)] * Values[w - i] + rest
      BY <1>1, <2>1, FirstBytes DEF V
    <2>3. PICK rest \in Nat : rest < Values[w - i] /\ v = V[i] * Values[w - i] + rest
      BY <2>1, <2>2 DEF v
    <2>4. Values[w - i] \in Nat \ {0} /\ V[i] \in Nat /\ V[i - 1] \in Nat
      BY <1>3, <2>1, ValuesFacts
    <2>5. v \div Values[w - i] = V[i]
      BY <2>3, <2>4, DivMod
    <2>6. bytes[i] \in Nat /\ bytes[i] < ByteBase
      BY <1>0, <1>1 DEF Bytes
    <2>7. (V[i - 1] * ByteBase + bytes[i]) % ByteBase = bytes[i]
      BY <1>0, <2>4, <2>6, DivMod
    <2> QED
      BY <1>3, <2>5, <2>7
  <1>10. Q!Encode(x, w) = bytes
    <2>1. Q!Encode(x, w) = [i \in 1 .. w |-> bytes[i]]
      BY <1>6, <1>7, <1>9 DEF Q!Encode, n
    <2>2. bytes = [i \in 1 .. w |-> bytes[i]]
      BY LenProperties
    <2> QED
      BY <2>1, <2>2
  <1>11. x \in Int
    BY <1>2, <1>4, <1>5
  <1> QED
    BY <1>8, <1>10, <1>11 DEF x

--------------------------------------------------------------------------------
(* The steps. *)

Inv == WellFormed(buf) /\ got \in Int /\ line \in Seq(Bytes)

(* The bytes of a call are a sequence of bytes. *)
LEMMA DataAreBytes ==
  /\ \A data \in Data : data \in Seq(Bytes) /\ data \in Q!Data
  /\ <<>> \in Q!Data
PROOF
  <1>1. Q!Data = Data
    BY DEF Q!Data, Q!Bytes, Data, Bytes
  <1>2. ASSUME NEW data \in Data
        PROVE  data \in Seq(Bytes)
    <2>1. PICK n \in 0 .. MaxData : data \in [1 .. n -> Bytes]
      BY DEF Data
    <2>2. n \in Nat
      BY SizesAssumption
    <2> QED
      BY <2>1, <2>2, FunctionIsSeq
  <1>3. <<>> \in Data
    <2>1. <<>> \in [1 .. 0 -> Bytes] /\ 0 \in 0 .. MaxData
      BY SizesAssumption
    <2> QED
      BY <2>1 DEF Data
  <1> QED
    BY <1>1, <1>2, <1>3

(* A call that leaves b behind is a step of the ByteQueue if b's bytes are   *)
(* the ones it says.                                                         *)
LEMMA BecomesInv ==
  ASSUME NEW b, WellFormed(b), Becomes(b)
  PROVE  Inv' /\ contentOf(buf)' = contentOf(b) /\ Q!ReturnsNothing
PROOF
  <1>1. buf' = b /\ got' = 0 /\ line' = <<>>
    BY DEF Becomes
  <1>2. WellFormed(buf)' /\ contentOf(buf)' = contentOf(b)
    BY <1>1 DEF WellFormed, contentOf
  <1>3. <<>> \in Seq(Bytes)
    OBVIOUS
  <1> QED
    BY <1>1, <1>2, <1>3 DEF Inv, Q!ReturnsNothing

(* Calls that add bytes. *)
LEMMA AddingSteps ==
  ASSUME Inv, Append_ \/ Prepend \/ EnsureWritable \/ HasWritten \/ Shrink \/ ReadFd
  PROVE  Inv' /\ Q!Next
PROOF
  <1> DEFINE s == contentOf(buf)
  <1>0. WellFormed(buf) /\ s \in Seq(Bytes)
    BY ContentOf DEF Inv
  <1>1. ASSUME NEW data \in Data, NEW b, WellFormed(b), Becomes(b), contentOf(b) = s \o data
        PROVE  Inv' /\ Q!Next
    <2>1. data \in Q!Data /\ Q!Append_(data)
      BY <1>1, DataAreBytes, BecomesInv DEF Q!Append_
    <2> QED
      BY <1>1, <2>1, BecomesInv DEF Q!Next
  <1>2. ASSUME NEW b, WellFormed(b), Becomes(b), contentOf(b) = s
        PROVE  Inv' /\ Q!Next
    <2>1. Q!Append_(<<>>)
      BY <1>0, <1>2, BecomesInv, ConcatEmptySeq DEF Q!Append_
    <2> QED
      BY <1>2, <2>1, DataAreBytes, BecomesInv DEF Q!Next
  <1>3. CASE Append_
    <2>1. PICK data \in Data : Becomes(append(buf, data))
      BY <1>3 DEF Append_
    <2> QED
      BY <1>0, <1>1, <2>1, AppendBytes, DataAreBytes
  <1>4. CASE Prepend
    <2>1. PICK data \in Data : Len(data) <= prependableBytes(buf) /\ Becomes(prepend(buf, data))
      BY <1>4 DEF Prepend
    <2>2. WellFormed(prepend(buf, data)) /\ contentOf(prepend(buf, data)) = data \o s
      BY <1>0, <2>1, PrependBytes, DataAreBytes
    <2>3. data \in Q!Data /\ Q!Prepend(data)
      BY <2>1, <2>2, DataAreBytes, BecomesInv DEF Q!Prepend
    <2> QED
      BY <2>1, <2>2, <2>3, BecomesInv DEF Q!Next
  <1>5. CASE EnsureWritable
    <2>1. PICK len \in 0 .. MaxData : Becomes(ensureWritableBytes(buf, len))
      BY <1>5 DEF EnsureWritable
    <2>2. len \in Nat
      BY SizesAssumption
    <2> QED
      BY <1>0, <1>2, <2>1, <2>2, EnsureWritableBytes
  <1>6. CASE HasWritten
    <2>1. PICK data \in Data : Len(data) <= writableBytes(buf) /\ Becomes(Filled(buf, data))
      BY <1>6 DEF HasWritten, Filled
    <2> QED
      BY <1>0, <1>1, <2>1, Fill, DataAreBytes
  <1>7. CASE Shrink
    <2>1. PICK reserve \in 0 .. MaxData : Becomes(shrink(buf, reserve))
      BY <1>7 DEF Shrink
    <2>2. reserve \in Nat
      BY SizesAssumption
    <2> QED
      BY <1>0, <1>2, <2>1, <2>2, ShrinkKeepsBytes
  <1>8. CASE ReadFd
    <2>1. PICK data \in Data : Becomes(readFd(buf, data))
      BY <1>8 DEF ReadFd
    <2> QED
      BY <1>0, <1>1, <2>1, ReadFdBytes, DataAreBytes
  <1> QED
    BY <1>3, <1>4, <1>5, <1>6, <1>7, <1>8

(* Calls that take bytes away. *)
LEMMA TakingSteps ==
  ASSUME Inv, Retrieve \/ Unwrite \/ ReadInt
  PROVE  Inv' /\ Q!Next
PROOF
  <1> DEFINE s == contentOf(buf)
  <1>0. /\ WellFormed(buf) /\ s \in Seq(Bytes) /\ readableBytes(buf) \in Nat
        /\ Len(s) = readableBytes(buf)
    BY ContentOf, Fields DEF Inv, readableBytes
  <1>1. CASE Retrieve
    <2>1. PICK len \in 0 .. readableBytes(buf) : Becomes(retrieve(buf, len))
      BY <1>1 DEF Retrieve
    <2>2. WellFormed(retrieve(buf, len)) /\ contentOf(retrieve(buf, len)) = SubSeq(s, len + 1, Len(s))
      BY <1>0, RetrieveBytes
    <2>3. len \in 0 .. Len(s) /\ Q!DropFirst(len)
      BY <1>0, <2>1, <2>2, BecomesInv DEF Q!DropFirst
    <2> QED
      BY <2>1, <2>2, <2>3, BecomesInv DEF Q!Next
  <1>2. CASE Unwrite
    <2>1. PICK len \in 0 .. readableBytes(buf) : Becomes(unwrite(buf, len))
      BY <1>2 DEF Unwrite
    <2>2. WellFormed(unwrite(buf, len)) /\ contentOf(unwrite(buf, len)) = SubSeq(s, 1, Len(s) - len)
      BY <1>0, UnwriteBytes
    <2>3. len \in 0 .. Len(s) /\ Q!DropLast(len)
      BY <1>0, <2>1, <2>2, BecomesInv DEF Q!DropLast
    <2> QED
      BY <2>1, <2>2, <2>3, BecomesInv DEF Q!Next
  <1>3. CASE ReadInt
    <2>1. PICK w \in Widths : /\ readableBytes(buf) >= w /\ got' = peekInt(buf, w)
                              /\ line' = <<>> /\ buf' = retrieve(buf, w)
      BY <1>3 DEF ReadInt
    <2>2. w \in Nat \ {0} /\ w \in 0 .. readableBytes(buf)
      BY <1>0, <2>1, ByteAssumption
    <2>3. WellFormed(retrieve(buf, w)) /\ contentOf(retrieve(buf, w)) = SubSeq(s, w + 1, Len(s))
      BY <1>0, <2>2, RetrieveBytes
    <2>4. WellFormed(buf)' /\ s' = SubSeq(s, w + 1, Len(s))
      BY <2>1, <2>3 DEF WellFormed, contentOf
    <2> DEFINE bytes == SubSeq(s, 1, w)
    <2>5. bytes \in Seq(Bytes) /\ Len(bytes) = w
      <3> HIDE DEF s
      <3>1. \A i \in 1 .. w : s[i] \in Bytes
        BY <1>0, <2>2, ElementOfSeq
      <3>2. bytes \in Seq(Bytes) /\ Len(bytes) = IF 1 <= w THEN w - 1 + 1 ELSE 0
        BY <2>2, <3>1, SubSeqProperties
      <3> QED
        BY <2>2, <3>2
    <2>6. got' = networkToHost(bytes, w)
      BY <2>1 DEF peekInt
    <2> HIDE DEF bytes, s
    <2>7. got' \in Q!Ints(w) /\ got' \in Int /\ Q!Encode(got', w) = bytes
      BY <2>2, <2>5, <2>6, IntegerOfBytes
    <2>8. Q!TakeInt(w)
      BY <1>0, <2>1, <2>2, <2>4, <2>7 DEF Q!TakeInt, bytes, s
    <2>9. Q!Next
      BY <2>1, <2>8 DEF Q!Next
    <2>10. <<>> \in Seq(Bytes)
      OBVIOUS
    <2> QED
      BY <2>1, <2>4, <2>7, <2>9, <2>10 DEF Inv
  <1> QED
    BY <1>1, <1>2, <1>3

(* A line is taken out at its first end. *)
LEMMA LineSteps ==
  ASSUME Inv, NEW start \in buf.readerIndex_ .. buf.writerIndex_,
         NEW end \in {<<CR, LF>>, <<LF>>},
         retrieveLine(search(buf, start, end), Len(end))
  PROVE  Inv' /\ Q!Next
PROOF
  <1> DEFINE s == contentOf(buf)  r == buf.readerIndex_  w == buf.writerIndex_  v == buf.buffer_
             at == search(buf, start, end)  e == Len(end)  n == at - r  skip == start - r
  <1>0. /\ WellFormed(buf) /\ s \in Seq(Bytes) /\ Len(s) = w - r
        /\ r \in Nat /\ w \in Nat /\ r <= w
    BY ContentOf, Fields DEF Inv, WellFormed
  <1>1. end \in Seq(Bytes) /\ e \in {1, 2}
    <2>1. CR \in Bytes /\ LF \in Bytes
      BY ByteAssumption DEF Bytes
    <2>2. CASE end = <<CR, LF>>
      BY <2>1, <2>2
    <2>3. CASE end = <<LF>>
      BY <2>1, <2>3
    <2> QED
      BY <2>2, <2>3
  <1>2. /\ at # NULL /\ line' = SubSeq(v, r + 1, at) /\ got' = 0
        /\ buf' = retrieve(buf, at + e - r)
    BY DEF retrieveLine
  <1>3. /\ at \in start .. w - e
        /\ SubSeq(v, at + 1, at + e) = end
        /\ \A j \in start .. at - 1 : SubSeq(v, j + 1, j + e) # end
    BY <1>0, <1>1, <1>2, SearchFindsFirst
  <1> HIDE DEF at, e
  <1>4. /\ n \in Nat /\ skip \in Nat /\ n \in skip .. Len(s) - e /\ skip \in 0 .. Len(s)
        /\ n + e <= w - r /\ e \in Nat /\ r + n = at
    <2> HIDE DEF s, r, w, v
    <2>1. start \in r .. w
      BY DEF r, w
    <2>2. e \in Nat /\ start \in Int /\ r <= start /\ start <= w /\ w - e \in Int
      BY <1>0, <1>1, <2>1
    <2>3. at \in Int /\ start <= at /\ at <= w - e
      BY <1>0, <1>3, <2>2
    <2>4. Len(s) \in Nat
      BY <1>0
    <2> QED
      BY <1>0, <2>2, <2>3, <2>4
  <1>5. \A i \in Nat : i + e <= w - r => SubSeq(s, i + 1, i + e) = SubSeq(v, r + i + 1, r + i + e)
    BY <1>0, <1>4, ContentPart
  <1>6. SubSeq(s, n + 1, n + e) = end
    BY <1>3, <1>4, <1>5
  <1>7. ASSUME NEW i \in skip .. n - 1
        PROVE  SubSeq(s, i + 1, i + e) # end
    <2>0. start \in Int /\ at \in Int /\ i \in Int /\ start - r <= i /\ i <= at - r - 1
      <3>1. start \in Int /\ at \in Int /\ r \in Int
        BY <1>0, <1>1, <1>3
      <3> HIDE DEF r
      <3>2. i \in start - r .. at - r - 1
        OBVIOUS
      <3> QED
        BY <3>1, <3>2
    <2>1. i \in Nat /\ i + e <= w - r /\ r + i \in start .. at - 1
      <3>1. r \in Nat /\ w \in Nat /\ e \in Nat /\ start - r \in Nat /\ at - r + e <= w - r
        BY <1>0, <1>4
      <3> HIDE DEF r, w
      <3>2. i \in Nat
        BY <2>0, <3>1
      <3>3. i + e <= w - r
        BY <2>0, <3>1
      <3>4. r + i \in start .. at - 1
        BY <2>0, <3>1
      <3> QED
        BY <3>2, <3>3, <3>4
    <2> HIDE DEF s, r, w, v
    <2>2. SubSeq(s, i + 1, i + e) = SubSeq(v, r + i + 1, r + i + e)
      BY <1>5, <2>1
    <2> QED
      BY <1>3, <2>1, <2>2
  <1>8. line' = SubSeq(s, 1, n)
    <2>1. SubSeq(s, 0 + 1, 0 + n) = SubSeq(v, r + 0 + 1, r + 0 + n)
      <3> HIDE DEF n
      <3>1. 0 \in Nat /\ n \in Nat /\ 0 + n <= w - r
        BY <1>0, <1>4
      <3> QED
        BY <1>0, <3>1, ContentPart
    <2>2. 0 + 1 = 1 /\ 0 + n = n /\ r + 0 + 1 = r + 1 /\ r + 0 + n = at
      BY <1>0, <1>4
    <2> QED
      BY <1>2, <2>1, <2>2
  <1>9. n + e \in 0 .. readableBytes(buf) /\ at + e - r = n + e
    BY <1>0, <1>3, <1>4 DEF readableBytes
  <1>10. WellFormed(retrieve(buf, n + e)) /\ contentOf(retrieve(buf, n + e)) = SubSeq(s, n + e + 1, Len(s))
    <2> HIDE DEF n
    <2> QED
      BY <1>0, <1>9, RetrieveBytes
  <1>11. WellFormed(buf)' /\ s' = SubSeq(s, n + e + 1, Len(s))
    BY <1>2, <1>9, <1>10 DEF WellFormed, contentOf
  <1>12. line' \in Seq(Bytes)
    <2> HIDE DEF s, n
    <2>1. \A i \in 1 .. n : s[i] \in Bytes
      BY <1>0, <1>4, ElementOfSeq
    <2> QED
      BY <1>4, <1>8, <2>1, SubSeqProperties
  <1> HIDE DEF n, skip
  <1>13. Q!TakeLine(end, skip)
    BY <1>2, <1>4, <1>6, <1>7, <1>8, <1>11 DEF Q!TakeLine, e
  <1>14. Q!Next
    BY <1>4, <1>13 DEF Q!Next
  <1> QED
    BY <1>2, <1>11, <1>12, <1>14 DEF Inv

(* Every step keeps the invariant and is a step of the ByteQueue. *)
LEMMA NextImplements == Inv /\ Next => Inv' /\ Q!Next
PROOF
  <1> SUFFICES ASSUME Inv, Next PROVE Inv' /\ Q!Next
    OBVIOUS
  <1>1. CASE ReadLine
    <2>1. PICK start \in buf.readerIndex_ .. buf.writerIndex_ :
            \/ retrieveLine(search(buf, start, <<CR, LF>>), 2)
            \/ retrieveLine(search(buf, start, <<LF>>), 1)
      BY <1>1 DEF ReadLine, findCRLF, findEOL, kCRLF
    <2>2. Len(<<CR, LF>>) = 2 /\ Len(<<LF>>) = 1
      OBVIOUS
    <2> QED
      BY <2>1, <2>2, LineSteps
  <1>2. CASE Append_ \/ Prepend \/ EnsureWritable \/ HasWritten \/ Shrink \/ ReadFd
    BY <1>2, AddingSteps
  <1>3. CASE Retrieve \/ Unwrite \/ ReadInt
    BY <1>3, TakingSteps
  <1> QED
    BY <1>1, <1>2, <1>3 DEF Next

(* The initial Buffer satisfies the invariant and is empty. *)
LEMMA InitImplements == Init => Inv /\ Q!Init
PROOF
  <1> SUFFICES ASSUME Init PROVE Inv /\ Q!Init
    OBVIOUS
  <1>1. WellFormed(buf) /\ contentOf(buf) = <<>>
    BY NewBuffer, SizesAssumption DEF Init
  <1>2. got = 0 /\ line = <<>> /\ <<>> \in Seq(Bytes)
    BY DEF Init
  <1> QED
    BY <1>1, <1>2 DEF Inv, Q!Init

(* A step that changes nothing keeps the invariant. *)
LEMMA Stutters == Inv /\ UNCHANGED vars => Inv' /\ UNCHANGED <<contentOf(buf), got, line>>
  BY DEF Inv, WellFormed, contentOf, vars

(* The invariant holds in every state. *)
LEMMA InvHolds == Spec => []Inv
  BY InitImplements, NextImplements, Stutters, PTL DEF Spec

--------------------------------------------------------------------------------
(* Buffer.h, on the indices: "0 <= readerIndex <= writerIndex <= size", in   *)
(* every state, whatever the calls.                                          *)
THEOREM BufferTypeCorrect == Spec => []TypeOK
PROOF
  <1>1. Inv => TypeOK
    BY Fields DEF Inv, TypeOK, WellFormed
  <1> QED
    BY <1>1, InvHolds, PTL

(* makeSpace() and ensureWritableBytes(): their asserts hold in every state. *)
THEOREM AssertsHold == Spec => []MakeSpaceAsserts
PROOF
  <1>1. Inv => MakeSpaceAsserts
    <2> SUFFICES ASSUME Inv, NEW len \in 0 .. MaxData
                 PROVE  /\ writableBytes(ensureWritableBytes(buf, len)) >= len
                        /\ writableBytes(buf) < len /\ ~mustGrow(buf, len)
                             => kCheapPrepend < buf.readerIndex_
      BY DEF MakeSpaceAsserts
    <2>1. len \in Nat /\ WellFormed(buf)
      BY SizesAssumption DEF Inv
    <2>2. writableBytes(ensureWritableBytes(buf, len)) >= len
      BY <2>1, EnsureWritableBytes
    <2>3. writableBytes(buf) \in Nat /\ buf.readerIndex_ \in Nat /\ kCheapPrepend \in Nat
      BY <2>1, Fields, SizesAssumption
    <2>4. writableBytes(buf) < len /\ ~mustGrow(buf, len) => kCheapPrepend < buf.readerIndex_
      BY <2>1, <2>3 DEF mustGrow, prependableBytes
    <2> QED
      BY <2>2, <2>4
  <1> QED
    BY <1>1, InvHolds, PTL

(* Every operation of Buffer does to the readable bytes what ByteQueue says: *)
(* no byte is lost, repeated or overwritten, integers of any width come back *)
(* as they were written, and a line ends at its first end.                   *)
THEOREM BufferImplementsByteQueue == Spec => ImplementsByteQueue
  BY InitImplements, NextImplements, Stutters, InvHolds, PTL
  DEF Spec, ImplementsByteQueue, Q!Spec

================================================================================
