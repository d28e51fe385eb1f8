------------------------------- MODULE ByteQueue -------------------------------
(***************************************************************************)
(* What a Buffer promises: a sequence of bytes that grows and shrinks at    *)
(* both ends, and integers that are read as they were written, whatever the *)
(* storage behind it.                                                       *)
(***************************************************************************)
EXTENDS Integers, Sequences

CONSTANTS ByteBase,  \* values of a byte (256)
          CR, LF,    \* the bytes that end a line
          Widths,    \* sizes of the integers, in bytes
          MaxData    \* bound on the bytes of one call

VARIABLES content,   \* the readable bytes
          got,       \* the integer that the last call returned
          line       \* the line that the last call returned

Bytes == 0 .. ByteBase - 1
Data == UNION {[1 .. n -> Bytes] : n \in 0 .. MaxData}

(* How many values w bytes have: ByteBase to the power w *)
Values[w \in Nat] == IF w = 0 THEN 1 ELSE Values[w - 1] * ByteBase

(* Values of a signed integer of w bytes, and its bytes in memory after      *)
(* hostToNetwork16, 32 and 64.                                               *)
Ints(w) == -(Values[w] \div 2) .. (Values[w] \div 2) - 1
Encode(x, w) == [i \in 1 .. w |-> ((x % Values[w]) \div Values[w - i]) % ByteBase]

Init == content = <<>> /\ got = 0 /\ line = <<>>

ReturnsNothing == got' = 0 /\ line' = <<>>

Append_(data) == content' = content \o data /\ ReturnsNothing

Prepend(data) == content' = data \o content /\ ReturnsNothing

(* the first, or the last, n bytes go *)
DropFirst(n) == content' = SubSeq(content, n + 1, Len(content)) /\ ReturnsNothing
DropLast(n) == content' = SubSeq(content, 1, Len(content) - n) /\ ReturnsNothing

(* The integer whose bytes come first is taken out. *)
TakeInt(w) ==
  /\ Len(content) >= w
  /\ \E x \in Ints(w) : Encode(x, w) = SubSeq(content, 1, w) /\ got' = x
  /\ line' = <<>>
  /\ content' = SubSeq(content, w + 1, Len(content))

(* The line that ends with the first such bytes behind skip is taken out. *)
TakeLine(end, skip) ==
  LET EndsAt(n) == SubSeq(content, n + 1, n + Len(end)) = end IN
  \E n \in skip .. Len(content) - Len(end) :
    /\ EndsAt(n) /\ \A i \in skip .. n - 1 : ~EndsAt(i)
    /\ line' = SubSeq(content, 1, n)
    /\ content' = SubSeq(content, n + Len(end) + 1, Len(content))
    /\ got' = 0

Next ==
  \/ \E data \in Data : Append_(data) \/ Prepend(data)
  \/ \E n \in 0 .. Len(content) : DropFirst(n) \/ DropLast(n)
  \/ \E w \in Widths : TakeInt(w)
  \/ \E end \in {<<CR, LF>>, <<LF>>}, skip \in 0 .. Len(content) : TakeLine(end, skip)

Spec == Init /\ [][Next]_<<content, got, line>>
================================================================================
