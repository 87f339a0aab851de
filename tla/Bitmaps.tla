------------------------------- MODULE Bitmaps -------------------------------
(***************************************************************************)
(* Strings as the bitmap commands see them (src/store/bitmaps.cpp).        *)
(* A string is a sequence of bytes and a byte a function from bit          *)
(* positions to {0, 1}; position 0 is the most significant bit, the one    *)
(* the mask 0x80 selects.  ByteBits is 8 in the code.                      *)
(***************************************************************************)
EXTENDS Integers, Sequences, FiniteSets

CONSTANT ByteBits

ASSUME ByteBitsAssumption == ByteBits \in Nat \ {0}

Bit == {0, 1}

BitPos == 0 .. ByteBits - 1

Byte == [BitPos -> Bit]

String == Seq(Byte)

ZeroByte == [b \in BitPos |-> 0]

BitOps == {"AND", "OR", "XOR", "NOT"}

(* value.resize(index + 1, '\0'), done only when index >= value.size(). *)
Resize(v, n) ==
  IF n <= Len(v)
  THEN v
  ELSE [i \in 1 .. n |-> IF i <= Len(v) THEN v[i] ELSE ZeroByte]

(* The bit GETBIT answers, and the previous bit SETBIT answers. *)
GetBit(v, offset) ==
  LET index == offset \div ByteBits
  IN  IF index >= Len(v) THEN 0 ELSE v[index + 1][offset % ByteBits]

(* The string SETBIT leaves behind. *)
SetBit(v, offset, bit) ==
  LET index == offset \div ByteBits
      grown == Resize(v, index + 1)
  IN  [grown EXCEPT ![index + 1] = [@ EXCEPT ![offset % ByteBits] = bit]]

(* Mutant of ClampedRange: a negative index is resolved one place too low. *)
ClampedRangeOffByOne(length, start, end) ==
  LET resolve(i) == IF i < 0 THEN i + length - 1 ELSE i
      max0(i)    == IF i < 0 THEN 0 ELSE i
      last       == max0(resolve(end))
  IN  [first |-> max0(resolve(start)),
       last  |-> IF last > length - 1 THEN length - 1 ELSE last]

(* The range of BITCOUNT after the negative indices are resolved and both  *)
(* ends clamped; it is empty when first > last.  The form without a range  *)
(* is start = 0, end = LLONG_MAX, which the last clamp cuts to the length.  *)
ClampedRange(length, start, end) ==
  LET resolve(i) == IF i < 0 THEN i + length ELSE i
      max0(i)    == IF i < 0 THEN 0 ELSE i
      last       == max0(resolve(end))
  IN  [first |-> max0(resolve(start)),
       last  |-> IF last > length - 1 THEN length - 1 ELSE last]

(* BITCOUNT: the loop over the bytes of the range adds up the bits that    *)
(* are left of each byte when the masks of the first and of the last byte  *)
(* have been applied.                                                      *)
BitCount(v, start, end, unit) ==
  LET width == IF unit = "BIT" THEN ByteBits ELSE 1
      range == ClampedRange(Len(v) * width, start, end)
      first == IF unit = "BIT" THEN range.first ELSE range.first * ByteBits
      last  == IF unit = "BIT" THEN range.last
                               ELSE range.last * ByteBits + (ByteBits - 1)
      kept(i, b) == /\ v[i + 1][b] = 1
                    /\ i = first \div ByteBits => b >= first % ByteBits
                    /\ i = last \div ByteBits => b <= last % ByteBits
  IN  IF (start < 0 /\ end < 0 /\ start > end) \/ range.first > range.last
      THEN 0
      ELSE Cardinality({p \in (first \div ByteBits .. last \div ByteBits) \X BitPos :
                          kept(p[1], p[2])})

(* Mutant of Longest: the first source decides the length of the result. *)
LengthOfFirst(sources) == Len(sources[1])

(* The length of the longest source of BITOP. *)
Longest(sources) ==
  CHOOSE n \in {Len(sources[j]) : j \in DOMAIN sources} :
    \A j \in DOMAIN sources : Len(sources[j]) <= n

(* BITOP: byte i of the result combines the i-th bytes of the sources, a   *)
(* source that has no such byte standing for zeros.  XOR over any number   *)
(* of sources is the parity of the ones.                                   *)
BitOp(op, sources) ==
  LET input(j, i, b) == IF i <= Len(sources[j]) THEN sources[j][i][b] ELSE 0
      ones(i, b)     == {j \in DOMAIN sources : input(j, i, b) = 1}
      combined(i, b) ==
        CASE op = "AND" -> IF ones(i, b) = DOMAIN sources THEN 1 ELSE 0
          [] op = "OR"  -> IF ones(i, b) # {} THEN 1 ELSE 0
          [] op = "XOR" -> Cardinality(ones(i, b)) % 2
          [] op = "NOT" -> 1 - input(1, i, b)
  IN  [i \in 1 .. Longest(sources) |-> [b \in BitPos |-> combined(i, b)]]

===============================================================================
