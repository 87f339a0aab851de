----------------------------- MODULE BitmapMachine -----------------------------
(***************************************************************************)
(* A few string keys under SET, SETBIT and BITOP, seen through GETBIT and  *)
(* BITCOUNT.  A missing key reads as the empty string in every bitmap      *)
(* command, so it is the empty string here; types and expiry are in Store. *)
(***************************************************************************)
EXTENDS Bitmaps

CONSTANTS Keys,        \* names of the strings
          Offsets,     \* the offsets SETBIT is called with
          SourceLists, \* the lists of source keys BITOP is called with
          Values,      \* the strings SET is called with
          MaxIndex     \* BITCOUNT indices range over -MaxIndex .. MaxIndex

ASSUME BitmapAssumption ==
  /\ Offsets \subseteq Nat
  /\ SourceLists \subseteq Seq(Keys) \ {<<>>}
  /\ Values \subseteq String
  /\ MaxIndex \in Nat

VARIABLE value         \* value[k]: the bytes of key k

vars == <<value>>

Init == value = [k \in Keys |-> <<>>]

Set(k, v) == value' = [value EXCEPT ![k] = v]

Setbit(k, offset, bit) ==
  value' = [value EXCEPT ![k] = SetBit(@, offset, bit)]

Bitop(op, dest, sources) ==
  /\ op = "NOT" => Len(sources) = 1
  /\ value' = [value EXCEPT
                 ![dest] = BitOp(op, [j \in DOMAIN sources |-> value[sources[j]]])]

Next ==
  \/ \E k \in Keys, v \in Values : Set(k, v)
  \/ \E k \in Keys, offset \in Offsets, bit \in Bit : Setbit(k, offset, bit)
  \/ \E op \in BitOps, dest \in Keys, sources \in SourceLists : Bitop(op, dest, sources)

Spec == Init /\ [][Next]_vars

-------------------------------------------------------------------------------

(* The offsets at which GETBIT answers 1. *)
OnesOf(v) == {p \in 0 .. Len(v) * ByteBits - 1 : GetBit(v, p) = 1}

Abstract == INSTANCE BitSets WITH
  Unit      <- ByteBits,
  Positions <- Offsets,
  KeyLists  <- SourceLists,
  Sizes     <- {Len(v) : v \in Values},
  ones      <- [k \in Keys |-> OnesOf(value[k])],
  size      <- [k \in Keys |-> Len(value[k])]

(* SETBIT and BITOP on bytes implement the operations on sets of offsets:  *)
(* growing a string (bitmaps.cpp:63) adds zero bits only, a bit written at *)
(* an offset is the one GETBIT reads there and disturbs no other, and      *)
(* BITOP (bitmaps.cpp:172) is intersection, union, parity and complement   *)
(* however the lengths of its sources differ.                              *)
ImplementsBitSets == Abstract!Spec

(* The units that an inclusive range names, as a definition over the whole *)
(* string: what is left of it once a negative index counts from the end    *)
(* and everything before the start of the string means its first unit.     *)
Named(length, start, end) ==
  LET at(i) == IF i >= 0 THEN i ELSE IF i + length >= 0 THEN i + length ELSE 0
  IN  {u \in 0 .. length - 1 : at(start) <= u /\ u <= at(end)}

(* BITCOUNT over a range (bitmaps.cpp:115-144) counts exactly the ones of  *)
(* the units the range names: the masks of the first and the last byte     *)
(* lose no bit and count none twice, also when both fall on one byte.      *)
CountsNamedUnits ==
  \A k \in Keys :
    LET v    == value[k]
        ones == OnesOf(v)
    IN  \A start, end \in -MaxIndex .. MaxIndex :
          LET reversed == start < 0 /\ end < 0 /\ start > end
              bits(length, width) ==
                {p \in ones : ~reversed /\ p \div width \in Named(length, start, end)}
          IN  /\ BitCount(v, start, end, "BYTE") = Cardinality(bits(Len(v), ByteBits))
              /\ BitCount(v, start, end, "BIT") = Cardinality(bits(Len(v) * ByteBits, 1))

===============================================================================
