------------------------------- MODULE BitSets -------------------------------
(***************************************************************************)
(* What the bitmap commands promise, without bytes, masks or growth: each  *)
(* key holds the set of offsets whose bit is one, and a length in bytes    *)
(* that SETBIT never reduces.  BITOP is set algebra.                       *)
(***************************************************************************)
EXTENDS Integers, FiniteSets

CONSTANTS Keys,      \* names of the bit sets
          Unit,      \* the number of bits in a byte
          Positions, \* the offsets of SETBIT
          KeyLists,  \* the source lists of BITOP, never empty
          Sizes      \* the lengths in bytes of what SET stores

VARIABLES ones, size

Init == ones = [k \in Keys |-> {}] /\ size = [k \in Keys |-> 0]

Within(n) == 0 .. n * Unit - 1

(* SET replaces the bits of a key. *)
Replace(k, n, S) ==
  /\ ones' = [ones EXCEPT ![k] = S]
  /\ size' = [size EXCEPT ![k] = n]

Larger(m, n) == IF m >= n THEN m ELSE n

SetBit(k, offset, bit) ==
  /\ ones' = [ones EXCEPT ![k] = IF bit = 1 THEN @ \cup {offset} ELSE @ \ {offset}]
  /\ size' = [size EXCEPT ![k] = Larger(@, offset \div Unit + 1)]

Combine(op, keys, n) ==
  LET holders(p) == {j \in DOMAIN keys : p \in ones[keys[j]]}
  IN  {p \in Within(n) : CASE op = "AND" -> holders(p) = DOMAIN keys
                           [] op = "OR"  -> holders(p) # {}
                           [] op = "XOR" -> Cardinality(holders(p)) % 2 = 1
                           [] op = "NOT" -> p \notin ones[keys[1]]}

(* The result is as long as the longest source. *)
BitOp(op, dest, keys) ==
  \E n \in {size[keys[j]] : j \in DOMAIN keys} :
    /\ \A j \in DOMAIN keys : size[keys[j]] <= n
    /\ Replace(dest, n, Combine(op, keys, n))

Next ==
  \/ \E k \in Keys, n \in Sizes : \E S \in SUBSET Within(n) : Replace(k, n, S)
  \/ \E k \in Keys, offset \in Positions, bit \in {0, 1} : SetBit(k, offset, bit)
  \/ \E op \in {"AND", "OR", "XOR", "NOT"}, dest \in Keys, keys \in KeyLists :
       BitOp(op, dest, keys)

Spec == Init /\ [][Next]_<<ones, size>>

===============================================================================
