----------------------------- MODULE StreamProofs -----------------------------
(***************************************************************************)
(* The stream of StreamReader for every base and width of a word, any      *)
(* clock and any ID arguments.                                             *)
(***************************************************************************)
EXTENDS StreamReader, TLAPS, FiniteSetTheorems, WellFoundedInduction

-------------------------------------------------------------------------------
(* Induction on natural numbers, stated for sets: what holds of 0 and      *)
(* passes from each number to the next is taken as the set of the numbers  *)
(* it holds of.                                                            *)

(* A set of natural numbers has a least element. *)
LEMMA LeastExists ==
  ASSUME NEW I \in SUBSET Nat, I # {}
  PROVE  \E i \in I : \A j \in I : i <= j
<1>1. PICK R : IsWellFoundedOn(R, Nat) /\ \A i, j \in Nat : <<i, j>> \in R <=> i < j
  <2>1. \A i, j \in Nat : <<i, j>> \in OpToRel(<, Nat) <=> i < j
    BY Zenon DEF OpToRel
  <2> QED BY <2>1, NatLessThanWellFounded, Zenon
<1>2. PICK i \in I : \A j \in I : ~ (<<j, i>> \in R)
  <2>1. IsWellFoundedOn(R, Nat) /\ I \subseteq Nat
    BY <1>1
  <2> QED BY <2>1, WFMin, Zenon
<1>3. \A j \in I : ~ (j < i)
  BY <1>1, <1>2, Zenon
<1> QED BY <1>3

(* A set that holds 0, and the successor of what it holds, up to n. *)
LEMMA UpTo ==
  ASSUME NEW n \in Nat, NEW S, 0 \in S, \A i \in 0 .. n - 1 : i \in S => i + 1 \in S
  PROVE  \A i \in 0 .. n : i \in S
<1> SUFFICES ASSUME NEW k \in 0 .. n, k \notin S PROVE FALSE
  BY Zenon
<1> DEFINE I == {i \in 0 .. n : i \notin S}
<1>1. I \in SUBSET Nat /\ I # {}
  <2>1. k \in I
    BY Zenon
  <2> QED BY <2>1
<1>2. PICK i \in I : \A j \in I : i <= j
  BY Zenon, <1>1, LeastExists
<1>3. i \in 0 .. n /\ i \notin S /\ i # 0
  BY Zenon, <1>2
<1>4. i - 1 \in 0 .. n - 1 /\ i - 1 \in 0 .. n /\ ~ (i <= i - 1) /\ (i - 1) + 1 = i
  BY <1>3
<1>5. i - 1 \in S
  BY Zenon, <1>2, <1>4
<1> QED
  BY Zenon, <1>3, <1>4, <1>5

-------------------------------------------------------------------------------
(* Words and their digits. *)

(* Quotient and remainder. *)
LEMMA DivMod ==
  ASSUME NEW x \in Nat, NEW d \in Nat \ {0}
  PROVE  /\ x \div d \in Nat /\ x % d \in 0 .. d - 1
         /\ x = d * (x \div d) + (x % d)
OBVIOUS

(* They are determined by what they satisfy. *)
LEMMA DivUnique ==
  ASSUME NEW x \in Nat, NEW d \in Nat \ {0}, NEW q \in Nat, NEW r \in 0 .. d - 1, x = d * q + r
  PROVE  x \div d = q /\ x % d = r
OBVIOUS

(* The quotient of a greater number is no smaller. *)
LEMMA DivMonotone ==
  ASSUME NEW x \in Nat, NEW y \in Nat, x <= y, NEW d \in Nat \ {0}
  PROVE  x \div d <= y \div d
OBVIOUS

(* Dividing by d and then by b is dividing by b * d. *)
LEMMA DivTwice ==
  ASSUME NEW x \in Nat, NEW d \in Nat \ {0}, NEW b \in Nat \ {0}
  PROVE  x \div d = b * (x \div (b * d)) + ((x \div d) % b)
<1> DEFINE q == x \div d
           s == x % d
           h == q \div b
           r == q % b
<1>1. q \in Nat /\ s \in 0 .. d - 1 /\ x = d * q + s
  BY Zenon, DivMod
<1>2. h \in Nat /\ r \in 0 .. b - 1 /\ q = b * h + r
  BY Zenon, <1>1, DivMod
<1> HIDE DEF q, s, h, r
<1>3. d * r + s \in Nat /\ d * r + s <= b * d - 1
  <2>1. d * r <= d * (b - 1)
    BY <1>2
  <2> QED BY <1>1, <1>2, <2>1
<1>4. x = (b * d) * h + (d * r + s)
  BY <1>1, <1>2
<1>5. b * d \in Nat \ {0} /\ d * r + s \in 0 .. (b * d) - 1
  BY <1>3
<1>6. x \div (b * d) = h
  BY <1>2, <1>4, <1>5, DivUnique
<1> QED BY Zenon, <1>2, <1>6 DEF q, r

(* The powers of the base. *)
LEMMA PowerFacts ==
  /\ Power[0] = 1
  /\ \A n \in 0 .. Digits - 1 : Power[n + 1] = Base * Power[n]
  /\ \A n \in 0 .. Digits : Power[n] \in Nat \ {0}
<1>1. Digits \in Nat /\ Base \in Nat /\ Base > 1
  BY WordAssumption
<1> DEFINE Rule(f, m) == f = [n \in 0 .. m |-> IF n = 0 THEN 1 ELSE Base * f[n - 1]]
           S == {m \in 0 .. Digits : \E f : Rule(f, m)}
<1>2. 0 \in S
  <2> DEFINE f == [n \in 0 .. 0 |-> 1]
  <2>1. Rule(f, 0)
    OBVIOUS
  <2>2. 0 \in 0 .. Digits
    BY <1>1
  <2> HIDE DEF f, Rule
  <2> QED BY Zenon, <2>1, <2>2
<1>3. ASSUME NEW m \in 0 .. Digits - 1, m \in S PROVE m + 1 \in S
  <2>1. PICK f : Rule(f, m)
    BY Zenon, <1>3
  <2> DEFINE g == [n \in 0 .. m + 1 |-> IF n = m + 1 THEN Base * f[m] ELSE f[n]]
  <2>2. ASSUME NEW n \in 0 .. m + 1 PROVE g[n] = IF n = 0 THEN 1 ELSE Base * g[n - 1]
    <3>1. CASE n = m + 1
      BY <3>1
    <3>2. CASE n # m + 1
      BY <2>1, <3>2
    <3> QED BY <3>1, <3>2
  <2>3. Rule(g, m + 1)
    BY Zenon, <2>2
  <2>4. m + 1 \in 0 .. Digits
    BY <1>1
  <2> HIDE DEF g, Rule
  <2> QED BY Zenon, <2>3, <2>4
<1>4. \E f : Rule(f, Digits)
  <2>1. \A i \in 0 .. Digits : i \in S
    <3> HIDE DEF S
    <3> QED BY Zenon, <1>1, <1>2, <1>3, UpTo
  <2>2. Digits \in 0 .. Digits
    BY <1>1
  <2> HIDE DEF Rule
  <2> QED BY Zenon, <2>1, <2>2
<1>5. Rule(Power, Digits)
  BY Zenon, <1>4 DEF Power
<1>6. Power[0] = 1
  BY <1>1, <1>5
<1>7. ASSUME NEW n \in 0 .. Digits - 1 PROVE Power[n + 1] = Base * Power[n]
  BY <1>1, <1>5
<1> DEFINE T == {n \in 0 .. Digits : Power[n] \in Nat \ {0}}
<1>8. 0 \in T
  BY <1>1, <1>6
<1>9. ASSUME NEW n \in 0 .. Digits - 1, n \in T PROVE n + 1 \in T
  <2>1. Power[n] \in Nat \ {0} /\ Power[n + 1] = Base * Power[n]
    BY Zenon, <1>7, <1>9
  <2>2. Base * Power[n] \in Nat \ {0}
    BY <1>1, <2>1
  <2> QED BY <1>1, <2>1, <2>2
<1>10. \A n \in 0 .. Digits : n \in T
  <2> HIDE DEF T, Rule
  <2> QED BY Zenon, <1>1, <1>8, <1>9, UpTo
<1> QED BY Zenon, <1>6, <1>7, <1>10

(* The word without its last Digits - i digits, and its i-th digit. *)
Quot(word, i) == word \div Power[Digits - i]

Digit(word, i) == Quot(word, i) % Base

(* The digits of a word build it up, the most significant first. *)
LEMMA DigitFacts ==
  ASSUME NEW word \in Word
  PROVE  /\ Quot(word, 0) = 0
         /\ Quot(word, Digits) = word
         /\ \A i \in 0 .. Digits : Quot(word, i) \in Nat
         /\ \A i \in 1 .. Digits : /\ Digit(word, i) \in Nat
                                   /\ Quot(word, i) = Base * Quot(word, i - 1) + Digit(word, i)
<1>1. Digits \in Nat \ {0} /\ Base \in Nat \ {0}
  BY WordAssumption
<1>2. word \in Nat /\ word < Power[Digits] /\ Power[Digits] \in Nat \ {0}
  BY <1>1, PowerFacts DEF Word, MaxWord
<1>3. Quot(word, 0) = 0
  <2>1. Digits - 0 = Digits
    BY <1>1
  <2>2. word = Power[Digits] * 0 + word /\ word \in 0 .. Power[Digits] - 1
    BY <1>2
  <2> QED BY <1>2, <2>1, <2>2, DivUnique DEF Quot
<1>4. Quot(word, Digits) = word
  <2>1. Digits - Digits = 0
    BY <1>1
  <2> QED BY <1>2, <2>1, PowerFacts DEF Quot
<1>5. ASSUME NEW i \in 0 .. Digits PROVE Quot(word, i) \in Nat
  <2>1. Digits - i \in 0 .. Digits
    BY <1>1
  <2> QED BY Zenon, <1>2, <2>1, PowerFacts, DivMod DEF Quot
<1>6. ASSUME NEW i \in 1 .. Digits
      PROVE  Digit(word, i) \in Nat /\ Quot(word, i) = Base * Quot(word, i - 1) + Digit(word, i)
  <2>1. Digits - i \in 0 .. Digits - 1 /\ Digits - i \in 0 .. Digits
        /\ Digits - (i - 1) = (Digits - i) + 1 /\ i \in 0 .. Digits
    BY <1>1
  <2>2. Power[Digits - i] \in Nat \ {0} /\ Power[Digits - (i - 1)] = Base * Power[Digits - i]
    BY Zenon, <2>1, PowerFacts
  <2>3. Quot(word, i) \in Nat
    BY Zenon, <1>5, <2>1
  <2>4. Digit(word, i) \in Nat
    BY <1>1, <2>3, DivMod DEF Digit
  <2>5. Quot(word, i) = Base * Quot(word, i - 1) + Digit(word, i)
    <3>1. PICK d \in Nat \ {0} : d = Power[Digits - i]
      BY Zenon, <2>2
    <3>2. word \div d = Base * (word \div (Base * d)) + ((word \div d) % Base)
      BY Zenon, <1>1, <1>2, DivTwice
    <3> QED BY Zenon, <2>2, <3>1, <3>2 DEF Quot, Digit
  <2> QED BY Zenon, <2>4, <2>5
<1> QED BY Zenon, <1>3, <1>4, <1>5, <1>6

(* The first digit in which two words differ tells which is smaller. *)
LEMMA DigitOrder ==
  ASSUME NEW x \in Word, NEW y \in Word, x < y
  PROVE  \E i \in 1 .. Digits : /\ Digit(x, i) < Digit(y, i)
                                /\ \A j \in 1 .. i - 1 : Digit(x, j) = Digit(y, j)
<1>1. Digits \in Nat \ {0} /\ Base \in Nat \ {0} /\ x \in Nat /\ y \in Nat
  BY WordAssumption DEF Word
<1> DEFINE S == {i \in 0 .. Digits : Quot(x, i) # Quot(y, i)}
<1>2. Digits \in S
  <2>1. Digits \in 0 .. Digits
    BY <1>1
  <2>2. x # y
    BY <1>1
  <2> QED BY Zenon, <2>1, <2>2, DigitFacts
<1>3. PICK i \in S : \A j \in S : i <= j
  <2>1. S \subseteq Nat /\ S # {}
    BY <1>1, <1>2
  <2> HIDE DEF S
  <2> QED BY Zenon, <2>1, LeastExists
<1>4. i \in 1 .. Digits
  <2>1. i # 0
    BY Zenon, DigitFacts
  <2> QED BY <1>1, <2>1
<1>5. ASSUME NEW j \in 0 .. i - 1 PROVE Quot(x, j) = Quot(y, j)
  BY <1>1, <1>3, <1>4
<1>6. Digit(x, i) < Digit(y, i)
  <2>1. i - 1 \in 0 .. i - 1 /\ Digits - i \in 0 .. Digits /\ i \in 0 .. Digits
    BY <1>1, <1>4
  <2>2. Quot(x, i - 1) = Quot(y, i - 1) /\ Quot(x, i) # Quot(y, i)
    BY Zenon, <1>5, <2>1
  <2>3. Quot(x, i) <= Quot(y, i)
    <3>1. Power[Digits - i] \in Nat \ {0} /\ x <= y
      BY <1>1, <2>1, PowerFacts
    <3> QED BY Zenon, <1>1, <3>1, DivMonotone DEF Quot
  <2>4. /\ Quot(x, i) \in Nat /\ Quot(y, i) \in Nat
        /\ Digit(x, i) \in Nat /\ Digit(y, i) \in Nat
        /\ Quot(x, i) = Base * Quot(x, i - 1) + Digit(x, i)
        /\ Quot(y, i) = Base * Quot(y, i - 1) + Digit(y, i)
        /\ Quot(x, i - 1) \in Nat
    <3>1. i - 1 \in 0 .. Digits
      BY <1>1, <1>4
    <3> QED BY Zenon, <1>4, <2>1, <3>1, DigitFacts
  <2> QED BY <1>1, <2>2, <2>3, <2>4
<1>7. ASSUME NEW j \in 1 .. i - 1 PROVE Digit(x, j) = Digit(y, j)
  <2>1. j \in 0 .. i - 1
    BY <1>1, <1>4
  <2> QED BY Zenon, <1>5, <2>1 DEF Digit
<1> QED BY Zenon, <1>4, <1>6, <1>7

-------------------------------------------------------------------------------
(* IDs and their keys in the tree. *)

(* A key is the digits of the milliseconds and then those of the sequence. *)
LEMMA KeyDigits ==
  ASSUME NEW id \in StreamID
  PROVE  /\ DOMAIN encode_id(id) = 1 .. 2 * Digits
         /\ \A i \in 1 .. 2 * Digits : encode_id(id)[i] \in Int
         /\ \A i \in 1 .. Digits : encode_id(id)[i] = Digit(id.ms, i)
         /\ \A i \in 1 .. Digits : encode_id(id)[Digits + i] = Digit(id.seq, i)
<1>1. Digits \in Nat \ {0}
  BY WordAssumption
<1>2. id.ms \in Word /\ id.seq \in Word
  BY DEF StreamID
<1>3. encode_id(id) = [i \in 1 .. 2 * Digits |->
         IF i <= Digits THEN Digit(id.ms, i) ELSE Digit(id.seq, i - Digits)]
  BY Zenon DEF encode_id, Digit, Quot
<1>4. \A i \in 1 .. Digits : Digit(id.ms, i) \in Nat /\ Digit(id.seq, i) \in Nat
  BY Zenon, <1>2, DigitFacts
<1>5. ASSUME NEW i \in 1 .. 2 * Digits PROVE encode_id(id)[i] \in Int
  <2>1. i <= Digits => i \in 1 .. Digits
    BY <1>1
  <2>2. ~(i <= Digits) => i - Digits \in 1 .. Digits
    BY <1>1
  <2> QED BY <1>3, <1>4, <2>1, <2>2
<1>6. ASSUME NEW i \in 1 .. Digits PROVE encode_id(id)[i] = Digit(id.ms, i)
  <2>1. i \in 1 .. 2 * Digits /\ i <= Digits
    BY <1>1
  <2> QED BY Zenon, <1>3, <2>1
<1>7. ASSUME NEW i \in 1 .. Digits PROVE encode_id(id)[Digits + i] = Digit(id.seq, i)
  <2>1. Digits + i \in 1 .. 2 * Digits /\ ~(Digits + i <= Digits) /\ (Digits + i) - Digits = i
    BY <1>1
  <2> QED BY Zenon, <1>3, <2>1
<1> QED BY Zenon, <1>3, <1>5, <1>6, <1>7

(* A key of the tree. *)
Keys == [1 .. 2 * Digits -> Int]

(* The order of keys is asymmetric. *)
LEMMA KeyOrder ==
  ASSUME NEW x \in Keys, NEW y \in Keys, KeyLess(x, y)
  PROVE  x # y /\ ~KeyLess(y, x)
<1>1. Digits \in Nat \ {0}
  BY WordAssumption
<1>2. PICK i \in 1 .. 2 * Digits : x[i] < y[i] /\ \A j \in 1 .. i - 1 : x[j] = y[j]
  BY Zenon DEF KeyLess, Keys
<1>3. x[i] \in Int /\ y[i] \in Int
  BY Zenon DEF Keys
<1>4. x # y
  BY <1>2, <1>3
<1>5. ASSUME NEW k \in 1 .. 2 * Digits, y[k] < x[k], \A j \in 1 .. k - 1 : y[j] = x[j]
      PROVE  FALSE
  <2>1. x[k] \in Int /\ y[k] \in Int
    BY Zenon DEF Keys
  <2>2. i \in 1 .. k - 1 \/ k \in 1 .. i - 1 \/ i = k
    BY <1>1
  <2>3. x[i] # y[i] /\ x[k] # y[k]
    BY <1>2, <1>3, <1>5, <2>1
  <2>4. i = k
    BY Zenon, <1>2, <1>5, <2>2, <2>3
  <2> QED BY <1>2, <1>3, <1>5, <2>4
<1>6. ~KeyLess(y, x)
  BY Zenon, <1>5 DEF KeyLess, Keys
<1> QED BY Zenon, <1>4, <1>6

(* A smaller ID has a smaller key. *)
LEMMA EncodeKeeps ==
  ASSUME NEW a \in StreamID, NEW b \in StreamID, IdLess(a, b)
  PROVE  KeyLess(encode_id(a), encode_id(b))
<1>1. Digits \in Nat \ {0}
  BY WordAssumption
<1>2. a.ms \in Word /\ a.seq \in Word /\ b.ms \in Word /\ b.seq \in Word
  BY DEF StreamID
<1> DEFINE x == encode_id(a)
           y == encode_id(b)
<1>3. CASE a.ms < b.ms
  <2>1. PICK i \in 1 .. Digits : /\ Digit(a.ms, i) < Digit(b.ms, i)
                                 /\ \A j \in 1 .. i - 1 : Digit(a.ms, j) = Digit(b.ms, j)
    BY Zenon, <1>2, <1>3, DigitOrder
  <2>2. i \in 1 .. 2 * Digits /\ \A j \in 1 .. i - 1 : j \in 1 .. Digits
    BY <1>1
  <2>3. x[i] < y[i] /\ \A j \in 1 .. i - 1 : x[j] = y[j]
    BY ZenonT(60), <2>1, <2>2, KeyDigits
  <2> QED BY Zenon, <2>2, <2>3, KeyDigits DEF KeyLess
<1>4. CASE a.ms = b.ms /\ a.seq < b.seq
  <2>1. PICK i \in 1 .. Digits : /\ Digit(a.seq, i) < Digit(b.seq, i)
                                 /\ \A j \in 1 .. i - 1 : Digit(a.seq, j) = Digit(b.seq, j)
    BY Zenon, <1>2, <1>4, DigitOrder
  <2>2. Digits + i \in 1 .. 2 * Digits
    BY <1>1
  <2>3. x[Digits + i] < y[Digits + i]
    BY Zenon, <2>1, KeyDigits
  <2>4. ASSUME NEW j \in 1 .. (Digits + i) - 1 PROVE x[j] = y[j]
    <3>1. CASE j \in 1 .. Digits
      BY ZenonT(90), <1>4, <3>1, KeyDigits
    <3>2. CASE j \notin 1 .. Digits
      <4>1. j - Digits \in 1 .. i - 1 /\ j - Digits \in 1 .. Digits /\ Digits + (j - Digits) = j
        BY <1>1, <3>2
      <4>2. Digit(a.seq, j - Digits) = Digit(b.seq, j - Digits)
        BY Zenon, <2>1, <4>1
      <4>3. x[Digits + (j - Digits)] = y[Digits + (j - Digits)]
        BY ZenonT(60), <4>1, <4>2, KeyDigits
      <4> QED BY Zenon, <4>1, <4>3
    <3> QED BY Zenon, <3>1, <3>2
  <2> QED BY Zenon, <2>2, <2>3, <2>4, KeyDigits DEF KeyLess
<1> QED BY Zenon, <1>3, <1>4 DEF IdLess

(* operator< on IDs is a strict total order. *)
LEMMA IdOrder ==
  /\ \A a, b \in StreamID : a = b \/ IdLess(a, b) \/ IdLess(b, a)
  /\ \A a, b \in StreamID : IdLess(a, b) => ~IdLess(b, a) /\ a # b
  /\ \A a, b, c \in StreamID : IdLess(a, b) /\ IdLess(b, c) => IdLess(a, c)
<1>1. ASSUME NEW a \in StreamID
      PROVE  a.ms \in Int /\ a.seq \in Int /\ a = ID(a.ms, a.seq)
  BY WordAssumption DEF StreamID, Word, ID
<1>2. ASSUME NEW a \in StreamID, NEW b \in StreamID
      PROVE  /\ a = b \/ IdLess(a, b) \/ IdLess(b, a)
             /\ IdLess(a, b) => ~IdLess(b, a) /\ a # b
  <2>1. PICK m \in Int, q \in Int : a = ID(m, q) /\ a.ms = m /\ a.seq = q
    BY Zenon, <1>1
  <2>2. PICK n \in Int, r \in Int : b = ID(n, r) /\ b.ms = n /\ b.seq = r
    BY Zenon, <1>1
  <2>3. m = n /\ q = r => a = b
    BY Zenon, <2>1, <2>2
  <2> QED BY <2>1, <2>2, <2>3 DEF IdLess
<1>3. ASSUME NEW a \in StreamID, NEW b \in StreamID, NEW c \in StreamID,
             IdLess(a, b), IdLess(b, c)
      PROVE  IdLess(a, c)
  <2>1. /\ a.ms \in Int /\ a.seq \in Int /\ b.ms \in Int /\ b.seq \in Int
        /\ c.ms \in Int /\ c.seq \in Int
    BY Zenon, <1>1
  <2> QED BY <1>3, <2>1 DEF IdLess
<1> QED BY Zenon, <1>2, <1>3

(* The tree's order of two keys is the order of their IDs                  *)
(* (write_u64_be, stream.cpp:51).                                          *)
LEMMA EncodeOrder ==
  ASSUME NEW a \in StreamID, NEW b \in StreamID
  PROVE  /\ KeyLess(encode_id(a), encode_id(b)) <=> IdLess(a, b)
         /\ encode_id(a) = encode_id(b) <=> a = b
<1> DEFINE x == encode_id(a)
           y == encode_id(b)
<1>1. x \in Keys /\ y \in Keys
  <2>1. \A id \in StreamID : encode_id(id) = [i \in 1 .. 2 * Digits |-> encode_id(id)[i]]
    BY Zenon DEF encode_id
  <2> QED BY Zenon, <2>1, KeyDigits DEF Keys
<1>2. IdLess(a, b) => KeyLess(x, y)
  BY Zenon, EncodeKeeps
<1>3. IdLess(b, a) => KeyLess(y, x)
  BY Zenon, EncodeKeeps
<1>4. a = b \/ IdLess(a, b) \/ IdLess(b, a)
  BY Zenon, IdOrder
<1> HIDE DEF x, y
<1>5. a = b => x = y
  BY Zenon DEF x, y
<1>6. (KeyLess(x, y) <=> IdLess(a, b)) /\ (x = y <=> a = b)
  BY Zenon, <1>1, <1>2, <1>3, <1>4, <1>5, KeyOrder
<1> QED BY Zenon, <1>6 DEF x, y

(* The values read_u64_be (stream.cpp:66) goes through. *)
Reading(key, from) ==
  CHOOSE f : f = [i \in 0 .. Digits |-> IF i = 0 THEN 0 ELSE f[i - 1] * Base + key[from + i]]

(* Reading the digits of a word gives the word. *)
LEMMA ReadBack ==
  ASSUME NEW word \in Word, NEW key, NEW from,
         \A i \in 1 .. Digits : key[from + i] = Digit(word, i)
  PROVE  Reading(key, from)[Digits] = word
<1>1. Digits \in Nat \ {0} /\ Base \in Nat \ {0}
  BY WordAssumption
<1> DEFINE f == [i \in 0 .. Digits |-> Quot(word, i)]
           value == Reading(key, from)
           S == {i \in 0 .. Digits : value[i] = Quot(word, i)}
<1>2. ASSUME NEW i \in 0 .. Digits PROVE f[i] = IF i = 0 THEN 0 ELSE f[i - 1] * Base + key[from + i]
  <2>1. CASE i = 0
    BY Zenon, <2>1, DigitFacts
  <2>2. CASE i # 0
    <3>1. i \in 1 .. Digits /\ i - 1 \in 0 .. Digits
      BY <1>1, <2>2
    <3>2. /\ Quot(word, i) = Base * Quot(word, i - 1) + Digit(word, i)
          /\ Quot(word, i - 1) \in Nat /\ Digit(word, i) \in Nat
      BY Zenon, <3>1, DigitFacts
    <3>3. Quot(word, i) = Quot(word, i - 1) * Base + Digit(word, i)
      BY <1>1, <3>2
    <3> QED BY Zenon, <2>2, <3>1, <3>3
  <2> QED BY Zenon, <2>1, <2>2
<1>3. f = [i \in 0 .. Digits |-> IF i = 0 THEN 0 ELSE f[i - 1] * Base + key[from + i]]
  BY Zenon, <1>2
<1> HIDE DEF f
<1>4. value = [i \in 0 .. Digits |-> IF i = 0 THEN 0 ELSE value[i - 1] * Base + key[from + i]]
  BY Zenon, <1>3 DEF Reading
<1> HIDE DEF value
<1>5. 0 \in S
  <2>1. 0 \in 0 .. Digits
    BY <1>1
  <2>2. value[0] = 0
    BY Zenon, <1>4, <2>1
  <2> QED BY Zenon, <2>1, <2>2, DigitFacts
<1>6. ASSUME NEW i \in 0 .. Digits - 1, i \in S PROVE i + 1 \in S
  <2>1. i + 1 \in 0 .. Digits /\ i + 1 \in 1 .. Digits /\ i + 1 # 0 /\ (i + 1) - 1 = i /\ i \in 0 .. Digits
    BY <1>1
  <2>2. value[i + 1] = Quot(word, i) * Base + Digit(word, i + 1)
    BY ZenonT(60), <1>4, <1>6, <2>1
  <2>3. /\ Quot(word, i + 1) = Base * Quot(word, i) + Digit(word, i + 1)
        /\ Quot(word, i) \in Nat /\ Digit(word, i + 1) \in Nat
    BY Zenon, <2>1, DigitFacts
  <2>4. Quot(word, i + 1) = Quot(word, i) * Base + Digit(word, i + 1)
    BY <1>1, <2>3
  <2> QED BY Zenon, <2>1, <2>2, <2>4
<1>7. Digits \in S
  <2>1. Digits \in 0 .. Digits /\ Digits \in Nat
    BY <1>1
  <2> HIDE DEF S
  <2> QED BY Zenon, <1>5, <1>6, <2>1, UpTo
<1> QED BY Zenon, <1>7, DigitFacts DEF value

(* Reading a key back gives the ID it was written from. *)
LEMMA DecodeEncode ==
  ASSUME NEW id \in StreamID
  PROVE  decode_id(encode_id(id)) = id
<1> DEFINE key == encode_id(id)
<1>1. id.ms \in Word /\ id.seq \in Word /\ id = ID(id.ms, id.seq)
  BY DEF StreamID, ID
<1>2. \A i \in 1 .. Digits : key[0 + i] = Digit(id.ms, i)
  <2>1. \A i \in 1 .. Digits : 0 + i = i
    BY WordAssumption
  <2> QED BY Zenon, <2>1, KeyDigits
<1>3. \A i \in 1 .. Digits : key[Digits + i] = Digit(id.seq, i)
  BY Zenon, KeyDigits
<1> HIDE DEF key
<1>4. Reading(key, 0)[Digits] = id.ms
  BY Zenon, <1>1, <1>2, ReadBack
<1>5. Reading(key, Digits)[Digits] = id.seq
  BY Zenon, <1>1, <1>3, ReadBack
<1>6. decode_id(key) = ID(Reading(key, 0)[Digits], Reading(key, Digits)[Digits])
  BY Zenon DEF decode_id, Reading
<1> QED BY Zenon, <1>1, <1>4, <1>5, <1>6 DEF key

-------------------------------------------------------------------------------
(* The keys of an ascending sequence of IDs, in the tree's order. *)

Ascending(ids) ==
  /\ ids \in Seq(StreamID)
  /\ \A i, j \in 1 .. Len(ids) : i < j => IdLess(ids[i], ids[j])

KeysOf(ids) == {encode_id(ids[i]) : i \in 1 .. Len(ids)}

(* Different IDs of the sequence have different keys. *)
LEMMA CountKeys ==
  ASSUME NEW ids, Ascending(ids), NEW n \in 0 .. Len(ids)
  PROVE  Cardinality({encode_id(ids[i]) : i \in 1 .. n}) = n
<1> DEFINE S == {encode_id(ids[i]) : i \in 1 .. n}
           f == [i \in 1 .. n |-> encode_id(ids[i])]
<1>1. Len(ids) \in Nat /\ \A i \in 1 .. Len(ids) : ids[i] \in StreamID
  BY DEF Ascending
<1>2. ASSUME NEW i \in 1 .. n, NEW j \in 1 .. n, f[i] = f[j] PROVE i = j
  <2>1. i \in 1 .. Len(ids) /\ j \in 1 .. Len(ids)
    BY <1>1
  <2>2. ids[i] = ids[j]
    BY Zenon, <1>1, <1>2, <2>1, EncodeOrder
  <2>3. ~IdLess(ids[i], ids[j]) /\ ~IdLess(ids[j], ids[i])
    BY Zenon, <1>1, <2>1, <2>2, IdOrder
  <2>4. ~(i < j) /\ ~(j < i)
    BY Zenon, <2>1, <2>3 DEF Ascending
  <2> QED BY <1>1, <2>4
<1>3. f \in Bijection(1 .. n, S)
  <2>1. f \in [1 .. n -> S]
    BY Zenon
  <2>2. \A t \in S : \E i \in 1 .. n : f[i] = t
    BY Zenon
  <2> HIDE DEF f, S
  <2> QED BY Zenon, <1>2, <2>1, <2>2 DEF Bijection, Injection, Surjection, IsInjective
<1>4. ExistsBijection(1 .. n, S)
  BY Zenon, <1>3 DEF ExistsBijection
<1>5. n \in Nat
  BY <1>1
<1> HIDE DEF S, f
<1>6. Cardinality(S) = n
  BY Zenon, <1>4, <1>5, FS_CountingElements
<1> QED BY Zenon, <1>6 DEF S

(* The tree iterates the keys of an ascending sequence in its order. *)
LEMMA InOrderKeys ==
  ASSUME NEW ids, Ascending(ids)
  PROVE  InOrder(KeysOf(ids)) = [i \in 1 .. Len(ids) |-> encode_id(ids[i])]
<1> DEFINE keys == KeysOf(ids)
           below(k) == {x \in keys : KeyLess(x, k)}
<1>1. Len(ids) \in Nat /\ \A i \in 1 .. Len(ids) : ids[i] \in StreamID
  BY DEF Ascending
<1>2. Cardinality(keys) = Len(ids)
  <2>1. Len(ids) \in 0 .. Len(ids)
    BY <1>1
  <2> QED BY Zenon, <2>1, CountKeys DEF KeysOf
<1>3. ASSUME NEW i \in 1 .. Len(ids) PROVE Cardinality(below(encode_id(ids[i]))) = i - 1
  <2>1. ASSUME NEW j \in 1 .. Len(ids)
        PROVE  KeyLess(encode_id(ids[j]), encode_id(ids[i])) <=> j \in 1 .. i - 1
    <3>1. KeyLess(encode_id(ids[j]), encode_id(ids[i])) <=> IdLess(ids[j], ids[i])
      BY Zenon, <1>1, EncodeOrder
    <3>2. CASE j < i
      <4>1. IdLess(ids[j], ids[i])
        BY Zenon, <3>2 DEF Ascending
      <4>2. j \in 1 .. i - 1
        BY <1>1, <3>2
      <4> QED BY Zenon, <3>1, <4>1, <4>2
    <3>3. CASE ~(j < i)
      <4>1. i = j \/ i < j
        BY <1>1, <3>3
      <4>2. ~IdLess(ids[j], ids[i])
        <5>1. CASE i = j
          BY Zenon, <1>1, <5>1, IdOrder
        <5>2. CASE i < j
          BY Zenon, <1>1, <5>2, IdOrder DEF Ascending
        <5> QED BY Zenon, <4>1, <5>1, <5>2
      <4>3. j \notin 1 .. i - 1
        BY <1>1, <3>3
      <4> QED BY Zenon, <3>1, <4>2, <4>3
    <3> QED BY Zenon, <3>2, <3>3
  <2>2. i - 1 \in 0 .. Len(ids) /\ \A j \in 1 .. i - 1 : j \in 1 .. Len(ids)
    BY <1>1
  <2>3. below(encode_id(ids[i])) = {encode_id(ids[j]) : j \in 1 .. i - 1}
    BY Zenon, <2>1, <2>2 DEF KeysOf
  <2> QED BY Zenon, <2>2, <2>3, CountKeys
<1>4. ASSUME NEW i \in 1 .. Len(ids)
      PROVE  (CHOOSE k \in keys : Cardinality(below(k)) = i - 1) = encode_id(ids[i])
  <2>1. encode_id(ids[i]) \in keys
    BY Zenon DEF KeysOf
  <2>2. ASSUME NEW k \in keys, Cardinality(below(k)) = i - 1 PROVE k = encode_id(ids[i])
    <3>1. PICK j \in 1 .. Len(ids) : k = encode_id(ids[j])
      BY Zenon DEF KeysOf
    <3>2. j - 1 = i - 1
      BY Zenon, <1>3, <2>2, <3>1
    <3>3. i = j
      BY <1>1, <3>2
    <3> QED BY Zenon, <3>1, <3>3
  <2> HIDE DEF below, keys
  <2> QED BY Zenon, <1>3, <2>1, <2>2
<1>5. InOrder(keys) = [i \in 1 .. Len(ids) |->
                         CHOOSE k \in keys : Cardinality(below(k)) = i - 1]
  BY Zenon, <1>2 DEF InOrder
<1> QED BY Zenon, <1>4, <1>5

-------------------------------------------------------------------------------
(* What a scan answers. *)

(* A set of positions that is closed downwards is an initial segment. *)
LEMMA InitialSegment ==
  ASSUME NEW n \in Nat, NEW S, S \subseteq 1 .. n,
         \A i \in S : \A j \in 1 .. n : j <= i => j \in S
  PROVE  \E p \in 0 .. n : \A i \in 1 .. n : i \in S <=> i <= p
<1> DEFINE T == {i \in 1 .. n + 1 : i \notin S}
<1>1. n + 1 \in T
  OBVIOUS
<1>2. PICK i \in T : \A j \in T : i <= j
  <2>1. T \subseteq Nat /\ T # {}
    BY <1>1
  <2> HIDE DEF T
  <2> QED BY Zenon, <2>1, LeastExists
<1>3. i - 1 \in 0 .. n
  OBVIOUS
<1>4. ASSUME NEW j \in 1 .. n PROVE j \in S <=> j <= i - 1
  <2>1. j \in S => ~(i <= j)
    <3>1. CASE i \in 1 .. n
      BY Zenon, <3>1
    <3>2. CASE i \notin 1 .. n
      BY <3>2
    <3> QED BY Zenon, <3>1, <3>2
  <2>2. j \notin S => i <= j
    BY <1>2
  <2> QED BY <2>1, <2>2
<1> QED BY Zenon, <1>3, <1>4

(* What is left of an ascending sequence ascends. *)
LEMMA TailAscends ==
  ASSUME NEW ids, Ascending(ids), NEW p \in 0 .. Len(ids)
  PROVE  /\ Ascending(SubSeq(ids, p + 1, Len(ids)))
         /\ Len(SubSeq(ids, p + 1, Len(ids))) = Len(ids) - p
         /\ \A i \in 1 .. Len(ids) - p : SubSeq(ids, p + 1, Len(ids))[i] = ids[p + i]
<1> DEFINE tail == SubSeq(ids, p + 1, Len(ids))
<1>1. ids \in Seq(StreamID) /\ Len(ids) \in Nat
  BY DEF Ascending
<1>2. tail \in Seq(StreamID) /\ Len(tail) = Len(ids) - p
  BY <1>1
<1>3. \A i \in 1 .. Len(ids) - p : tail[i] = ids[p + i]
  BY <1>1
<1> HIDE DEF tail
<1>4. ASSUME NEW i \in 1 .. Len(tail), NEW j \in 1 .. Len(tail), i < j
      PROVE  IdLess(tail[i], tail[j])
  <2>1. p + i \in 1 .. Len(ids) /\ p + j \in 1 .. Len(ids) /\ p + i < p + j
    BY <1>1, <1>2, <1>4
  <2>2. IdLess(ids[p + i], ids[p + j])
    BY Zenon, <2>1 DEF Ascending
  <2>3. tail[i] = ids[p + i] /\ tail[j] = ids[p + j]
    BY <1>2, <1>3
  <2> QED BY Zenon, <2>2, <2>3
<1>5. Ascending(tail)
  BY Zenon, <1>2, <1>4 DEF Ascending
<1> QED BY Zenon, <1>2, <1>3, <1>5 DEF tail

(* The first p IDs are below start, and the first q not beyond end. *)
Cut(ids, start, end, p, q) ==
  /\ p \in 0 .. Len(ids) /\ q \in 0 .. Len(ids) /\ p <= q
  /\ \A i \in 1 .. Len(ids) : IdLess(ids[i], start) <=> i <= p
  /\ \A i \in 1 .. Len(ids) : ~IdLess(end, ids[i]) <=> i <= q

Taken(ids, p, n, count) ==
  SubSeq(ids, p + 1, p + (IF count # 0 /\ count < n THEN count ELSE n))

(* get_range answers the entries from the first that is not below start to *)
(* the last that is not beyond end, at most count of them                  *)
(* (stream.cpp:298).                                                       *)
LEMMA RangeAnswers ==
  ASSUME NEW s, NEW ids, Ascending(ids), s.tree = KeysOf(ids),
         NEW start \in StreamID, NEW end \in StreamID, NEW count \in Nat,
         ~IdLess(end, start), NEW p, NEW q, Cut(ids, start, end, p, q)
  PROVE  get_range(s, start, end, count) = Taken(ids, p, q - p, count)
<1> USE DEF Cut
<1> DEFINE tail    == SubSeq(ids, p + 1, Len(ids))
           n       == Len(ids) - p
           keys    == {k \in s.tree : ~KeyLess(k, encode_id(start))}
           seek    == InOrder(keys)
           scanned == [i \in DOMAIN seek |-> decode_id(seek[i])]
           inside  == {i \in DOMAIN scanned : \A j \in 1 .. i : ~IdLess(end, scanned[j])}
           total   == Cardinality(inside)
           take(t) == IF count # 0 /\ count < t THEN count ELSE t
<1>1. ids \in Seq(StreamID) /\ Len(ids) \in Nat /\ \A i \in 1 .. Len(ids) : ids[i] \in StreamID
  BY DEF Ascending
<1>2. /\ Ascending(tail) /\ Len(tail) = n /\ n \in Nat
      /\ \A i \in 1 .. n : tail[i] = ids[p + i] /\ p + i \in 1 .. Len(ids)
  BY <1>1, TailAscends
<1>3. keys = KeysOf(tail)
  <2>1. ASSUME NEW k \in keys PROVE k \in KeysOf(tail)
    <3>1. PICK i \in 1 .. Len(ids) : k = encode_id(ids[i])
      BY Zenon DEF KeysOf
    <3>2. ~IdLess(ids[i], start)
      BY Zenon, <1>1, <3>1, EncodeOrder
    <3>3. ~(i <= p)
      BY Zenon, <3>2
    <3>4. i - p \in 1 .. n /\ p + (i - p) = i
      BY <1>1, <3>3
    <3>5. k = encode_id(tail[i - p])
      BY Zenon, <1>2, <3>1, <3>4
    <3> QED BY Zenon, <1>2, <3>4, <3>5 DEF KeysOf
  <2>2. ASSUME NEW k \in KeysOf(tail) PROVE k \in keys
    <3>1. PICK i \in 1 .. n : k = encode_id(tail[i])
      BY Zenon, <1>2 DEF KeysOf
    <3>2. k = encode_id(ids[p + i]) /\ p + i \in 1 .. Len(ids) /\ ~(p + i <= p)
      BY <1>1, <1>2, <3>1
    <3>3. ~IdLess(ids[p + i], start)
      BY Zenon, <3>2
    <3>4. ~KeyLess(k, encode_id(start))
      BY Zenon, <1>1, <3>2, <3>3, EncodeOrder
    <3> QED BY Zenon, <3>2, <3>4 DEF KeysOf
  <2> QED BY Zenon, <2>1, <2>2
<1>4. seek = [i \in 1 .. n |-> encode_id(tail[i])]
  BY Zenon, <1>2, <1>3, InOrderKeys
<1> HIDE DEF seek
<1>5. scanned = [i \in 1 .. n |-> ids[p + i]]
  <2>1. DOMAIN seek = 1 .. n
    BY Zenon, <1>4
  <2>2. \A i \in 1 .. n : decode_id(seek[i]) = ids[p + i]
    BY Zenon, <1>1, <1>2, <1>4, DecodeEncode
  <2> QED BY Zenon, <2>1, <2>2
<1> HIDE DEF scanned, tail
<1>6. inside = 1 .. q - p
  <2>1. DOMAIN scanned = 1 .. n
    BY Zenon, <1>5
  <2>2. ASSUME NEW i \in 1 .. n
        PROVE  (\A j \in 1 .. i : ~IdLess(end, scanned[j])) <=> i \in 1 .. q - p
    <3>1. ASSUME NEW j \in 1 .. i PROVE ~IdLess(end, scanned[j]) <=> j <= q - p
      <4>1. j \in 1 .. n /\ p + j \in 1 .. Len(ids) /\ (p + j <= q <=> j <= q - p)
        BY <1>1, <1>2
      <4>2. scanned[j] = ids[p + j]
        BY Zenon, <1>5, <4>1
      <4> QED BY Zenon, <4>1, <4>2
    <3>2. i \in 1 .. i
      BY <1>1
    <3>3. (i \in 1 .. q - p <=> i <= q - p) /\ (i <= q - p => \A j \in 1 .. i : j <= q - p)
      BY <1>1
    <3> QED BY Zenon, <3>1, <3>2, <3>3
  <2>3. \A i \in 1 .. q - p : i \in 1 .. n
    BY <1>1
  <2> QED BY Zenon, <2>1, <2>2, <2>3
<1>7. total = q - p
  <2>1. 1 \in Int /\ q - p \in Nat /\ (1 > q - p => q - p = 0) /\ (q - p) - 1 + 1 = q - p
    BY <1>1
  <2>2. Cardinality(1 .. q - p) = IF 1 > q - p THEN 0 ELSE (q - p) - 1 + 1
    BY <2>1, FS_Interval
  <2>3. Cardinality(1 .. q - p) = q - p
    BY <2>1, <2>2
  <2> QED BY Zenon, <1>6, <2>3
<1> HIDE DEF inside, total
<1>8. take(q - p) \in 0 .. n
  BY <1>1
<1>9. SubSeq(scanned, 1, take(q - p)) = SubSeq(ids, p + 1, p + take(q - p))
  <2>1. PICK m \in 0 .. n : m = take(q - p)
    BY Zenon, <1>8
  <2>2. scanned \in Seq(StreamID) /\ Len(scanned) = n
    BY <1>1, <1>2, <1>5
  <2>3. SubSeq(scanned, 1, m) = SubSeq(ids, p + 1, p + m)
    BY <1>1, <1>2, <1>5, <2>2
  <2> QED BY Zenon, <2>1, <2>3
<1>10. get_range(s, start, end, count) = SubSeq(scanned, 1, take(total))
  BY Zenon DEF get_range, scanned, seek, inside, total
<1> QED BY Zenon, <1>7, <1>9, <1>10 DEF Taken

(* The first ID after id is the smallest of those beyond it                *)
(* (stream.cpp:116).                                                       *)
LEMMA AdvanceIsNext ==
  ASSUME NEW id \in StreamID, NEW other \in StreamID
  PROVE  /\ advance_id(id).ok => /\ advance_id(id).id \in StreamID
                                 /\ IdLess(other, advance_id(id).id) <=> ~IdLess(id, other)
         /\ ~advance_id(id).ok => ~IdLess(id, other)
<1>1. /\ id.ms \in Nat /\ id.seq \in Nat /\ id.ms <= MaxWord /\ id.seq <= MaxWord
      /\ other.ms \in Nat /\ other.seq \in Nat /\ other.ms <= MaxWord /\ other.seq <= MaxWord
      /\ MaxWord \in Nat
  BY WordAssumption DEF StreamID, Word
<1>2. ASSUME NEW ms \in 0 .. MaxWord, NEW seq \in 0 .. MaxWord
      PROVE  ID(ms, seq) \in StreamID /\ ID(ms, seq).ms = ms /\ ID(ms, seq).seq = seq
  BY DEF ID, StreamID, Word
<1>3. \A b, x : Parsed(b, x).ok = b /\ Parsed(b, x).id = x
  BY DEF Parsed
<1>4. CASE id.seq # MaxWord
  <2>1. advance_id(id).ok /\ advance_id(id).id = ID(id.ms, id.seq + 1)
    BY Zenon, <1>4, <1>3 DEF advance_id
  <2>2. id.ms \in 0 .. MaxWord /\ id.seq + 1 \in 0 .. MaxWord
    BY <1>1, <1>4
  <2>3. PICK x \in StreamID : x = ID(id.ms, id.seq + 1) /\ x.ms = id.ms /\ x.seq = id.seq + 1
    BY <1>2, <2>2
  <2>4. IdLess(other, x) <=> ~IdLess(id, other)
    BY <1>1, <2>3 DEF IdLess
  <2> QED BY Zenon, <2>1, <2>3, <2>4
<1>5. CASE id.seq = MaxWord /\ id.ms # MaxWord
  <2>1. advance_id(id).ok /\ advance_id(id).id = ID(id.ms + 1, 0)
    BY Zenon, <1>5, <1>3 DEF advance_id
  <2>2. id.ms + 1 \in 0 .. MaxWord /\ 0 \in 0 .. MaxWord
    BY <1>1, <1>5
  <2>3. PICK x \in StreamID : x = ID(id.ms + 1, 0) /\ x.ms = id.ms + 1 /\ x.seq = 0
    BY <1>2, <2>2
  <2>4. IdLess(other, x) <=> ~IdLess(id, other)
    BY <1>1, <1>5, <2>3 DEF IdLess
  <2> QED BY Zenon, <2>1, <2>3, <2>4
<1>6. CASE id.seq = MaxWord /\ id.ms = MaxWord
  <2>1. advance_id(id).ok = FALSE
    BY Zenon, <1>6, <1>3 DEF advance_id
  <2> QED BY <1>1, <1>6, <2>1 DEF IdLess
<1> QED BY Zenon, <1>4, <1>5, <1>6

-------------------------------------------------------------------------------
(* The inductive invariant.  The IDs XADD answered ascend, and never       *)
(* include 0-0; the Stream object follows from them; and the consumer      *)
(* stands at the end of an initial segment of them.                        *)

Top(ids) == IF ids = <<>> THEN ID(0, 0) ELSE ids[Len(ids)]

IInv ==
  /\ Ascending(added)
  /\ \A i \in 1 .. Len(added) : added[i] # ID(0, 0)
  /\ stream.tree = KeysOf(added)
  /\ stream.has_max_id = (added # <<>>)
  /\ stream.max_id = Top(added)
  /\ Len(got) \in 0 .. Len(added)
  /\ got = SubSeq(added, 1, Len(got))
  /\ cursor = Top(got)

(* An ID that XADD accepts is above every ID of the stream (resolve_id,    *)
(* stream.cpp:198).                                                        *)
LEMMA AcceptedIsAbove ==
  ASSUME NEW s, NEW text \in IdTexts, NEW wall \in Word, NEW top \in StreamID, NEW has \in BOOLEAN,
         s.has_max_id = has, s.max_id = top,
         resolve_id(s, text, wall).result = "Ok"
  PROVE  /\ resolve_id(s, text, wall).id \in StreamID
         /\ resolve_id(s, text, wall).id # ID(0, 0)
         /\ has => IdLess(top, resolve_id(s, text, wall).id)
<1>1. MaxWord \in Nat /\ top.ms \in 0 .. MaxWord /\ top.seq \in 0 .. MaxWord
  BY WordAssumption DEF StreamID, Word
<1>2. ASSUME NEW ms \in 0 .. MaxWord, NEW seq \in 0 .. MaxWord
      PROVE  /\ ID(ms, seq) \in StreamID /\ ID(ms, seq).ms = ms /\ ID(ms, seq).seq = seq
             /\ ID(ms, seq) = ID(0, 0) => ms = 0 /\ seq = 0
  BY DEF ID, StreamID, Word
<1>3. \A r, id : Resolved(r, id).result = r /\ Resolved(r, id).id = id
  BY DEF Resolved
<1> DEFINE Good(id) == id \in StreamID /\ id # ID(0, 0) /\ (has => IdLess(top, id))
<1>4. ASSUME NEW ms \in 0 .. MaxWord, next_sequence(s, ms).result = "Ok"
      PROVE  Good(next_sequence(s, ms).id)
  <2> DEFINE r == next_sequence(s, ms)
  <2>1. CASE ~has
    <3>1. r.id = ID(ms, IF ms = 0 THEN 1 ELSE 0)
      BY Zenon, <1>3, <2>1 DEF next_sequence
    <3>2. PICK seq \in 0 .. MaxWord : seq = (IF ms = 0 THEN 1 ELSE 0) /\ (ms # 0 \/ seq # 0)
      BY WordAssumption
    <3> QED BY <1>2, <2>1, <3>1, <3>2
  <2>2. CASE has /\ ms > top.ms
    <3>1. r.id = ID(ms, 0)
      BY Zenon, <1>3, <2>2 DEF next_sequence
    <3>2. 0 \in 0 .. MaxWord /\ ms # 0 /\ top.ms < ms
      BY <1>1, <2>2
    <3> QED BY <1>2, <3>1, <3>2 DEF IdLess
  <2>3. CASE has /\ ~(ms > top.ms)
    <3>1. top.seq # MaxWord
      <4>1. "NotGreater" # "Ok"
        OBVIOUS
      <4> QED BY Zenon, <1>3, <1>4, <2>3, <4>1 DEF next_sequence, Refused
    <3>2. r.id = ID(top.ms, top.seq + 1)
      BY ZenonT(60), <1>3, <2>3, <3>1 DEF next_sequence
    <3>3. top.seq + 1 \in 0 .. MaxWord /\ top.seq + 1 # 0 /\ top.seq < top.seq + 1
      BY <1>1, <3>1
    <3> QED BY <1>1, <1>2, <3>2, <3>3 DEF IdLess
  <2> QED BY Zenon, <2>1, <2>2, <2>3
<1>5. \A r : Refused(r).result = r
  BY Zenon, <1>3 DEF Refused
<1>6. CASE text.form = "auto"
  <2>1. resolve_id(s, text, wall) = next_sequence(s, wall)
    BY <1>6 DEF resolve_id
  <2> QED BY Zenon, <1>4, <2>1 DEF Word
<1>7. CASE text.form = "partial"
  <2>1. text.ms \in 0 .. MaxWord
    BY <1>7 DEF IdTexts, Word
  <2>2. \/ resolve_id(s, text, wall) = next_sequence(s, text.ms)
        \/ resolve_id(s, text, wall) = Refused("NotGreater")
    BY <1>7 DEF resolve_id
  <2>3. resolve_id(s, text, wall) = next_sequence(s, text.ms)
    BY <1>5, <2>2
  <2> QED BY Zenon, <1>4, <2>1, <2>3
<1>8. CASE text.form = "explicit"
  <2>1. text.id \in StreamID
    BY <1>8 DEF IdTexts
  <2>2. \/ resolve_id(s, text, wall) = Refused("ZeroID")
        \/ resolve_id(s, text, wall) = Refused("NotGreater")
        \/ /\ resolve_id(s, text, wall) = Resolved("Ok", text.id)
           /\ text.id # ID(0, 0) /\ (has => IdLess(top, text.id))
    <3>1. resolve_id(s, text, wall) =
            IF text.id = ID(0, 0) THEN Refused("ZeroID")
            ELSE IF s.has_max_id /\ ~IdLess(s.max_id, text.id) THEN Refused("NotGreater")
            ELSE Resolved("Ok", text.id)
      BY <1>8 DEF resolve_id
    <3> QED BY Zenon, <3>1
  <2>3. /\ resolve_id(s, text, wall) = Resolved("Ok", text.id)
        /\ text.id # ID(0, 0) /\ (has => IdLess(top, text.id))
    BY <1>5, <2>2
  <2> QED BY <1>3, <2>1, <2>3
<1>9. CASE text.form = "invalid"
  <2>1. resolve_id(s, text, wall) = Refused("InvalidID")
    BY <1>9 DEF resolve_id
  <2>2. "InvalidID" # "Ok"
    OBVIOUS
  <2> QED BY Zenon, <1>5, <2>1, <2>2
<1>10. text.form \in {"auto", "partial", "explicit", "invalid"}
  BY DEF IdTexts
<1> QED BY Zenon, <1>6, <1>7, <1>8, <1>9, <1>10

(* The last ID of the sequence, or 0-0. *)
LEMMA TopFacts ==
  ASSUME NEW ids, Ascending(ids)
  PROVE  /\ Top(ids) \in StreamID
         /\ ids # <<>> => Top(ids) = ids[Len(ids)] /\ Len(ids) \in 1 .. Len(ids)
<1>1. ids \in Seq(StreamID)
  BY DEF Ascending
<1>2. ID(0, 0) \in StreamID
  BY WordAssumption DEF ID, StreamID, Word
<1>3. ids # <<>> => Len(ids) \in 1 .. Len(ids) /\ ids[Len(ids)] \in StreamID
  BY <1>1
<1> QED BY Zenon, <1>2, <1>3 DEF Top

(* The empty stream and a consumer that starts at 0-0. *)
LEMMA InitInv == Init => IInv
<1> SUFFICES ASSUME Init PROVE IInv
  OBVIOUS
<1>1. added = <<>> /\ got = <<>> /\ Len(added) = 0 /\ Len(got) = 0 /\ cursor = ID(0, 0)
  BY DEF Init
<1>2. Ascending(added)
  BY <1>1 DEF Ascending
<1>3. stream.tree = {} /\ stream.has_max_id = FALSE /\ stream.max_id = ID(0, 0)
  BY DEF Init, EmptyStream
<1>4. KeysOf(added) = {}
  <2>1. 1 .. 0 = {}
    OBVIOUS
  <2> QED BY Zenon, <1>1, <2>1 DEF KeysOf
<1>5. SubSeq(added, 1, Len(got)) = <<>> /\ Len(got) \in 0 .. Len(added)
      /\ \A i \in 1 .. Len(added) : added[i] # ID(0, 0)
  BY <1>1
<1> QED BY Zenon, <1>1, <1>2, <1>3, <1>4, <1>5 DEF IInv, Top

(* XADD appends an ID above all the others and leaves the consumer where   *)
(* it is.                                                                  *)
LEMMA XaddInv ==
  ASSUME IInv, NEW text \in IdTexts, NEW wall \in Word, Xadd(text, wall)
  PROVE  IInv'
<1> DEFINE resolved == resolve_id(stream, text, wall)
           id       == resolved.id
           r        == insert(stream, text, wall)
<1>1. Top(added) \in StreamID /\ (added # <<>> => Top(added) = added[Len(added)])
  BY Zenon, TopFacts DEF IInv
<1>2. added \in Seq(StreamID) /\ \A i \in 1 .. Len(added) : added[i] \in StreamID
  BY DEF IInv, Ascending
<1>3. resolved.result = "Ok" =>
        id \in StreamID /\ id # ID(0, 0) /\ (added # <<>> => IdLess(Top(added), id))
  <2>1. PICK has \in BOOLEAN : has = (added # <<>>)
    BY Zenon
  <2>2. stream.has_max_id = has /\ stream.max_id = Top(added)
    BY Zenon, <2>1 DEF IInv
  <2> QED BY Zenon, <1>1, <2>1, <2>2, AcceptedIsAbove
<1>4. cursor' = cursor /\ got' = got
  BY DEF Xadd
<1>5. CASE r.result # "Ok"
  <2>1. stream' = stream /\ added' = added
    <3>1. r.stream = stream
      BY <1>5 DEF insert
    <3> QED BY Zenon, <1>5, <3>1 DEF Xadd
  <2> QED BY Zenon, <1>4, <2>1 DEF IInv, Ascending, KeysOf, Top
<1>6. CASE r.result = "Ok"
  <2>1. resolved.result = "Ok" /\ r.id = id
        /\ r.stream = [tree |-> stream.tree \cup {encode_id(id)}, has_max_id |-> TRUE, max_id |-> id]
    BY <1>6 DEF insert
  <2>2. id \in StreamID /\ id # ID(0, 0) /\ (added # <<>> => IdLess(Top(added), id))
    BY Zenon, <1>3, <2>1
  <2>3. /\ stream' = [tree |-> stream.tree \cup {encode_id(id)}, has_max_id |-> TRUE, max_id |-> id]
        /\ added' = Append(added, id)
    BY Zenon, <1>6, <2>1 DEF Xadd
  <2> HIDE DEF id, resolved, r
  <2>4. PICK n \in Nat : Len(added) = n
    BY <1>2
  <2>5. /\ added' \in Seq(StreamID) /\ Len(added') = n + 1 /\ added' # <<>>
        /\ added'[n + 1] = id /\ \A i \in 1 .. n : added'[i] = added[i]
    BY <1>2, <2>2, <2>3, <2>4
  <2>6. ASSUME NEW i \in 1 .. n PROVE IdLess(added[i], id)
    <3>1. n \in 1 .. n /\ added # <<>> /\ (i < n \/ i = n)
      BY <1>2, <2>4
    <3>2. IdLess(added[n], id) /\ added[n] \in StreamID /\ added[i] \in StreamID
      BY Zenon, <1>1, <1>2, <2>2, <2>4, <3>1
    <3>3. i < n => IdLess(added[i], added[n])
      BY Zenon, <2>4, <3>1 DEF IInv, Ascending
    <3> QED BY Zenon, <2>2, <3>1, <3>2, <3>3, IdOrder
  <2>7. Ascending(added')
    <3>1. ASSUME NEW i \in 1 .. n + 1, NEW j \in 1 .. n + 1, i < j PROVE IdLess(added'[i], added'[j])
      <4>1. i \in 1 .. n
        BY <3>1
      <4>2. CASE j = n + 1
        BY Zenon, <2>5, <2>6, <4>1, <4>2
      <4>3. CASE j \in 1 .. n
        <5>1. IdLess(added[i], added[j])
          BY Zenon, <2>4, <3>1, <4>1, <4>3 DEF IInv, Ascending
        <5> QED BY Zenon, <2>5, <4>1, <4>3, <5>1
      <4>4. j = n + 1 \/ j \in 1 .. n
        OBVIOUS
      <4> QED BY Zenon, <4>2, <4>3, <4>4
    <3> QED BY Zenon, <2>5, <3>1 DEF Ascending
  <2>8. \A i \in 1 .. Len(added') : added'[i] # ID(0, 0)
    <3>1. \A i \in 1 .. n + 1 : i \in 1 .. n \/ i = n + 1
      OBVIOUS
    <3> QED BY Zenon, <2>2, <2>4, <2>5, <3>1 DEF IInv
  <2>9. stream'.tree = KeysOf(added')
    <3>1. stream'.tree = KeysOf(added) \cup {encode_id(id)}
      BY <2>3 DEF IInv
    <3>2. \A i : i \in 1 .. n + 1 <=> i \in 1 .. n \/ i = n + 1
      OBVIOUS
    <3>3. KeysOf(added') = KeysOf(added) \cup {encode_id(id)}
      BY Zenon, <2>4, <2>5, <3>2 DEF KeysOf
    <3> QED BY Zenon, <3>1, <3>3
  <2>10. stream'.has_max_id = (added' # <<>>) /\ stream'.max_id = Top(added')
    <3>1. stream'.has_max_id = TRUE /\ stream'.max_id = id
      BY <2>3
    <3>2. Top(added') = id
      BY Zenon, <2>5 DEF Top
    <3> QED BY Zenon, <2>5, <3>1, <3>2
  <2>11. Len(got') \in 0 .. Len(added') /\ got' = SubSeq(added', 1, Len(got'))
    <3>1. PICK g \in 0 .. n : Len(got) = g
      BY Zenon, <2>4 DEF IInv
    <3>2. SubSeq(added', 1, g) = SubSeq(added, 1, g)
      BY <1>2, <2>4, <2>5
    <3>3. got = SubSeq(added, 1, g)
      BY Zenon, <3>1 DEF IInv
    <3>4. g \in 0 .. n + 1
      OBVIOUS
    <3> QED BY Zenon, <1>4, <2>5, <3>1, <3>2, <3>3, <3>4
  <2>12. cursor' = Top(got')
    BY Zenon, <1>4 DEF IInv, Top
  <2> QED BY Zenon, <2>7, <2>8, <2>9, <2>10, <2>11, <2>12 DEF IInv
<1> QED BY Zenon, <1>5, <1>6

(* No ID is beyond the greatest. *)
LEMMA GreatestID ==
  /\ ID(MaxWord, MaxWord) \in StreamID
  /\ \A id \in StreamID : ~IdLess(ID(MaxWord, MaxWord), id)
<1>1. MaxWord \in Nat
  BY WordAssumption
<1>2. ID(MaxWord, MaxWord) \in StreamID
  BY <1>1 DEF ID, StreamID, Word
<1>3. ASSUME NEW id \in StreamID PROVE ~IdLess(ID(MaxWord, MaxWord), id)
  <2>1. id.ms \in 0 .. MaxWord /\ id.seq \in 0 .. MaxWord
    BY DEF StreamID, Word
  <2>2. ID(MaxWord, MaxWord).ms = MaxWord /\ ID(MaxWord, MaxWord).seq = MaxWord
    BY DEF ID
  <2> QED BY <1>1, <2>1, <2>2 DEF IdLess
<1> QED BY Zenon, <1>2, <1>3

(* A part of a sequence. *)
LEMMA Part ==
  ASSUME NEW S, NEW s \in Seq(S), NEW n \in Nat, Len(s) = n, NEW g \in 0 .. n, NEW k \in 0 .. n - g
  PROVE  /\ SubSeq(s, g + 1, g + k) \in Seq(S)
         /\ Len(SubSeq(s, g + 1, g + k)) = k
         /\ \A i \in 1 .. k : SubSeq(s, g + 1, g + k)[i] = s[g + i]
<1>1. g + 1 \in Int /\ g + k \in Int /\ (g + k) - (g + 1) + 1 = k
      /\ \A i \in 1 .. k : g + i \in 1 .. n /\ (g + 1) + i - 1 = g + i
  OBVIOUS
<1>2. SubSeq(s, g + 1, g + k) = [i \in 1 .. k |-> s[g + i]]
  BY <1>1
<1>3. \A i \in 1 .. k : s[g + i] \in S
  BY <1>1
<1>4. [i \in 1 .. k |-> s[g + i]] \in Seq(S)
  BY <1>3
<1>5. Len([i \in 1 .. k |-> s[g + i]]) = k
  BY <1>4
<1> QED BY Zenon, <1>2, <1>4, <1>5

(* XREAD continues the consumer's initial segment. *)
LEMMA XreadInv ==
  ASSUME IInv, NEW count \in Nat, Xread(count)
  PROVE  IInv'
<1> DEFINE entries == try_xread(stream, cursor, count)
           start   == advance_id(cursor)
           end     == ID(MaxWord, MaxWord)
<1>1. added \in Seq(StreamID) /\ \A i \in 1 .. Len(added) : added[i] \in StreamID
  BY DEF IInv, Ascending
<1>2. PICK n \in Nat : Len(added) = n
  BY <1>1
<1>3. PICK g \in 0 .. n : Len(got) = g /\ got = SubSeq(added, 1, g)
  BY Zenon, <1>2 DEF IInv
<1>4. got \in Seq(StreamID) /\ (got = <<>> <=> g = 0) /\ \A i \in 1 .. g : got[i] = added[i]
  BY <1>1, <1>2, <1>3
<1>5. cursor \in StreamID /\ \A i \in 1 .. n : ~IdLess(cursor, added[i]) <=> i <= g
  <2>1. CASE g = 0
    <3>1. cursor = ID(0, 0) /\ cursor \in StreamID
      <4>1. ID(0, 0) \in StreamID
        BY WordAssumption DEF ID, StreamID, Word
      <4> QED BY Zenon, <1>4, <2>1, <4>1 DEF IInv, Top
    <3>2. ASSUME NEW i \in 1 .. n PROVE IdLess(cursor, added[i])
      <4>1. added[i] \in StreamID /\ added[i] # ID(0, 0)
        BY Zenon, <1>1, <1>2 DEF IInv
      <4>2. ~IdLess(added[i], ID(0, 0))
        <5>1. \A id \in StreamID : id.ms \in Nat /\ id.seq \in Nat
          BY DEF StreamID, Word
        <5>2. ID(0, 0).ms = 0 /\ ID(0, 0).seq = 0
          BY DEF ID
        <5> QED BY <4>1, <5>1, <5>2 DEF IdLess
      <4> QED BY Zenon, <3>1, <4>1, <4>2, IdOrder
    <3>3. \A i \in 1 .. n : ~(i <= g)
      BY <2>1
    <3> QED BY Zenon, <3>1, <3>2, <3>3
  <2>2. CASE g # 0
    <3>1. g \in 1 .. g /\ g \in 1 .. n
      BY <2>2
    <3>2. cursor = added[g]
      BY Zenon, <1>3, <1>4, <2>2, <3>1 DEF IInv, Top
    <3>3. ASSUME NEW i \in 1 .. n PROVE ~IdLess(added[g], added[i]) <=> i <= g
      <4>1. i < g \/ i = g \/ g < i
        OBVIOUS
      <4>2. g < i => IdLess(added[g], added[i])
        BY Zenon, <1>2, <3>1 DEF IInv, Ascending
      <4>3. i < g => IdLess(added[i], added[g])
        BY Zenon, <1>2, <3>1 DEF IInv, Ascending
      <4>4. i <= g <=> ~(g < i)
        OBVIOUS
      <4> QED BY Zenon, <1>1, <1>2, <3>1, <4>1, <4>2, <4>3, <4>4, IdOrder
    <3> QED BY Zenon, <1>1, <1>2, <3>1, <3>2, <3>3
  <2> QED BY Zenon, <2>1, <2>2
<1>6. entries # <<>> /\ got' = got \o entries /\ cursor' = entries[Len(entries)]
      /\ stream' = stream /\ added' = added
  BY DEF Xread
<1>7. start.ok /\ entries = get_range(stream, start.id, end, count)
  BY Zenon, <1>6 DEF try_xread
<1>8. start.id \in StreamID /\ \A i \in 1 .. n : IdLess(added[i], start.id) <=> i <= g
  BY Zenon, <1>1, <1>2, <1>5, <1>7, AdvanceIsNext
<1> DEFINE m == IF count # 0 /\ count < n - g THEN count ELSE n - g
<1>9. entries = SubSeq(added, g + 1, g + m)
  <2>1. n \in 0 .. n /\ g <= n /\ \A i \in 1 .. n : i <= n
    OBVIOUS
  <2>2. end \in StreamID /\ ~IdLess(end, start.id) /\ \A i \in 1 .. n : ~IdLess(end, added[i]) <=> i <= n
    BY Zenon, <1>1, <1>2, <1>8, <2>1, GreatestID
  <2>3. Ascending(added) /\ stream.tree = KeysOf(added)
    BY Zenon DEF IInv
  <2> HIDE DEF end, start
  <2>4. PICK x \in StreamID, y \in StreamID : x = start.id /\ y = end /\ ~IdLess(y, x)
    BY Zenon, <1>8, <2>2
  <2>5. Cut(added, x, y, g, n)
    BY Zenon, <1>2, <1>8, <2>1, <2>2, <2>4 DEF Cut
  <2>6. get_range(stream, x, y, count) = Taken(added, g, n - g, count)
    BY <2>3, <2>4, <2>5, RangeAnswers
  <2> QED BY Zenon, <1>7, <2>4, <2>6 DEF Taken
<1>10. PICK k \in 0 .. n - g : k = m
  <2>1. m \in 0 .. n - g
    OBVIOUS
  <2> QED BY Zenon, <2>1
<1> HIDE DEF m, entries
<1>11. k # 0 /\ entries \in Seq(StreamID) /\ Len(entries) = k
       /\ \A i \in 1 .. k : entries[i] = added[g + i]
  <2>1. entries = SubSeq(added, g + 1, g + k)
    BY Zenon, <1>9, <1>10
  <2>2. entries \in Seq(StreamID) /\ Len(entries) = k /\ \A i \in 1 .. k : entries[i] = added[g + i]
    <3>1. /\ SubSeq(added, g + 1, g + k) \in Seq(StreamID)
          /\ Len(SubSeq(added, g + 1, g + k)) = k
          /\ \A i \in 1 .. k : SubSeq(added, g + 1, g + k)[i] = added[g + i]
      BY <1>1, <1>2, Part
    <3> QED BY Zenon, <2>1, <3>1
  <2>3. k # 0
    BY <1>6, <2>2
  <2> QED BY Zenon, <2>2, <2>3
<1>12. Len(got') = g + k /\ got' = SubSeq(added, 1, g + k) /\ got' # <<>> /\ g + k \in 0 .. n
  <2>1. got' \in Seq(StreamID) /\ Len(got') = g + k
    <3>1. \A t : t \in Seq(StreamID) => got \o t \in Seq(StreamID) /\ Len(got \o t) = Len(got) + Len(t)
      BY <1>4
    <3> QED BY Zenon, <1>3, <1>6, <1>11, <3>1
  <2>2. ASSUME NEW i \in 1 .. g + k PROVE got'[i] = added[i]
    <3>1. CASE i \in 1 .. g
      <4>1. got'[i] = got[i]
        BY <1>3, <1>4, <1>6, <1>11, <3>1
      <4> QED BY Zenon, <1>4, <3>1, <4>1
    <3>2. CASE i \notin 1 .. g
      <4>1. i - g \in 1 .. k /\ g + (i - g) = i
        BY <3>2
      <4>2. got'[i] = entries[i - g]
        BY <1>3, <1>4, <1>6, <1>11, <3>2
      <4> QED BY Zenon, <1>11, <4>1, <4>2
    <3> QED BY Zenon, <3>1, <3>2
  <2>3. SubSeq(added, 1, g + k) \in Seq(StreamID) /\ Len(SubSeq(added, 1, g + k)) = g + k
        /\ \A i \in 1 .. g + k : SubSeq(added, 1, g + k)[i] = added[i]
    BY <1>1, <1>2
  <2>4. got' = SubSeq(added, 1, g + k)
    BY <2>1, <2>2, <2>3
  <2>5. g + k # 0 /\ g + k \in 0 .. n /\ Len(<<>>) = 0
    BY <1>11
  <2> QED BY Zenon, <2>1, <2>4, <2>5
<1>13. cursor' = Top(got')
  <2>1. k \in 1 .. k /\ g + k \in 1 .. g + k
    BY <1>11
  <2>2. cursor' = added[g + k]
    BY Zenon, <1>6, <1>11, <2>1
  <2>3. SubSeq(added, 1, g + k)[g + k] = added[g + k]
    BY <1>1, <1>2, <2>1
  <2> QED BY Zenon, <1>12, <2>2, <2>3 DEF Top
<1> QED BY Zenon, <1>2, <1>6, <1>12, <1>13 DEF IInv, Ascending, KeysOf, Top

(* The inductive invariant holds throughout: the IDs XADD answers ascend   *)
(* whatever the clock does (stream.cpp:178-240), and the tree, max_id_ and *)
(* the consumer's position follow from them.                               *)
THEOREM Invariance == Spec => []IInv
<1>1. IInv /\ [Next]_vars => IInv'
  <2> SUFFICES ASSUME IInv, [Next]_vars PROVE IInv'
    OBVIOUS
  <2>1. ASSUME NEW text \in Texts, NEW wall \in Walls, Xadd(text, wall) PROVE IInv'
    <3>1. text \in IdTexts /\ wall \in Word
      BY Zenon, ReaderAssumption
    <3> QED BY Zenon, <2>1, <3>1, XaddInv
  <2>2. ASSUME NEW count \in Counts, Xread(count) PROVE IInv'
    <3>1. count \in Nat
      BY Zenon, ReaderAssumption
    <3> QED BY Zenon, <2>2, <3>1, XreadInv
  <2>3. CASE UNCHANGED vars
    BY Zenon, <2>3 DEF vars, IInv, Ascending, KeysOf, Top
  <2> QED BY Zenon, <2>1, <2>2, <2>3 DEF Next
<1> QED BY <1>1, InitInv, PTL DEF Spec

(* max_id_, with which XADD compares, is the greatest key of the radix     *)
(* tree in the tree's own order, and the tree holds exactly the IDs XADD   *)
(* has answered (stream.cpp:251-268).                                      *)
THEOREM TopIsMaxId == Spec => []MaxIdIsTop
<1>1. IInv => MaxIdIsTop
  <2> SUFFICES ASSUME IInv PROVE MaxIdIsTop
    OBVIOUS
  <2>1. /\ added \in Seq(StreamID) /\ DOMAIN added = 1 .. Len(added) /\ Len(added) \in Nat
        /\ \A i \in 1 .. Len(added) : added[i] \in StreamID
    BY DEF IInv, Ascending
  <2>2. stream.tree = {encode_id(added[i]) : i \in DOMAIN added} /\ stream.has_max_id = (added # <<>>)
    BY Zenon, <2>1 DEF IInv, KeysOf
  <2>3. ASSUME stream.has_max_id, NEW k \in stream.tree
        PROVE  k = encode_id(stream.max_id) \/ KeyLess(k, encode_id(stream.max_id))
    <3>1. PICK n \in Nat : n = Len(added)
      BY Zenon, <2>1
    <3>2. PICK i \in 1 .. n : k = encode_id(added[i])
      BY Zenon, <2>1, <2>2, <3>1
    <3>3. n \in 1 .. n /\ (i = n \/ i < n)
      OBVIOUS
    <3>4. stream.max_id = added[n]
      BY Zenon, <2>2, <2>3, <3>1, TopFacts DEF IInv
    <3>5. added[i] \in StreamID /\ added[n] \in StreamID
      BY Zenon, <2>1, <3>1, <3>3
    <3>6. i < n => IdLess(added[i], added[n])
      BY Zenon, <3>1, <3>3 DEF IInv, Ascending
    <3> QED BY Zenon, <3>2, <3>3, <3>4, <3>5, <3>6, EncodeOrder
  <2> QED BY Zenon, <2>2, <2>3 DEF MaxIdIsTop
<1> QED BY <1>1, Invariance, PTL

(* A consumer that asks for what comes after the last ID it was given is   *)
(* given the entries in the order they were added, none lost and none      *)
(* twice (try_xread, streams.cpp:136, and advance_id, stream.cpp:116).     *)
THEOREM Delivery == Spec => []NoEntryLostOrRepeated
<1>1. IInv => NoEntryLostOrRepeated
  <2> SUFFICES ASSUME IInv PROVE NoEntryLostOrRepeated
    OBVIOUS
  <2>1. Len(added) \in Nat
    BY DEF IInv, Ascending
  <2>2. Len(got) <= Len(added)
    BY <2>1 DEF IInv
  <2> QED BY Zenon, <2>2 DEF IInv, NoEntryLostOrRepeated
<1> QED BY <1>1, Invariance, PTL

(* Between two bounds lies a run of consecutive entries, and get_range     *)
(* answers its first count.                                                *)
LEMMA RunBetween ==
  ASSUME IInv, NEW start \in StreamID, NEW end \in StreamID, NEW count \in Nat
  PROVE  \E p \in 0 .. Len(added) : \E n \in 0 .. Len(added) - p :
           /\ \A i \in 1 .. Len(added) :
                ~IdLess(added[i], start) /\ ~IdLess(end, added[i]) <=> i \in p + 1 .. p + n
           /\ get_range(stream, start, end, count) = Taken(added, p, n, count)
<1>1. added \in Seq(StreamID) /\ \A i \in 1 .. Len(added) : added[i] \in StreamID
  BY DEF IInv, Ascending
<1>2. PICK m \in Nat : m = Len(added)
  BY <1>1
<1>3. ASSUME NEW i \in 1 .. m, NEW j \in 1 .. m, j <= i
      PROVE  added[j] = added[i] \/ IdLess(added[j], added[i])
  <2>1. j = i \/ j < i
    BY <1>3
  <2> QED BY Zenon, <1>2, <2>1 DEF IInv, Ascending
<1>4. PICK p \in 0 .. m : \A i \in 1 .. m : IdLess(added[i], start) <=> i <= p
  <2> DEFINE S == {i \in 1 .. m : IdLess(added[i], start)}
  <2>1. S \subseteq 1 .. m /\ \A i \in S : \A j \in 1 .. m : j <= i => j \in S
    BY Zenon, <1>1, <1>2, <1>3, IdOrder
  <2>2. \E k \in 0 .. m : \A i \in 1 .. m : i \in S <=> i <= k
    <3> HIDE DEF S
    <3> QED BY Zenon, <2>1, InitialSegment
  <2> QED BY Zenon, <2>2
<1>5. PICK q \in 0 .. m : \A i \in 1 .. m : ~IdLess(end, added[i]) <=> i <= q
  <2> DEFINE S == {i \in 1 .. m : ~IdLess(end, added[i])}
  <2>1. S \subseteq 1 .. m /\ \A i \in S : \A j \in 1 .. m : j <= i => j \in S
    BY Zenon, <1>1, <1>2, <1>3, IdOrder
  <2>2. \E k \in 0 .. m : \A i \in 1 .. m : i \in S <=> i <= k
    <3> HIDE DEF S
    <3> QED BY Zenon, <2>1, InitialSegment
  <2> QED BY Zenon, <2>2
<1>6. CASE IdLess(end, start)
  <2>1. ASSUME NEW i \in 1 .. m, ~IdLess(added[i], start) PROVE IdLess(end, added[i])
    BY Zenon, <1>1, <1>2, <1>6, <2>1, IdOrder
  <2>2. get_range(stream, start, end, count) = <<>>
    BY Zenon, <1>6 DEF get_range
  <2>3. 0 \in 0 .. m /\ 0 \in 0 .. m - 0 /\ \A i \in 1 .. m : i \notin 0 + 1 .. 0 + 0
    OBVIOUS
  <2>4. Taken(added, 0, 0, count) = <<>>
    <3>1. SubSeq(added, 1, 0) = <<>>
      BY <1>1
    <3>2. 0 + 1 = 1 /\ 0 + (IF count # 0 /\ count < 0 THEN count ELSE 0) = 0
      OBVIOUS
    <3> QED BY Zenon, <3>1, <3>2 DEF Taken
  <2> QED BY Zenon, <1>2, <2>1, <2>2, <2>3, <2>4
<1>7. CASE ~IdLess(end, start)
  <2>1. p <= q
    <3>1. CASE p = 0
      BY <3>1
    <3>2. CASE p # 0
      <4>1. p \in 1 .. m /\ p <= p
        BY <3>2
      <4>2. IdLess(added[p], start) /\ added[p] \in StreamID
        BY Zenon, <1>1, <1>2, <1>4, <4>1
      <4>3. ~IdLess(end, added[p])
        BY Zenon, <1>7, <4>2, IdOrder
      <4> QED BY Zenon, <1>5, <4>1, <4>3
    <3> QED BY Zenon, <3>1, <3>2
  <2>2. Cut(added, start, end, p, q)
    BY Zenon, <1>2, <1>4, <1>5, <2>1 DEF Cut
  <2>3. get_range(stream, start, end, count) = Taken(added, p, q - p, count)
    BY <1>7, <2>2, RangeAnswers DEF IInv
  <2>4. q - p \in 0 .. m - p
    BY <2>1
  <2>5. ASSUME NEW i \in 1 .. m
        PROVE  ~IdLess(added[i], start) /\ ~IdLess(end, added[i]) <=> i \in p + 1 .. p + (q - p)
    <3>1. ~(i <= p) /\ i <= q <=> i \in p + 1 .. p + (q - p)
      OBVIOUS
    <3> QED BY Zenon, <1>4, <1>5, <3>1
  <2> QED BY Zenon, <1>2, <2>3, <2>4, <2>5
<1> QED BY Zenon, <1>6, <1>7

(* A bound of XRANGE stands for the IDs it is meant to                     *)
(* (parse_range_start and parse_range_end, stream.cpp:103-142).            *)
LEMMA BoundsMean ==
  ASSUME NEW bound \in Bounds, NEW id \in StreamID
  PROVE  /\ parse_range_start(bound).ok =>
              /\ parse_range_start(bound).id \in StreamID
              /\ ~IdLess(id, parse_range_start(bound).id) <=>
                   CASE bound.form = "ms" -> id.ms >= bound.ms
                     [] bound.form = "full" -> ~IdLess(id, bound.id) [] OTHER -> TRUE
         /\ parse_range_end(bound).ok =>
              /\ parse_range_end(bound).id \in StreamID
              /\ ~IdLess(parse_range_end(bound).id, id) <=>
                   CASE bound.form = "ms" -> id.ms <= bound.ms
                     [] bound.form = "full" -> ~IdLess(bound.id, id) [] OTHER -> TRUE
<1> DEFINE from == parse_range_start(bound)
           to   == parse_range_end(bound)
<1>1. /\ MaxWord \in Nat /\ id.ms \in Nat /\ id.seq \in Nat
      /\ id.ms <= MaxWord /\ id.seq <= MaxWord
  BY WordAssumption DEF StreamID, Word
<1>2. \A b, x : Parsed(b, x).ok = b /\ Parsed(b, x).id = x
  BY DEF Parsed
<1>3. ASSUME NEW ms \in 0 .. MaxWord, NEW seq \in 0 .. MaxWord
      PROVE  ID(ms, seq) \in StreamID /\ ID(ms, seq).ms = ms /\ ID(ms, seq).seq = seq
  BY DEF ID, StreamID, Word
<1>4. CASE bound.form = "min"
  <2>1. ID(0, 0) \in StreamID /\ ~IdLess(id, ID(0, 0))
    <3>1. 0 \in 0 .. MaxWord
      BY <1>1
    <3> QED BY <1>1, <1>3, <3>1 DEF IdLess
  <2>2. from.id = ID(0, 0)
    BY Zenon, <1>2, <1>4 DEF parse_range_start
  <2>3. bound.form # "ms" /\ bound.form # "full" /\ bound.form # "max"
    BY <1>4
  <2>4. ~to.ok
    BY Zenon, <1>2, <2>3 DEF parse_range_end, parse_range_bound
  <2> QED BY Zenon, <2>1, <2>2, <2>3, <2>4
<1>5. CASE bound.form = "max"
  <2>1. bound.form # "ms" /\ bound.form # "full" /\ bound.form # "min"
    BY <1>5
  <2>2. ~from.ok
    BY Zenon, <1>2, <2>1 DEF parse_range_start, parse_range_bound
  <2>3. to.id = ID(MaxWord, MaxWord)
    BY Zenon, <1>2, <1>5 DEF parse_range_end
  <2> QED BY Zenon, <2>1, <2>2, <2>3, GreatestID
<1>6. CASE bound.form = "ms"
  <2>1. bound.form # "full" /\ bound.form # "min" /\ bound.form # "max"
    BY <1>6
  <2>2. PICK ms \in 0 .. MaxWord : bound.ms = ms
    BY <1>6 DEF Bounds, Word
  <2>3. from.id = ID(ms, 0) /\ to.id = ID(ms, MaxWord)
    BY Zenon, <1>2, <1>6, <2>1, <2>2 DEF parse_range_start, parse_range_end, parse_range_bound
  <2>4. ID(ms, 0) \in StreamID /\ (~IdLess(id, ID(ms, 0)) <=> id.ms >= ms)
    <3>1. 0 \in 0 .. MaxWord
      BY <1>1
    <3> QED BY <1>1, <1>3, <3>1 DEF IdLess
  <2>5. ID(ms, MaxWord) \in StreamID /\ (~IdLess(ID(ms, MaxWord), id) <=> id.ms <= ms)
    <3>1. MaxWord \in 0 .. MaxWord
      BY <1>1
    <3> QED BY <1>1, <1>3, <3>1 DEF IdLess
  <2> QED BY Zenon, <1>6, <2>1, <2>2, <2>3, <2>4, <2>5
<1>7. CASE bound.form = "full"
  <2>1. bound.form # "ms" /\ bound.form # "min" /\ bound.form # "max" /\ bound.id \in StreamID
    BY <1>7 DEF Bounds
  <2>2. from.id = bound.id /\ to.id = bound.id
    BY Zenon, <1>2, <1>7, <2>1 DEF parse_range_start, parse_range_end, parse_range_bound
  <2> QED BY Zenon, <1>7, <2>1, <2>2
<1>8. bound.form \in {"min", "max", "ms", "full"}
  BY DEF Bounds
<1> QED BY Zenon, <1>4, <1>5, <1>6, <1>7, <1>8

(* XRANGE over any two bounds answers the entries between them in the      *)
(* order of their IDs, at most COUNT of them; a bound without a sequence   *)
(* part takes in its whole millisecond (stream.cpp:103-142, 298-354).      *)
THEOREM Ranges == Spec => []RangeIsExact
<1>1. IInv => RangeIsExact
  <2> SUFFICES ASSUME IInv PROVE RangeIsExact
    OBVIOUS
  <2>1. added \in Seq(StreamID) /\ DOMAIN added = 1 .. Len(added)
        /\ \A i \in 1 .. Len(added) : added[i] \in StreamID
    BY DEF IInv, Ascending
  <2>2. ID(0, 0) \in StreamID
    BY WordAssumption DEF ID, StreamID, Word
  <2> SUFFICES ASSUME NEW from \in Bounds, NEW to \in Bounds, NEW count \in Counts,
                      parse_range_start(from).ok, parse_range_end(to).ok
               PROVE  \E p \in 0 .. Len(added) : \E n \in 0 .. Len(added) - p :
                        /\ \A i \in DOMAIN added :
                             (/\ CASE from.form = "ms" -> added[i].ms >= from.ms
                                   [] from.form = "full" -> ~IdLess(added[i], from.id) [] OTHER -> TRUE
                              /\ CASE to.form = "ms" -> added[i].ms <= to.ms
                                   [] to.form = "full" -> ~IdLess(to.id, added[i]) [] OTHER -> TRUE)
                             <=> i \in p + 1 .. p + n
                        /\ get_range(stream, parse_range_start(from).id, parse_range_end(to).id, count) =
                             SubSeq(added, p + 1, p + (IF count # 0 /\ count < n THEN count ELSE n))
    BY Zenon DEF RangeIsExact
  <2>3. count \in Nat
    BY Zenon, ReaderAssumption
  <2>4. PICK start \in StreamID, end \in StreamID :
          start = parse_range_start(from).id /\ end = parse_range_end(to).id
    BY Zenon, <2>2, BoundsMean
  <2>5. PICK p \in 0 .. Len(added), n \in 0 .. Len(added) :
          /\ n \in 0 .. Len(added) - p
          /\ \A i \in 1 .. Len(added) :
               ~IdLess(added[i], start) /\ ~IdLess(end, added[i]) <=> i \in p + 1 .. p + n
          /\ get_range(stream, start, end, count) = Taken(added, p, n, count)
    <3>1. PICK p \in 0 .. Len(added) : \E n \in 0 .. Len(added) - p :
           /\ \A i \in 1 .. Len(added) :
                ~IdLess(added[i], start) /\ ~IdLess(end, added[i]) <=> i \in p + 1 .. p + n
           /\ get_range(stream, start, end, count) = Taken(added, p, n, count)
      BY Zenon, <2>3, RunBetween
    <3>2. \A n \in 0 .. Len(added) - p : n \in 0 .. Len(added)
      BY <2>1
    <3> QED BY Zenon, <3>1, <3>2
  <2>6. ASSUME NEW i \in 1 .. Len(added)
        PROVE  (/\ CASE from.form = "ms" -> added[i].ms >= from.ms
                     [] from.form = "full" -> ~IdLess(added[i], from.id) [] OTHER -> TRUE
                /\ CASE to.form = "ms" -> added[i].ms <= to.ms
                     [] to.form = "full" -> ~IdLess(to.id, added[i]) [] OTHER -> TRUE)
               <=> i \in p + 1 .. p + n
    BY Zenon, <2>1, <2>4, <2>5, BoundsMean
  <2> QED BY Zenon, <2>1, <2>4, <2>5, <2>6 DEF Taken
<1> QED BY <1>1, Invariance, PTL

===============================================================================
