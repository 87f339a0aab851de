----------------------------------- MODULE Rdb -----------------------------------
(***************************************************************************)
(* src/rdb/rdb.cpp: the Reader of an RDB file and one turn of the loop of  *)
(* load_rdb.                                                               *)
(*                                                                         *)
(* Bytes are scaled to four bits: two for the form of a length and two for *)
(* its value, where the code has two and six.  The bytes that have a       *)
(* meaning keep their order: opcodes are 10 to 15 for 0xFA to 0xFF and 0,  *)
(* string encodings 12 to 14 for 0xC0 to 0xC2, long lengths 8 and 9 for    *)
(* 0x80 and 0x81.                                                          *)
(***************************************************************************)
EXTENDS Integers, SequencesExt

CONSTANT Thousand   \* milliseconds in a second, 1000 in the code

ASSUME RdbAssumption == Thousand \in Nat \ {0}

(* What a read comes to: a value and the place after it, or a throw. *)
Got(value, pos) == [ok |-> TRUE, value |-> value, pos |-> pos]
Throw == [ok |-> FALSE]

bytes(data, pos, count) ==
  IF Len(data) - pos < count THEN Throw ELSE Got(SubSeq(data, pos + 1, pos + count), pos + count)

byte(data, pos) == IF pos >= Len(data) THEN Throw ELSE Got(data[pos + 1], pos + 1)

(* Numbers of several bytes, the least or the most significant one first. *)
BigEndian(digits) ==
  LET value[i \in 0 .. Len(digits)] == IF i = 0 THEN 0 ELSE value[i - 1] * 16 + digits[i]
  IN  value[Len(digits)]
LittleEndian(digits) == BigEndian(Reverse(digits))

big_endian(data, pos, width) ==
  LET r == bytes(data, pos, width) IN IF r.ok THEN Got(BigEndian(r.value), r.pos) ELSE r

little_endian(data, pos, width) ==
  LET r == bytes(data, pos, width) IN IF r.ok THEN Got(LittleEndian(r.value), r.pos) ELSE r

length(data, pos) ==
  IF ~byte(data, pos).ok THEN Throw
  ELSE LET first == byte(data, pos).value
           next  == byte(data, pos + 1)
       IN  CASE first \div 4 = 0 -> Got(first, pos + 1)
             [] first \div 4 = 1 -> IF next.ok THEN Got((first % 4) * 16 + next.value, pos + 2) ELSE Throw
             [] first = 8        -> big_endian(data, pos + 1, 4)
             [] first = 9        -> big_endian(data, pos + 1, 8)
             [] OTHER            -> Throw

(* std::to_string of a number of some bytes read as a signed one; digits   *)
(* and the sign are their codes.                                           *)
decimal[n \in Nat] ==
  IF n < 10 THEN <<48 + n>> ELSE Append(decimal[n \div 10], 48 + (n % 10))
Signed(n, width) == IF n >= 16 ^ width \div 2 THEN n - 16 ^ width ELSE n
to_string(n) == IF n < 0 THEN <<45>> \o decimal[-n] ELSE decimal[n]

Integer(data, pos, width) ==
  LET r == little_endian(data, pos, width)
  IN  IF r.ok THEN Got(to_string(Signed(r.value, width)), r.pos) ELSE r

string(data, pos) ==
  IF ~byte(data, pos).ok THEN Throw
  ELSE LET first == byte(data, pos).value
           size  == length(data, pos)
       IN  CASE first = 12 -> Integer(data, pos + 1, 1)
             [] first = 13 -> Integer(data, pos + 1, 2)
             [] first = 14 -> Integer(data, pos + 1, 4)
             [] first = 15 -> Throw
             [] OTHER      -> IF size.ok THEN bytes(data, size.pos, size.value) ELSE Throw

(* What is read after r, which may have thrown. *)
string_after(data, r) == IF r.ok THEN string(data, r.pos) ELSE r
length_after(data, r) == IF r.ok THEN length(data, r.pos) ELSE r

-------------------------------------------------------------------------------
(* The loop of load_rdb.  Its state is the place in the file, the entries  *)
(* so far and the expiry for the next of them, if any.                     *)

Loading(pos, entries, expiry) ==
  [status |-> "loading", pos |-> pos, entries |-> entries, expire_at_ms |-> expiry]

Loaded(entries) == [status |-> "loaded", entries |-> entries]
Failed          == [status |-> "failed", entries |-> <<>>]

Never == {}   \* no expiry; otherwise a set of one number

(* The header of nine bytes starts with "REDIS", here five 1s. *)
Header(data) ==
  LET r == bytes(data, 0, 9)
  IN  IF r.ok /\ SubSeq(r.value, 1, 5) = <<1, 1, 1, 1, 1>> THEN Loading(9, <<>>, Never) ELSE Failed

(* The loop goes on after r, which may have thrown. *)
Continue(l, r) == IF r.ok THEN Loading(r.pos, l.entries, l.expire_at_ms) ELSE Failed
Expiry(l, r, unit) == IF r.ok THEN Loading(r.pos, l.entries, {r.value * unit}) ELSE Failed

(* Mutant of Entry: the expiry stays for the entries that follow. *)
EntryKeeping(l, key, value) ==
  IF key.ok /\ value.ok
  THEN Loading(value.pos, Append(l.entries, [key |-> key.value, value |-> value.value,
                                             expire_at_ms |-> l.expire_at_ms]), l.expire_at_ms)
  ELSE Failed

Entry(l, key, value) ==
  IF key.ok /\ value.ok
  THEN Loading(value.pos, Append(l.entries, [key |-> key.value, value |-> value.value,
                                             expire_at_ms |-> l.expire_at_ms]), Never)
  ELSE Failed

Opcode(data, l) ==
  LET at  == l.pos + 1
      key == string(data, at)
  IN  IF l.pos >= Len(data) THEN Loaded(l.entries)
      ELSE CASE data[at] = 10 -> Continue(l, string_after(data, key))
             [] data[at] = 14 -> Continue(l, length(data, at))
             [] data[at] = 11 -> Continue(l, length_after(data, length(data, at)))
             [] data[at] = 12 -> Expiry(l, little_endian(data, at, 8), 1)
             [] data[at] = 13 -> Expiry(l, little_endian(data, at, 4), Thousand)
             [] data[at] = 0  -> Entry(l, key, string_after(data, key))
             [] data[at] = 15 -> Loaded(l.entries)
             [] OTHER         -> Failed

===============================================================================
