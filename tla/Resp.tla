---------------------------------- MODULE Resp ----------------------------------
(***************************************************************************)
(* src/resp/resp.cpp: how commands are written as arrays of bulk strings,  *)
(* and how they are cut out of a buffer that input is appended to.         *)
(*                                                                         *)
(* A byte is a string of one letter, but for "CR" and "LF".  Numbers are   *)
(* written in base Base, so that short strings have lengths of more than   *)
(* one digit.                                                              *)
(***************************************************************************)
EXTENDS Integers, SequencesExt

CONSTANT Base   \* the base numbers are written in, 10 in the code

ASSUME RespAssumption == Base \in 2 .. 10

Digits == <<"0", "1", "2", "3", "4", "5", "6", "7", "8", "9">>

(* std::to_string. *)
numeral[n \in Nat] ==
  IF n < Base THEN <<Digits[n + 1]>> ELSE Append(numeral[n \div Base], Digits[(n % Base) + 1])

(* std::stoull: the digits a text starts with, and their value.  (Blanks   *)
(* and signs, which it takes too, are never written.)                      *)
Leading(text) ==
  SubSeq(text, 1, CHOOSE n \in 0 .. Len(text) :
    /\ \A i \in 1 .. n : text[i] \in ToSet(SubSeq(Digits, 1, Base))
    /\ n = Len(text) \/ text[n + 1] \notin ToSet(SubSeq(Digits, 1, Base)))

Value(text) ==
  LET value[i \in 0 .. Len(text)] ==
        IF i = 0 THEN 0
        ELSE value[i - 1] * Base + (CHOOSE d \in DOMAIN Digits : Digits[d] = text[i]) - 1
  IN  value[Len(text)]

CRLF == <<"CR", "LF">>

BulkString(value) == <<"$">> \o numeral[Len(value)] \o CRLF \o value \o CRLF

(* RespType::Array(elements).to_bytes(). *)
Array(elements) ==
  <<"*">> \o numeral[Len(elements)] \o CRLF
    \o FlattenSeq([i \in DOMAIN elements |-> BulkString(elements[i])])

-------------------------------------------------------------------------------
(* What a parser comes to: a value and the number of bytes it took, that   *)
(* the buffer holds only part of one, or that it is malformed.             *)

Parsed(value, used) == [status |-> "ok", value |-> value, used |-> used]
Incomplete == [status |-> "incomplete"]
Malformed  == [status |-> "malformed"]

(* The text before the first CRLF of the buffer, from a place on. *)
read_till_crlf(buffer, from) ==
  LET ends == {i \in from .. Len(buffer) - 1 : buffer[i] = "CR" /\ buffer[i + 1] = "LF"}
      pos  == CHOOSE i \in ends : \A j \in ends : i <= j
  IN  IF ends = {} THEN Incomplete ELSE Parsed(SubSeq(buffer, from, pos - 1), pos + 1)

(* The number in a line that starts with a given byte; used is the place   *)
(* of its end.                                                             *)
Number(digits, used) == IF digits = <<>> THEN Malformed ELSE Parsed(Value(digits), used)

InLine(line) == IF line.status # "ok" THEN line ELSE Number(Leading(line.value), line.used)

Counted(buffer, from, mark) ==
  IF from > Len(buffer) THEN Incomplete
  ELSE IF buffer[from] # mark THEN Malformed
  ELSE InLine(read_till_crlf(buffer, from + 1))

(* The string after its length. *)
Bulk(buffer, length) ==
  IF length.status # "ok" THEN length
  ELSE IF length.used + length.value + 2 > Len(buffer) THEN Incomplete
  ELSE Parsed(SubSeq(buffer, length.used + 1, length.used + length.value),
              length.used + length.value + 2)

parse_bulk_string(buffer, from) == Bulk(buffer, Counted(buffer, from, "$"))

(* The elements up to one more, which is read from the buffer. *)
Added(before, element) ==
  IF element.status # "ok" THEN element
  ELSE Parsed(Append(before.value, element.value), element.used)

Further(buffer, before) ==
  IF before.status # "ok" THEN before
  ELSE Added(before, parse_bulk_string(buffer, before.used + 1))

Elements(buffer, count) ==
  LET upto[i \in 0 .. count.value] ==
        IF i = 0 THEN Parsed(<<>>, count.used) ELSE Further(buffer, upto[i - 1])
  IN  upto[count.value]

Command(buffer, count) == IF count.status # "ok" THEN count ELSE Elements(buffer, count)

parse_command(buffer) == Command(buffer, Counted(buffer, 1, "*"))

===============================================================================
