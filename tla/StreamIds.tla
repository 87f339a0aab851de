------------------------------ MODULE StreamIds ------------------------------
(***************************************************************************)
(* class Stream (src/stream/stream.cpp): entry IDs, how XADD chooses one,  *)
(* and the range scans behind XRANGE and XREAD.  The fields of an entry    *)
(* play no part in any of it, so a stream is the set of its keys in the    *)
(* radix tree together with max_id_ and has_max_id_.                       *)
(*                                                                         *)
(* A word of the code has 8 digits in base 256 (uint64_t, big endian).     *)
(***************************************************************************)
EXTENDS Integers, Sequences, FiniteSets

CONSTANTS Base, Digits

(* Base to the n. *)
Power[n \in 0 .. Digits] == IF n = 0 THEN 1 ELSE Base * Power[n - 1]

MaxWord == Power[Digits] - 1

ASSUME WordAssumption ==
  Base \in Nat \ {0, 1} /\ Digits \in Nat \ {0} /\ MaxWord \in Nat \ {0}

Word == 0 .. MaxWord

StreamID == [ms : Word, seq : Word]

ID(ms, seq) == [ms |-> ms, seq |-> seq]

(* operator< on IDs. *)
IdLess(a, b) ==
  \/ a.ms < b.ms
  \/ a.ms = b.ms /\ a.seq < b.seq

(* write_u64_be for both words of an ID. *)
encode_id(id) ==
  LET digit(word, i) == (word \div Power[Digits - i]) % Base
  IN  [i \in 1 .. 2 * Digits |->
         IF i <= Digits THEN digit(id.ms, i) ELSE digit(id.seq, i - Digits)]

(* read_u64_be for both halves of a key. *)
decode_id(key) ==
  LET word(from) ==
        LET value[i \in 0 .. Digits] ==
              IF i = 0 THEN 0 ELSE value[i - 1] * Base + key[from + i]
        IN  value[Digits]
  IN  ID(word(0), word(Digits))

(* The order of keys in the radix tree, which keeps the children of a node *)
(* by their bytes (rax.c).                                                 *)
KeyLess(x, y) ==
  \E i \in DOMAIN x : x[i] < y[i] /\ \A j \in 1 .. i - 1 : x[j] = y[j]

(* The keys as raxNext comes to them: the i-th has i - 1 keys below it. *)
InOrder(keys) ==
  [i \in 1 .. Cardinality(keys) |->
     CHOOSE k \in keys : Cardinality({x \in keys : KeyLess(x, k)}) = i - 1]

EmptyStream == [tree |-> {}, has_max_id |-> FALSE, max_id |-> ID(0, 0)]

-------------------------------------------------------------------------------
(* XADD.  An ID argument is one of the forms resolve_id tells apart. *)

IdTexts ==
  [form : {"auto"}] \cup [form : {"partial"}, ms : Word]
  \cup [form : {"explicit"}, id : StreamID] \cup [form : {"invalid"}]

Resolved(result, id) == [result |-> result, id |-> id]

Refused(result) == Resolved(result, ID(0, 0))

next_sequence(s, ms) ==
  IF ~s.has_max_id THEN Resolved("Ok", ID(ms, IF ms = 0 THEN 1 ELSE 0))
  ELSE IF ms > s.max_id.ms THEN Resolved("Ok", ID(ms, 0))
  ELSE IF s.max_id.seq = MaxWord THEN Refused("NotGreater")
  ELSE Resolved("Ok", ID(s.max_id.ms, s.max_id.seq + 1))

(* Mutant of resolve_id: an explicit ID is not compared with the top. *)
ResolveUncompared(s, text, wall) ==
  CASE text.form = "auto"     -> next_sequence(s, wall)
    [] text.form = "partial"  -> next_sequence(s, text.ms)
    [] text.form = "explicit" -> IF text.id = ID(0, 0) THEN Refused("ZeroID")
                                 ELSE Resolved("Ok", text.id)
    [] text.form = "invalid"  -> Refused("InvalidID")

(* wall: what now_milliseconds() answers; the system clock may go back. *)
resolve_id(s, text, wall) ==
  CASE text.form = "auto"     -> next_sequence(s, wall)
    [] text.form = "partial"  -> IF s.has_max_id /\ text.ms < s.max_id.ms
                                 THEN Refused("NotGreater")
                                 ELSE next_sequence(s, text.ms)
    [] text.form = "explicit" -> IF text.id = ID(0, 0) THEN Refused("ZeroID")
                                 ELSE IF s.has_max_id /\ ~IdLess(s.max_id, text.id)
                                 THEN Refused("NotGreater")
                                 ELSE Resolved("Ok", text.id)
    [] text.form = "invalid"  -> Refused("InvalidID")

(* Stream::insert: raxTryInsert refuses a key the tree already holds. *)
insert(s, text, wall) ==
  LET resolved == resolve_id(s, text, wall)
      result   == IF resolved.result = "Ok" /\ encode_id(resolved.id) \in s.tree
                  THEN "NotGreater" ELSE resolved.result
  IN  [result |-> result,
       id     |-> resolved.id,
       stream |-> IF result = "Ok"
                  THEN [tree       |-> s.tree \cup {encode_id(resolved.id)},
                        has_max_id |-> TRUE,
                        max_id     |-> resolved.id]
                  ELSE s]

-------------------------------------------------------------------------------
(* XRANGE and XREAD. *)

(* A bound as XRANGE and XREAD spell it: "-", "+", a millisecond part      *)
(* alone, or a whole ID.                                                   *)
Bounds ==
  [form : {"min"}] \cup [form : {"max"}] \cup [form : {"ms"}, ms : Word]
  \cup [form : {"full"}, id : StreamID]

Parsed(ok, id) == [ok |-> ok, id |-> id]

parse_range_bound(text, default_sequence) ==
  CASE text.form = "full" -> Parsed(TRUE, text.id)
    [] text.form = "ms"   -> Parsed(TRUE, ID(text.ms, default_sequence))
    [] OTHER              -> Parsed(FALSE, ID(0, 0))

parse_range_start(text) ==
  IF text.form = "min" THEN Parsed(TRUE, ID(0, 0)) ELSE parse_range_bound(text, 0)

(* Mutant of parse_range_end: a bare millisecond ends at its sequence 0. *)
RangeEndAtZero(text) ==
  IF text.form = "max" THEN Parsed(TRUE, ID(MaxWord, MaxWord))
                       ELSE parse_range_bound(text, 0)

parse_range_end(text) ==
  IF text.form = "max" THEN Parsed(TRUE, ID(MaxWord, MaxWord))
                       ELSE parse_range_bound(text, MaxWord)

parse_read_id(text) == parse_range_bound(text, 0)

(* Mutant of advance_id: the sequence number is not reset on a carry. *)
AdvanceWithoutReset(id) ==
  IF id.seq # MaxWord THEN Parsed(TRUE, ID(id.ms, id.seq + 1))
  ELSE IF id.ms = MaxWord THEN Parsed(FALSE, id)
  ELSE Parsed(TRUE, ID(id.ms + 1, id.seq))

(* Mutant of advance_id: no carry into the milliseconds. *)
AdvanceWithoutCarry(id) ==
  IF id.seq # MaxWord THEN Parsed(TRUE, ID(id.ms, id.seq + 1)) ELSE Parsed(FALSE, id)

(* The first ID after the given one; ok is FALSE when there is none. *)
advance_id(id) ==
  IF id.seq # MaxWord THEN Parsed(TRUE, ID(id.ms, id.seq + 1))
  ELSE IF id.ms = MaxWord THEN Parsed(FALSE, id)
  ELSE Parsed(TRUE, ID(id.ms + 1, 0))

(* The scan starts at the first key not below start and stops at the first *)
(* ID beyond end, or after count results when count is not 0.              *)
get_range(s, start, end, count) ==
  LET seek    == InOrder({k \in s.tree : ~KeyLess(k, encode_id(start))})
      scanned == [i \in DOMAIN seek |-> decode_id(seek[i])]
      inside  == {i \in DOMAIN scanned : \A j \in 1 .. i : ~IdLess(end, scanned[j])}
      total   == Cardinality(inside)
  IN  IF IdLess(end, start) THEN <<>>
      ELSE SubSeq(scanned, 1, IF count # 0 /\ count < total THEN count ELSE total)

===============================================================================
