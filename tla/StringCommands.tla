---------------------------- MODULE StringCommands ----------------------------
(***************************************************************************)
(* The commands on strings: src/store/strings.cpp, and the handlers of     *)
(* src/store/bitmaps.cpp around the operators of Bitmaps.                  *)
(***************************************************************************)
EXTENDS Keyspace

CONSTANTS IntMin, IntMax,  \* the range of int
          Stoi(_),         \* the number a text begins with: [ok |-> BOOLEAN, n |-> it]
          ToText(_),       \* std::to_string
          MaxOffset        \* the greatest bit offset, 2^32 - 1

ASSUME NumberAssumption ==
  /\ IntMin \in Int /\ IntMax \in Int /\ MaxOffset \in Int
  /\ IntMin <= 0 /\ IntMax >= 1
  /\ \A n \in IntMin .. IntMax : ToText(n) \in String
  /\ \A n \in IntMin .. IntMax : Stoi(ToText(n)) = [ok |-> TRUE, n |-> n]

-------------------------------------------------------------------------------
(* strings.cpp *)

(* The lambda assign of handle_set, and the deadlines handle_set leaves. *)
Assign(s, key, value, deadlines) ==
  StoreOf(Put(s.Storage, key, value), deadlines, Erase(s.DynamicVector, key),
          Erase(s.Streams, key), Erase(s.sorted_sets, key))

(* option.form is "none" for SET key value; otherwise it is the word in    *)
(* the place of EX or PX, and duration what std::stoll makes of the next.  *)
(* EX and PX differ in the unit of time only.                              *)
handle_set(s, now, key, value, option) ==
  IF option.form = "none"
  THEN Result(Assign(s, key, value, Erase(s.Expirations, key)), Ok)
  ELSE IF option.duration <= 0 THEN Result(s, Error("invalid expire time"))
  ELSE IF option.form # "PX" THEN Result(s, Error("syntax error"))
  ELSE Result(Assign(s, key, value, Put(s.Expirations, key, now + option.duration)), Ok)

handle_get(s, now, key) == peek(s, now, key)

handle_strlen(s, now, key) ==
  LET after == Reap(s, now, key)
  IN  Result(after,
             IF wrong_string_type(s, now, key) THEN WrongType
             ELSE IF key \in DOMAIN after.Storage THEN Integer(Len(after.Storage[key]))
             ELSE Integer(0))

(* n++ on an int; beyond IntMax it wraps, as the compiled code does. *)
Increment(n) == IF n = IntMax THEN IntMin ELSE n + 1

StoreString(s, key, value) == WithStrings(s, Put(s.Storage, key, value), s.Expirations)

(* std::stoi throws when there is no number and when it does not fit.      *)
(* INCR neither looks at the deadline of the key nor changes it. *)
handle_incr(s, key) ==
  LET number == Stoi(s.Storage[key])
      stored(n) == Result(StoreString(s, key, ToText(n)), Integer(n))
  IN  IF key \notin DOMAIN s.Storage THEN stored(1)
      ELSE IF number.ok /\ number.n \in IntMin .. IntMax THEN stored(Increment(number.n))
      ELSE Result(s, Error("not an integer"))

-------------------------------------------------------------------------------
(* bitmaps.cpp *)

(* The string of a key, the empty one when there is none. *)
StringAt(s, key) == IF key \in DOMAIN s.Storage THEN s.Storage[key] ELSE <<>>

handle_setbit(s, now, key, offset, bit) ==
  LET after == Reap(s, now, key)
      value == StringAt(after, key)
  IN  IF offset > MaxOffset THEN Result(s, Error("bit offset"))
      ELSE IF wrong_string_type(s, now, key) THEN Result(after, WrongType)
      ELSE Result(StoreString(after, key, SetBit(value, offset, bit)),
                  Integer(GetBit(value, offset)))

handle_getbit(s, now, key, offset) ==
  LET after == Reap(s, now, key)
  IN  IF offset > MaxOffset THEN Result(s, Error("bit offset"))
      ELSE IF wrong_string_type(s, now, key) THEN Result(after, WrongType)
      ELSE Result(after, Integer(GetBit(StringAt(after, key), offset)))

handle_bitcount(s, now, key, start, end, unit) ==
  LET after == Reap(s, now, key)
  IN  IF wrong_string_type(s, now, key) THEN Result(after, WrongType)
      ELSE Result(after, Integer(BitCount(StringAt(after, key), start, end, unit)))

(* Mutant of Looked: BITOP does not look at the deadlines of its sources. *)
LookedAtNone(s, now, sources, n) == s

(* The store after the first n sources of BITOP were looked at; each look  *)
(* reaps its key.                                                          *)
Looked(s, now, sources, n) == ReapSet(s, now, {sources[j] : j \in 1 .. n})

(* The first source of the wrong type ends the command.  A source named    *)
(* twice is expired only at the first look.                                *)
handle_bitop(s, now, op, dest, sources) ==
  LET before(j)  == Looked(s, now, sources, j - 1)
      wrong      == {j \in DOMAIN sources :
                       wrong_string_type(before(j), now, sources[j])}
      after      == Looked(s, now, sources, Len(sources))
      result     == BitOp(op, [j \in DOMAIN sources |-> StringAt(after, sources[j])])
      strings    == IF result = <<>> THEN Erase(after.Storage, dest)
                                     ELSE Put(after.Storage, dest, result)
  IN  IF op \notin BitOps \/ (op = "NOT" /\ Len(sources) # 1)
      THEN Result(s, Error("syntax error"))
      ELSE IF wrong # {}
      THEN Result(Looked(s, now, sources, CHOOSE j \in wrong : \A i \in wrong : j <= i),
                  WrongType)
      ELSE Result(StoreOf(strings, Erase(after.Expirations, dest),
                          Erase(after.DynamicVector, dest), Erase(after.Streams, dest),
                          Erase(after.sorted_sets, dest)),
                  Integer(Len(result)))

===============================================================================
