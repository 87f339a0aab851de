------------------------------- MODULE Keyspace -------------------------------
(***************************************************************************)
(* The state of class Store that holds data (src/store/store.hpp) and what *)
(* all its commands share (src/store/store.cpp): expiry, which is lazy,    *)
(* and the type of a key.                                                  *)
(*                                                                         *)
(* A store s is a record of five maps, named as in the code; a map is a    *)
(* function on the keys it contains.  Strings alone have deadlines.  The   *)
(* clock is the steady clock, in ticks.  Every handler is an operator that *)
(* takes a store and answers Result(store afterwards, reply).              *)
(***************************************************************************)
EXTENDS Bitmaps, StreamIds

CONSTANTS Keys,     \* names of keys
          Elements, \* values of list elements
          Members,  \* members of sorted sets, integers in the order of strings
          Scores    \* scores of sorted sets, integers in the order of doubles

ASSUME MembersAssumption == Members \subseteq Int /\ Scores \subseteq Int

(* f maps some of the elements of D to values in R. *)
IsMap(f, D, R) == DOMAIN f \subseteq D /\ f \in [DOMAIN f -> R]

EmptyMap == [k \in {} |-> 0]

Put(f, k, v) == [x \in DOMAIN f \cup {k} |-> IF x = k THEN v ELSE f[x]]

Erase(f, k) == [x \in DOMAIN f \ {k} |-> f[x]]

StoreOf(strings, deadlines, lists, streams, sets) ==
  [Storage |-> strings, Expirations |-> deadlines, DynamicVector |-> lists,
   Streams |-> streams, sorted_sets |-> sets]

EmptyStore == StoreOf(EmptyMap, EmptyMap, EmptyMap, EmptyMap, EmptyMap)

(* The store s with some of its maps replaced. *)
WithStrings(s, strings, deadlines) ==
  StoreOf(strings, deadlines, s.DynamicVector, s.Streams, s.sorted_sets)
WithLists(s, lists) ==
  StoreOf(s.Storage, s.Expirations, lists, s.Streams, s.sorted_sets)
WithStreams(s, streams) ==
  StoreOf(s.Storage, s.Expirations, s.DynamicVector, streams, s.sorted_sets)
WithSets(s, sets) ==
  StoreOf(s.Storage, s.Expirations, s.DynamicVector, s.Streams, sets)

Result(st, out) == [st |-> st, out |-> out]

(* Replies, by the RESP type that carries them. *)
Reply(kind, value) == [kind |-> kind, value |-> value]
Integer(n)   == Reply("integer", n)
Bulk(v)      == Reply("bulk", v)
Array(seq)   == Reply("array", seq)
Ok           == Reply("simple", "OK")
NullBulk     == Reply("null bulk", "")
NullArray    == Reply("null array", "")
Blocked      == Reply("blocked", "")   \* pending_block_ is set, nothing is sent
Error(text)  == Reply("error", text)
WrongType    == Error("WRONGTYPE")

IsError(out) == out.kind = "error"

SameReply(a, b) == a.kind = b.kind /\ a.value = b.value

-------------------------------------------------------------------------------

(* The condition of Store::is_expired ... *)
Expired(s, now, k) == k \in DOMAIN s.Expirations /\ now >= s.Expirations[k]

(* Mutant of Reap: the deadline stays behind. *)
ReapStringOnly(s, now, k) ==
  IF Expired(s, now, k) THEN WithStrings(s, Erase(s.Storage, k), s.Expirations) ELSE s

(* ... and its effect: the deadline and the string go, nothing else does. *)
Reap(s, now, k) ==
  IF Expired(s, now, k)
  THEN WithStrings(s, Erase(s.Storage, k), Erase(s.Expirations, k))
  ELSE s

(* Mutant of key_type: the deadline is not looked at. *)
KeyTypeIgnoringExpiry(s, now, k) ==
  IF k \in DOMAIN s.Storage THEN "string"
  ELSE IF k \in DOMAIN s.DynamicVector THEN "list"
  ELSE IF k \in DOMAIN s.Streams THEN "stream"
  ELSE IF k \in DOMAIN s.sorted_sets THEN "zset"
  ELSE "none"

(* An expired key has type "none" in the call that finds it expired, even  *)
(* if another map holds the key.                                           *)
key_type(s, now, k) ==
  IF Expired(s, now, k) THEN "none"
  ELSE IF k \in DOMAIN s.Storage THEN "string"
  ELSE IF k \in DOMAIN s.DynamicVector THEN "list"
  ELSE IF k \in DOMAIN s.Streams THEN "stream"
  ELSE IF k \in DOMAIN s.sorted_sets THEN "zset"
  ELSE "none"

wrong_string_type(s, now, k) == key_type(s, now, k) \notin {"none", "string"}

wrong_sorted_set_type(s, now, k) == key_type(s, now, k) \notin {"none", "zset"}

(* What WATCH snapshots: the string of a live key, or nothing. *)
peek(s, now, k) ==
  Result(Reap(s, now, k),
         IF ~Expired(s, now, k) /\ k \in DOMAIN s.Storage
         THEN Bulk(s.Storage[k]) ELSE NullBulk)

handle_type(s, now, key) ==
  Result(Reap(s, now, key), Reply("simple", key_type(s, now, key)))

(* What reaping each key of a set leaves. *)
ReapSet(s, now, keys) ==
  LET gone == {k \in keys : Expired(s, now, k)}
  IN  WithStrings(s, [k \in DOMAIN s.Storage \ gone |-> s.Storage[k]],
                     [k \in DOMAIN s.Expirations \ gone |-> s.Expirations[k]])

ReapAll(s, now) == ReapSet(s, now, Keys)

(* KEYS looks at every key of every map, and so reaps every expired        *)
(* string.  A key that several maps hold is listed once for each of them;  *)
(* an expired string is not listed, the other maps' uses of its key are.   *)
(* The pattern is the set of keys it matches; the reply is the number of   *)
(* times each of them is listed.                                           *)
handle_keys(s, now, pattern) ==
  LET after == ReapAll(s, now)
      holders(k) == {m \in {"Storage", "DynamicVector", "Streams", "sorted_sets"} :
                       k \in DOMAIN after[m]}
  IN  Result(after, Reply("keys", [k \in pattern |-> Cardinality(holders(k))]))

(* Store::load_entries, at startup.  An entry of the RDB file has a key, a *)
(* value and, if it is dated, what is left of its life: a number of         *)
(* ticks, not positive when it is already over; those are skipped.  The    *)
(* last entry of a key wins, but a deadline outlives a later entry of the  *)
(* same key that has none.                                                 *)
RdbEntries == [key : Keys, value : String, dated : BOOLEAN, left : Int]

load_entries(entries, now) ==
  LET kept   == {i \in DOMAIN entries : entries[i].dated => entries[i].left > 0}
      dated  == {i \in kept : entries[i].dated}
      keysOf(I)  == {entries[i].key : i \in I}
      last(I, k) == CHOOSE i \in I : /\ entries[i].key = k
                                     /\ \A j \in I : entries[j].key = k => j <= i
  IN  WithStrings(EmptyStore,
                  [k \in keysOf(kept) |-> entries[last(kept, k)].value],
                  [k \in keysOf(dated) |-> now + entries[last(dated, k)].left])

===============================================================================
