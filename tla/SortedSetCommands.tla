--------------------------- MODULE SortedSetCommands ---------------------------
(***************************************************************************)
(* The handlers of src/store/sorted_sets.cpp and GEOADD: the type check,   *)
(* which reaps the key, around the operators of SortedSets.                *)
(***************************************************************************)
EXTENDS Keyspace, SortedSets

SetAt(s, key) == IF key \in DOMAIN s.sorted_sets THEN s.sorted_sets[key] ELSE EmptySet

StoreSet(s, key, z) == WithSets(s, Put(s.sorted_sets, key, z))

handle_zadd(s, now, key, entries) ==
  LET after == Reap(s, now, key)
      r     == Zadd(SetAt(s, key), entries)
  IN  IF wrong_sorted_set_type(s, now, key) THEN Result(after, WrongType)
      ELSE Result(StoreSet(after, key, r.set), Integer(r.added))

handle_geoadd(s, now, key, entries, nx, xx, ch) ==
  LET after == Reap(s, now, key)
      r     == Geoadd(SetAt(s, key), entries, nx, xx, ch)
  IN  IF nx /\ xx THEN Result(s, Error("syntax error"))
      ELSE IF wrong_sorted_set_type(s, now, key) THEN Result(after, WrongType)
      ELSE IF xx /\ key \notin DOMAIN s.sorted_sets THEN Result(after, Integer(0))
      ELSE Result(StoreSet(after, key, r.set), Integer(r.added))

(* A sorted set that has become empty is erased. *)
handle_zrem(s, now, key, members) ==
  LET after == Reap(s, now, key)
      r     == Zrem(SetAt(s, key), members)
  IN  IF wrong_sorted_set_type(s, now, key) THEN Result(after, WrongType)
      ELSE IF key \notin DOMAIN s.sorted_sets THEN Result(after, Integer(0))
      ELSE Result(IF DOMAIN r.set.scores = {}
                  THEN WithSets(after, Erase(after.sorted_sets, key))
                  ELSE StoreSet(after, key, r.set),
                  Integer(r.removed))

handle_zcard(s, now, key) ==
  Result(Reap(s, now, key),
         IF wrong_sorted_set_type(s, now, key) THEN WrongType
         ELSE Integer(Cardinality(DOMAIN SetAt(s, key).scores)))

handle_zscore(s, now, key, member) ==
  Result(Reap(s, now, key),
         IF wrong_sorted_set_type(s, now, key) THEN WrongType
         ELSE IF member \in DOMAIN SetAt(s, key).scores
         THEN Bulk(SetAt(s, key).scores[member]) ELSE NullBulk)

handle_zrank(s, now, key, member) ==
  Result(Reap(s, now, key),
         IF wrong_sorted_set_type(s, now, key) THEN WrongType
         ELSE IF member \in DOMAIN SetAt(s, key).scores
         THEN Integer(Zrank(SetAt(s, key), member)) ELSE NullBulk)

handle_zrange(s, now, key, start, stop) ==
  Result(Reap(s, now, key),
         IF wrong_sorted_set_type(s, now, key) THEN WrongType
         ELSE Array(Zrange(SetAt(s, key), start, stop)))

===============================================================================
