----------------------------- MODULE ListCommands -----------------------------
(***************************************************************************)
(* The commands on lists (src/store/lists.cpp).  None of the handlers      *)
(* looks at deadlines or at the other maps, except that BLPOP refuses a    *)
(* sorted set; the others leave that check to dispatch_command.            *)
(***************************************************************************)
EXTENDS Keyspace

ListAt(s, key) == IF key \in DOMAIN s.DynamicVector THEN s.DynamicVector[key] ELSE <<>>

(* Mutant of StoreList: an empty list stays. *)
StoreListAlways(s, key, list) == WithLists(s, Put(s.DynamicVector, key, list))

(* A list that has become empty is erased. *)
StoreList(s, key, list) ==
  WithLists(s, IF list = <<>> THEN Erase(s.DynamicVector, key)
                              ELSE Put(s.DynamicVector, key, list))

handle_rpush(s, key, elements) ==
  LET list == ListAt(s, key) \o elements
  IN  Result(StoreList(s, key, list), Integer(Len(list)))

(* Each element in turn is put in front of the list. *)
handle_lpush(s, key, elements) ==
  LET n    == Len(elements)
      list == [i \in 1 .. n |-> elements[n + 1 - i]] \o ListAt(s, key)
  IN  Result(StoreList(s, key, list), Integer(Len(list)))

handle_llen(s, key) == Result(s, Integer(Len(ListAt(s, key))))

Drop(list, n) == SubSeq(list, n + 1, Len(list))

(* LPOP key: one element, as a string. *)
handle_lpop(s, key) ==
  LET list == ListAt(s, key)
  IN  IF list = <<>> THEN Result(s, NullBulk)
      ELSE Result(StoreList(s, key, Drop(list, 1)), Bulk(list[1]))

(* LPOP key count. *)
handle_lpop_count(s, key, count) ==
  LET list  == ListAt(s, key)
      taken == IF count < Len(list) THEN count ELSE Len(list)
  IN  IF count < 0 THEN Result(s, Error("out of range"))
      ELSE IF list = <<>> THEN Result(s, NullArray)
      ELSE Result(StoreList(s, key, Drop(list, taken)), Array(SubSeq(list, 1, taken)))

(* The positions of those of the keys that hold a list. *)
Ready(s, keys) == {i \in DOMAIN keys : ListAt(s, keys[i]) # <<>>}

First(I) == CHOOSE i \in I : \A j \in I : i <= j

(* Pops from the first key that holds a list; there must be one.  The      *)
(* command that is propagated for it is LPOP of that key.                  *)
try_blpop(s, keys) ==
  LET key  == keys[First(Ready(s, keys))]
      list == s.DynamicVector[key]
  IN  Result(StoreList(s, key, Drop(list, 1)), Array(<<key, list[1]>>))

handle_blpop(s, keys) ==
  IF \E i \in DOMAIN keys : keys[i] \in DOMAIN s.sorted_sets THEN Result(s, WrongType)
  ELSE IF Ready(s, keys) # {} THEN try_blpop(s, keys)
  ELSE Result(s, Blocked)

(* A stop that lies before the list is taken for its first element. *)
handle_lrange(s, key, start, stop) ==
  LET list    == ListAt(s, key)
      from(i) == IF i >= 0 THEN i ELSE IF i + Len(list) >= 0 THEN i + Len(list) ELSE 0
      last    == IF from(stop) >= Len(list) THEN Len(list) - 1 ELSE from(stop)
  IN  Result(s, IF from(start) >= Len(list) \/ from(start) > from(stop) THEN Array(<<>>)
                ELSE Array(SubSeq(list, from(start) + 1, last + 1)))

===============================================================================
