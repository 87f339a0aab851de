---------------------------- MODULE CommandProofs -----------------------------
(***************************************************************************)
(* What the commands on data do to any store, for every set of keys and    *)
(* arguments and every size of byte and word.                              *)
(*                                                                         *)
(* A good store satisfies the four invariants of Store (Good).  There is a *)
(* lemma for each handler: from a good store it makes a good store.  Then  *)
(* the same for a command that is not propagated: it leaves the store, or  *)
(* the store without some expired strings (Unseen).                        *)
(***************************************************************************)
EXTENDS Commands, TLAPS, FiniteSetTheorems, WellFoundedInduction

IsGoodSet(z) ==
  /\ IsSortedSet(z)
  /\ z.ordered = {<<z.scores[m], m>> : m \in DOMAIN z.scores}
  /\ DOMAIN z.scores # {}

GoodStreams == {x \in StreamValues : x.has_max_id /\ encode_id(x.max_id) \in x.tree}

StringsOk(S, E) ==
  IsMap(S, Keys, String) /\ IsMap(E, Keys, Int) /\ DOMAIN E \subseteq DOMAIN S

ListsOk(L) == IsMap(L, Keys, Seq(Elements) \ {<<>>})

StreamsOk(X) == IsMap(X, Keys, GoodStreams)

SetsOk(Z) == \A k \in DOMAIN Z : k \in Keys /\ IsGoodSet(Z[k])

(* The inductive invariant, of a store. *)
Good(s) ==
  /\ s = StoreOf(s.Storage, s.Expirations, s.DynamicVector, s.Streams, s.sorted_sets)
  /\ StringsOk(s.Storage, s.Expirations)
  /\ ListsOk(s.DynamicVector)
  /\ StreamsOk(s.Streams)
  /\ SetsOk(s.sorted_sets)

-------------------------------------------------------------------------------
(* Numbers. *)

(* A set of natural numbers has a least element. *)
LEMMA LeastElement ==
  ASSUME NEW I \in SUBSET Nat, I # {}
  PROVE  \E i \in I : \A j \in I : i <= j
<1>1. PICK R : IsWellFoundedOn(R, Nat) /\ \A i, j \in Nat : <<i, j>> \in R <=> i < j
  <2>1. \A i, j \in Nat : <<i, j>> \in OpToRel(<, Nat) <=> i < j
    BY Zenon DEF OpToRel
  <2> QED BY <2>1, NatLessThanWellFounded, Zenon
<1>2. PICK i \in I : \A j \in I : ~ (<<j, i>> \in R)
  <2>1. IsWellFoundedOn(R, Nat) /\ I \subseteq Nat
    BY <1>1
  <2> QED BY <2>1, WFMin, Zenon
<1>3. \A j \in I : ~ (j < i)
  BY <1>1, <1>2, Zenon
<1> QED BY <1>3

(* A bounded set of natural numbers has a greatest element. *)
LEMMA GreatestExists ==
  ASSUME NEW n \in Nat, NEW I \in SUBSET (0 .. n), I # {}
  PROVE  \E i \in I : \A j \in I : j <= i
<1> DEFINE D == {n - i : i \in I}
<1>1. D # {} /\ D \in SUBSET Nat
  <2>1. \A i \in I : n - i \in Nat
    OBVIOUS
  <2>2. D # {}
    BY Zenon
  <2> QED BY <2>1, <2>2, Zenon
<1>2. PICK d \in D : \A e \in D : d <= e
  BY <1>1, LeastElement, Zenon
<1>3. PICK i \in I : d = n - i
  BY Zenon, <1>2
<1>4. ASSUME NEW j \in I PROVE j <= i
  <2>1. n - i <= n - j
    BY Zenon, <1>2, <1>3
  <2>2. i \in Int /\ j \in Int
    OBVIOUS
  <2> HIDE DEF D
  <2> QED BY <2>1, <2>2
<1> QED BY Zenon, <1>4

-------------------------------------------------------------------------------
(* Maps. *)

(* Put adds or replaces the value of one key. *)
LEMMA PutMap ==
  ASSUME NEW D, NEW R, NEW f, IsMap(f, D, R), NEW k \in D, NEW v \in R
  PROVE  /\ IsMap(Put(f, k, v), D, R)
         /\ DOMAIN Put(f, k, v) = DOMAIN f \cup {k}
         /\ Put(f, k, v)[k] = v
         /\ \A x \in DOMAIN f : x # k => Put(f, k, v)[x] = f[x]
BY DEF IsMap, Put

(* Erase removes one key. *)
LEMMA EraseMap ==
  ASSUME NEW D, NEW R, NEW f, IsMap(f, D, R), NEW k
  PROVE  /\ IsMap(Erase(f, k), D, R)
         /\ DOMAIN Erase(f, k) = DOMAIN f \ {k}
         /\ \A x \in DOMAIN f : x # k => Erase(f, k)[x] = f[x]
BY DEF IsMap, Erase

(* The same for the map of sorted sets. *)
LEMMA PutSet ==
  ASSUME NEW Z, SetsOk(Z), NEW k \in Keys, NEW z, IsGoodSet(z)
  PROVE  SetsOk(Put(Z, k, z))
BY DEF SetsOk, Put

(* Erasing the key of a sorted set leaves sorted sets that agree and are not*)
(* empty.                                                                  *)
LEMMA EraseSet ==
  ASSUME NEW Z, SetsOk(Z), NEW k
  PROVE  SetsOk(Erase(Z, k))
BY DEF SetsOk, Erase

(* A store made of good maps is good. *)
LEMMA StoreOfGood ==
  ASSUME NEW S, NEW E, NEW L, NEW X, NEW Z,
         StringsOk(S, E), ListsOk(L), StreamsOk(X), SetsOk(Z)
  PROVE  Good(StoreOf(S, E, L, X, Z))
BY DEF Good, StoreOf

(* Removing some keys from both string maps, as reaping does. *)
LEMMA ReapSetGood ==
  ASSUME NEW s, Good(s), NEW t, NEW keys
  PROVE  /\ Good(ReapSet(s, t, keys))
         /\ ReapSet(s, t, keys).DynamicVector = s.DynamicVector
         /\ ReapSet(s, t, keys).Streams = s.Streams
         /\ ReapSet(s, t, keys).sorted_sets = s.sorted_sets
<1> DEFINE gone == {k \in keys : Expired(s, t, k)}
           S == [k \in DOMAIN s.Storage \ gone |-> s.Storage[k]]
           E == [k \in DOMAIN s.Expirations \ gone |-> s.Expirations[k]]
<1>1. StringsOk(S, E)
  <2> HIDE DEF gone
  <2> QED BY DEF Good, StringsOk, IsMap
<1>2. ReapSet(s, t, keys) = StoreOf(S, E, s.DynamicVector, s.Streams, s.sorted_sets)
  BY DEF ReapSet, WithStrings
<1> HIDE DEF S, E
<1> QED BY <1>1, <1>2, StoreOfGood DEF Good, StoreOf

(* Reaping one key: is_expired. *)
LEMMA ReapGood ==
  ASSUME NEW s, Good(s), NEW t, NEW k
  PROVE  /\ Good(Reap(s, t, k))
         /\ Reap(s, t, k).DynamicVector = s.DynamicVector
         /\ Reap(s, t, k).Streams = s.Streams
         /\ Reap(s, t, k).sorted_sets = s.sorted_sets
<1>1. StringsOk(Erase(s.Storage, k), Erase(s.Expirations, k))
  BY DEF Good, StringsOk, IsMap, Erase
<1> QED BY <1>1, StoreOfGood DEF Reap, Good, WithStrings, StoreOf

-------------------------------------------------------------------------------
(* Commands on strings. *)

(* SET keeps the store good (strings.cpp:6): the deadline it writes belongs*)
(* to the string it writes.                                                *)
LEMMA HandleSet ==
  ASSUME NEW s, Good(s), NEW t \in Nat, NEW key \in Keys, NEW value \in String,
         NEW option \in SetOptions
  PROVE  Good(handle_set(s, t, key, value, option).st)
<1> DEFINE after(E) == StoreOf(Put(s.Storage, key, value), E, Erase(s.DynamicVector, key),
                               Erase(s.Streams, key), Erase(s.sorted_sets, key))
<1>1. ListsOk(Erase(s.DynamicVector, key)) /\ StreamsOk(Erase(s.Streams, key))
  BY DEF Good, ListsOk, StreamsOk, IsMap, Erase
<1>2. SetsOk(Erase(s.sorted_sets, key))
  BY EraseSet DEF Good
<1>3. ASSUME NEW E, StringsOk(Put(s.Storage, key, value), E)
      PROVE  Good(after(E))
  BY <1>1, <1>2, <1>3, StoreOfGood
<1>4. Good(after(Erase(s.Expirations, key)))
  <2>1. StringsOk(Put(s.Storage, key, value), Erase(s.Expirations, key))
    BY DEF Good, StringsOk, IsMap, Put, Erase
  <2> QED BY <2>1, <1>3
<1>5. Good(after(Put(s.Expirations, key, t + option.duration)))
  <2>1. t + option.duration \in Int
    BY DEF SetOptions
  <2>2. StringsOk(Put(s.Storage, key, value), Put(s.Expirations, key, t + option.duration))
    BY <2>1 DEF Good, StringsOk, IsMap, Put
  <2> QED BY <2>2, <1>3
<1> QED BY <1>4, <1>5 DEF handle_set, Assign, Result

(* Storing a string under a key keeps the store good, whatever deadline    *)
(* the key has.                                                            *)
LEMMA StoreStringGood ==
  ASSUME NEW s, Good(s), NEW key \in Keys, NEW value \in String
  PROVE  Good(StoreString(s, key, value))
<1>1. StringsOk(Put(s.Storage, key, value), s.Expirations)
  BY DEF Good, StringsOk, IsMap, Put
<1> QED BY <1>1, StoreOfGood DEF StoreString, WithStrings, Good

(* INCR keeps the store good (strings.cpp:101): the text it writes is a    *)
(* string, the wrapped number included.                                    *)
LEMMA HandleIncr ==
  ASSUME NEW s, Good(s), NEW key \in Keys
  PROVE  Good(handle_incr(s, key).st)
<1>1. ASSUME NEW n \in IntMin .. IntMax
      PROVE  Good(StoreString(s, key, ToText(n)))
  BY StoreStringGood, NumberAssumption
<1>2. 1 \in IntMin .. IntMax
  BY NumberAssumption
<1>3. ASSUME NEW n \in IntMin .. IntMax
      PROVE  Increment(n) \in IntMin .. IntMax
  BY NumberAssumption DEF Increment
<1> QED BY <1>1, <1>2, <1>3 DEF handle_incr, Result

(* The commands that only read keep the store good: they reap at most. *)
LEMMA Readers ==
  ASSUME NEW s, Good(s), NEW t, NEW key
  PROVE  /\ Good(handle_get(s, t, key).st)
         /\ Good(handle_strlen(s, t, key).st)
         /\ Good(handle_type(s, t, key).st)
         /\ Good(handle_zcard(s, t, key).st)
         /\ \A m : Good(handle_zscore(s, t, key, m).st) /\ Good(handle_zrank(s, t, key, m).st)
         /\ \A i, j : Good(handle_zrange(s, t, key, i, j).st)
         /\ \A offset : Good(handle_getbit(s, t, key, offset).st)
         /\ \A i, j, unit : Good(handle_bitcount(s, t, key, i, j, unit).st)
BY ReapGood DEF handle_get, peek, handle_strlen, handle_type, handle_zcard, handle_zscore,
     handle_zrank, handle_zrange, handle_getbit, handle_bitcount, Result

-------------------------------------------------------------------------------
(* Commands on lists and streams. *)

(* The list of a key is a sequence of elements, empty when there is none. *)
LEMMA ListAtType ==
  ASSUME NEW s, Good(s), NEW key
  PROVE  ListAt(s, key) \in Seq(Elements)
BY DEF Good, ListsOk, IsMap, ListAt

(* An empty list is erased, another one stored. *)
LEMMA StoreListGood ==
  ASSUME NEW s, Good(s), NEW key \in Keys, NEW list \in Seq(Elements)
  PROVE  Good(StoreList(s, key, list))
<1>1. ListsOk(IF list = <<>> THEN Erase(s.DynamicVector, key)
                             ELSE Put(s.DynamicVector, key, list))
  BY DEF Good, ListsOk, IsMap, Put, Erase
<1> QED BY <1>1, StoreOfGood DEF StoreList, WithLists, Good

(* RPUSH and LPUSH keep the store good (lists.cpp:9, 43): a list that was  *)
(* pushed to is not empty.                                                 *)
LEMMA HandlePush ==
  ASSUME NEW s, Good(s), NEW key \in Keys, NEW elements \in Seq(Elements)
  PROVE  Good(handle_rpush(s, key, elements).st) /\ Good(handle_lpush(s, key, elements).st)
<1>1. ListAt(s, key) \o elements \in Seq(Elements)
  BY ListAtType
<1>2. [i \in 1 .. Len(elements) |-> elements[Len(elements) + 1 - i]] \in Seq(Elements)
  OBVIOUS
<1>3. [i \in 1 .. Len(elements) |-> elements[Len(elements) + 1 - i]] \o ListAt(s, key)
        \in Seq(Elements)
  BY <1>2, ListAtType
<1> QED BY <1>1, <1>3, StoreListGood, Zenon DEF handle_rpush, handle_lpush, Result

(* What is left of a list of elements is a list of elements. *)
LEMMA DropType ==
  ASSUME NEW list \in Seq(Elements), NEW n \in 0 .. Len(list)
  PROVE  Drop(list, n) \in Seq(Elements)
BY DEF Drop

(* LPOP, with and without a count, keeps the store good (lists.cpp:60): an *)
(* emptied list is erased.                                                 *)
LEMMA HandlePop ==
  ASSUME NEW s, Good(s), NEW key \in Keys, NEW count \in Int
  PROVE  Good(handle_lpop(s, key).st) /\ Good(handle_lpop_count(s, key, count).st)
<1> DEFINE list == ListAt(s, key)
           taken == IF count < Len(list) THEN count ELSE Len(list)
<1>0. list \in Seq(Elements)
  BY ListAtType
<1> HIDE DEF list
<1>1. ASSUME list # <<>> PROVE Good(StoreList(s, key, Drop(list, 1)))
  <2>1. 1 \in 0 .. Len(list)
    BY <1>0, <1>1
  <2> QED BY <1>0, <2>1, DropType, StoreListGood
<1>2. ASSUME ~(count < 0) PROVE Good(StoreList(s, key, Drop(list, taken)))
  <2>1. taken \in 0 .. Len(list)
    BY <1>0, <1>2
  <2> HIDE DEF taken
  <2> QED BY <1>0, <2>1, DropType, StoreListGood
<1> QED BY <1>1, <1>2 DEF handle_lpop, handle_lpop_count, Result, list

(* BLPOP keeps the store good (lists.cpp:127, 150). *)
LEMMA HandleBlpop ==
  ASSUME NEW s, Good(s), NEW keys \in Seq(Keys)
  PROVE  Good(handle_blpop(s, keys).st)
<1>1. ASSUME NEW i \in Ready(s, keys)
      PROVE  Good(StoreList(s, keys[i], Drop(s.DynamicVector[keys[i]], 1)))
  <2> DEFINE list == s.DynamicVector[keys[i]]
  <2>1. keys[i] \in Keys /\ ListAt(s, keys[i]) = list /\ list # <<>>
    BY DEF Ready, ListAt
  <2>2. list \in Seq(Elements) /\ 1 \in 0 .. Len(list)
    BY <2>1, ListAtType
  <2> QED BY <2>1, <2>2, DropType, StoreListGood
<1>2. ASSUME Ready(s, keys) # {}
      PROVE  First(Ready(s, keys)) \in Ready(s, keys)
  <2>1. Ready(s, keys) \in SUBSET Nat
    BY DEF Ready
  <2>2. \E i \in Ready(s, keys) : \A j \in Ready(s, keys) : i <= j
    BY <1>2, <2>1, LeastElement
  <2> QED BY <2>2 DEF First
<1> QED BY <1>1, <1>2 DEF handle_blpop, try_blpop, Result

(* LLEN, LRANGE, XRANGE and XREAD leave the store alone. *)
LEMMA Lookers ==
  ASSUME NEW s
  PROVE  /\ \A key : handle_llen(s, key).st = s
         /\ \A key, i, j : handle_lrange(s, key, i, j).st = s
         /\ \A key, from, to, n : handle_xrange(s, key, from, to, n).st = s
         /\ \A reads, n, b : handle_xread(s, reads, n, b).st = s
BY DEF handle_llen, handle_lrange, handle_xrange, handle_xread, Result

(* So they keep the store good. *)
LEMMA LookersGood ==
  ASSUME NEW s, Good(s)
  PROVE  /\ \A key : Good(handle_llen(s, key).st)
         /\ \A key, i, j : Good(handle_lrange(s, key, i, j).st)
         /\ \A key, from, to, n : Good(handle_xrange(s, key, from, to, n).st)
         /\ \A reads, n, b : Good(handle_xread(s, reads, n, b).st)
BY Lookers

(* resolve_id answers an ID whose parts are words. *)
LEMMA ResolvedType ==
  ASSUME NEW x \in StreamValues, NEW text \in IdTexts, NEW wall \in Word
  PROVE  resolve_id(x, text, wall).id \in StreamID
<1> USE WordAssumption
<1>0. 0 \in Word /\ 1 \in Word
  BY DEF Word
<1>1. x.max_id \in StreamID
  BY DEF StreamValues
<1>2. ASSUME NEW ms \in Word PROVE next_sequence(x, ms).id \in StreamID
  BY <1>0, <1>1 DEF next_sequence, Resolved, Refused, ID, StreamID, Word
<1>3. ID(0, 0) \in StreamID
  BY <1>0 DEF ID, StreamID
<1> QED BY <1>2, <1>3 DEF resolve_id, IdTexts, Refused, Resolved

(* An entry that is accepted becomes the top of its stream. *)
LEMMA InsertGood ==
  ASSUME NEW x \in StreamValues, NEW text \in IdTexts, NEW wall \in Word,
         insert(x, text, wall).result = "Ok"
  PROVE  insert(x, text, wall).stream \in GoodStreams
<1> DEFINE id == resolve_id(x, text, wall).id
           new == [tree |-> x.tree \cup {encode_id(id)}, has_max_id |-> TRUE, max_id |-> id]
<1>1. id \in StreamID
  BY ResolvedType
<1>2. insert(x, text, wall).stream = new
  BY DEF insert
<1> HIDE DEF id
<1>3. x.tree \cup {encode_id(id)} \in SUBSET {encode_id(i) : i \in StreamID}
  BY <1>1 DEF StreamValues
<1> QED BY <1>1, <1>2, <1>3 DEF GoodStreams, StreamValues

(* A refused entry leaves its stream as it was. *)
LEMMA InsertRefused ==
  ASSUME NEW x, NEW text, NEW wall, insert(x, text, wall).result # "Ok"
  PROVE  insert(x, text, wall).stream = x
BY DEF insert

(* A stream that was just created is of the type of streams. *)
LEMMA EmptyStreamType == EmptyStream \in StreamValues
<1>1. 0 \in Word
  BY WordAssumption DEF Word
<1> QED BY <1>1 DEF EmptyStream, StreamValues, ID, StreamID

(* XADD enters a good stream, or erases the one it has just created. *)
LEMMA HandleXadd ==
  ASSUME NEW s, Good(s), NEW key \in Keys, NEW text \in IdTexts, NEW wall \in Word
  PROVE  Good(handle_xadd(s, key, text, wall).st)
<1> DEFINE r == insert(StreamAt(s, key), text, wall)
           entered == Put(s.Streams, key, r.stream)
<1>1. StreamAt(s, key) \in StreamValues
  BY EmptyStreamType DEF Good, StreamsOk, IsMap, GoodStreams, StreamAt
<1>2. ASSUME NEW X, StreamsOk(X) PROVE Good(WithStreams(s, X))
  BY <1>2, StoreOfGood DEF WithStreams, Good
<1>3. r.result = "Ok" => r.stream \in GoodStreams
  BY <1>1, InsertGood
<1>4. r.result # "Ok" => r.stream = StreamAt(s, key)
  BY InsertRefused
<1> HIDE DEF r
<1>5. r.result = "Ok" => StreamsOk(entered)
  BY <1>3 DEF Good, StreamsOk, IsMap, Put
<1>6. r.result # "Ok" /\ key \in DOMAIN s.Streams => StreamsOk(entered)
  BY <1>4 DEF Good, StreamsOk, IsMap, Put, StreamAt
<1>7. key \notin DOMAIN s.Streams => StreamsOk(Erase(entered, key))
  BY DEF Good, StreamsOk, IsMap, Put, Erase
<1> HIDE DEF entered
<1>8. handle_xadd(s, key, text, wall).st =
        WithStreams(s, IF r.result # "Ok" /\ key \notin DOMAIN s.Streams
                       THEN Erase(entered, key) ELSE entered)
  BY DEF handle_xadd, Result, r, entered
<1> QED BY <1>2, <1>5, <1>6, <1>7, <1>8

-------------------------------------------------------------------------------
(* Commands on sorted sets. *)

(* What the loops of ZADD and GEOADD leave: both indexes change together. *)
LEMMA AddScoresGood ==
  ASSUME NEW z, IsSortedSet(z), z.ordered = {<<z.scores[m], m>> : m \in DOMAIN z.scores},
         NEW new, IsMap(new, Members, Scores), DOMAIN z.scores \cup DOMAIN new # {}
  PROVE  IsGoodSet(AddScores(z, new))
<1> DEFINE named == DOMAIN new
           old   == {<<z.scores[m], m>> : m \in named \cap DOMAIN z.scores}
           scores == [m \in DOMAIN z.scores \cup named |->
                        IF m \in named THEN new[m] ELSE z.scores[m]]
           ordered == (z.ordered \ old) \cup {<<new[m], m>> : m \in named}
<1>1. AddScores(z, new) = [scores |-> scores, ordered |-> ordered]
  BY DEF AddScores
<1>2. IsMap(scores, Members, Scores) /\ DOMAIN scores = DOMAIN z.scores \cup named
  BY DEF IsSortedSet, IsMap
<1>3. ordered = {<<scores[m], m>> : m \in DOMAIN scores}
  <2>1. ASSUME NEW p \in ordered PROVE p \in {<<scores[m], m>> : m \in DOMAIN scores}
    <3>1. CASE p \in z.ordered \ old
      <4>1. PICK m \in DOMAIN z.scores : p = <<z.scores[m], m>>
        BY <3>1
      <4>2. m \notin named
        BY <3>1, <4>1
      <4> QED BY <4>1, <4>2
    <3>2. CASE p \in {<<new[m], m>> : m \in named}
      <4>1. PICK m \in named : p = <<new[m], m>>
        BY <3>2
      <4>2. scores[m] = new[m] /\ m \in DOMAIN scores
        OBVIOUS
      <4> QED BY <4>1, <4>2
    <3> QED BY <2>1, <3>1, <3>2
  <2>2. ASSUME NEW m \in DOMAIN scores PROVE <<scores[m], m>> \in ordered
    <3>1. CASE m \in named
      BY <3>1
    <3>2. CASE m \notin named
      <4>1. m \in DOMAIN z.scores /\ scores[m] = z.scores[m]
        BY <3>2
      <4>2. <<z.scores[m], m>> \in z.ordered /\ <<z.scores[m], m>> \notin old
        BY <3>2, <4>1
      <4> QED BY <4>1, <4>2
    <3> QED BY <3>1, <3>2, Zenon
  <2> HIDE DEF scores, ordered
  <2> QED BY <2>1, <2>2
<1> HIDE DEF scores, ordered
<1>4. ordered \subseteq Scores \X Members
  BY <1>2, <1>3 DEF IsMap
<1> QED BY <1>1, <1>2, <1>3, <1>4 DEF IsGoodSet, IsSortedSet

(* The score a command leaves to a member it names is one of its scores. *)
LEMMA ScoreType ==
  ASSUME NEW entries \in Seq(Scores \X Members), NEW m \in Named(entries)
  PROVE  /\ LastScore(entries, m) \in Scores
         /\ FirstScore(entries, m) \in Scores
         /\ m \in Members
<1> DEFINE I == {i \in DOMAIN entries : entries[i][2] = m}
<1>1. I # {} /\ I \in SUBSET Nat /\ I \in SUBSET (0 .. Len(entries)) /\ Len(entries) \in Nat
  BY DEF Named
<1>2. \A i \in DOMAIN entries : entries[i][1] \in Scores /\ entries[i][2] \in Members
  OBVIOUS
<1>3. \E i \in I : \A j \in I : i <= j
  BY <1>1, LeastElement, Zenon
<1>4. \E i \in I : \A j \in I : j <= i
  BY <1>1, GreatestExists, Zenon
<1>5. \E i \in DOMAIN entries :
        entries[i][2] = m /\ \A j \in DOMAIN entries : entries[j][2] = m => j <= i
  BY <1>4
<1>6. \E i \in DOMAIN entries :
        entries[i][2] = m /\ \A j \in DOMAIN entries : entries[j][2] = m => i <= j
  BY <1>3
<1>7. m \in Members
  BY <1>2 DEF Named
<1> HIDE DEF I
<1>8. LastScore(entries, m) \in Scores
  BY <1>2, <1>5 DEF LastScore
<1>9. FirstScore(entries, m) \in Scores
  BY <1>2, <1>6 DEF FirstScore
<1> QED BY <1>7, <1>8, <1>9

(* A request names some member. *)
LEMMA NamedNotEmpty ==
  ASSUME NEW entries \in Seq(Scores \X Members) \ {<<>>}
  PROVE  Named(entries) # {}
<1>1. 1 \in DOMAIN entries
  OBVIOUS
<1> QED BY <1>1, Zenon DEF Named

(* The set of a key, or the empty one, has agreeing indexes. *)
LEMMA SetAtGood ==
  ASSUME NEW s, Good(s), NEW key
  PROVE  LET z == SetAt(s, key)
         IN  /\ IsSortedSet(z)
             /\ z.ordered = {<<z.scores[m], m>> : m \in DOMAIN z.scores}
             /\ key \in DOMAIN s.sorted_sets => IsGoodSet(z)
<1>1. CASE key \in DOMAIN s.sorted_sets
  BY <1>1 DEF Good, SetsOk, IsGoodSet, SetAt
<1>2. CASE key \notin DOMAIN s.sorted_sets
  <2>1. SetAt(s, key) = EmptySet
    BY Zenon, <1>2 DEF SetAt
  <2>2. /\ IsSortedSet(EmptySet)
        /\ EmptySet.ordered = {<<EmptySet.scores[m], m>> : m \in DOMAIN EmptySet.scores}
    BY DEF EmptySet, IsSortedSet, IsMap
  <2> QED
    BY Zenon, <1>2, <2>1, <2>2
<1> QED BY <1>1, <1>2

(* Storing a sorted set that agrees and is not empty keeps the store good. *)
LEMMA StoreSetGood ==
  ASSUME NEW s, Good(s), NEW key \in Keys, NEW z, IsGoodSet(z)
  PROVE  Good(StoreSet(s, key, z))
<1>1. SetsOk(Put(s.sorted_sets, key, z))
  BY PutSet DEF Good
<1> QED BY <1>1, StoreOfGood DEF StoreSet, WithSets, Good

(* ZADD keeps the store good (sorted_sets.cpp:73). *)
LEMMA HandleZadd ==
  ASSUME NEW s, Good(s), NEW t, NEW key \in Keys,
         NEW entries \in Seq(Scores \X Members) \ {<<>>}
  PROVE  Good(handle_zadd(s, t, key, entries).st)
<1> DEFINE z   == SetAt(s, key)
           new == [m \in Named(entries) |-> LastScore(entries, m)]
<1>1. IsMap(new, Members, Scores) /\ DOMAIN new # {}
  <2>1. Named(entries) # {}
    BY Zenon, NamedNotEmpty
  <2>2. \A m \in Named(entries) : m \in Members /\ LastScore(entries, m) \in Scores
    BY Zenon, ScoreType
  <2> QED BY Zenon, <2>1, <2>2 DEF IsMap
<1>2. IsSortedSet(z) /\ z.ordered = {<<z.scores[m], m>> : m \in DOMAIN z.scores}
  BY SetAtGood
<1>3. Zadd(z, entries).set = AddScores(z, new)
  BY DEF Zadd
<1> HIDE DEF z, new
<1>4. IsGoodSet(Zadd(z, entries).set)
  BY <1>1, <1>2, <1>3, AddScoresGood
<1> QED BY <1>4, ReapGood, StoreSetGood DEF handle_zadd, Result, z

(* GEOADD keeps the store good (geospatial.cpp:153): with NX and XX excluded*)
(* it never leaves an empty set behind.                                    *)
LEMMA HandleGeoadd ==
  ASSUME NEW s, Good(s), NEW t, NEW key \in Keys,
         NEW entries \in Seq(Scores \X Members) \ {<<>>},
         NEW nx \in BOOLEAN, NEW xx \in BOOLEAN, NEW ch
  PROVE  Good(handle_geoadd(s, t, key, entries, nx, xx, ch).st)
<1> DEFINE z      == SetAt(s, key)
           chosen == IF nx THEN Named(entries) \ DOMAIN z.scores
                     ELSE IF xx THEN Named(entries) \cap DOMAIN z.scores ELSE Named(entries)
           new    == [m \in chosen |-> IF nx THEN FirstScore(entries, m)
                                             ELSE LastScore(entries, m)]
<1>1. IsMap(new, Members, Scores) /\ DOMAIN new = chosen
  BY SMTT(30), ScoreType DEF IsMap
<1>2. /\ IsSortedSet(z) /\ z.ordered = {<<z.scores[m], m>> : m \in DOMAIN z.scores}
      /\ key \in DOMAIN s.sorted_sets => DOMAIN z.scores # {}
  BY SetAtGood DEF IsGoodSet
<1>3. Geoadd(z, entries, nx, xx, ch).set = AddScores(z, new)
  BY DEF Geoadd
<1>4. ~xx \/ key \in DOMAIN s.sorted_sets => DOMAIN z.scores \cup chosen # {}
  BY Zenon, <1>2, NamedNotEmpty
<1> HIDE DEF z, new, chosen
<1>5. ~xx \/ key \in DOMAIN s.sorted_sets => IsGoodSet(Geoadd(z, entries, nx, xx, ch).set)
  BY <1>1, <1>2, <1>3, <1>4, AddScoresGood
<1> QED BY <1>5, ReapGood, StoreSetGood DEF handle_geoadd, Result, z

(* ZREM takes a member out of both indexes. *)
LEMMA ZremGood ==
  ASSUME NEW z, IsGoodSet(z), NEW members,
         DOMAIN Zrem(z, members).set.scores # {}
  PROVE  IsGoodSet(Zrem(z, members).set)
<1> DEFINE gone    == {members[i] : i \in DOMAIN members} \cap DOMAIN z.scores
           scores  == [m \in DOMAIN z.scores \ gone |-> z.scores[m]]
           ordered == z.ordered \ {<<z.scores[m], m>> : m \in gone}
<1>1. Zrem(z, members).set = [scores |-> scores, ordered |-> ordered]
  BY DEF Zrem
<1> HIDE DEF gone
<1>2. IsMap(scores, Members, Scores) /\ ordered \subseteq Scores \X Members
  BY DEF IsGoodSet, IsSortedSet, IsMap
<1>3. ordered = {<<scores[m], m>> : m \in DOMAIN scores}
  <2>1. z.ordered = {<<z.scores[m], m>> : m \in DOMAIN z.scores}
    BY DEF IsGoodSet
  <2>2. ASSUME NEW p \in ordered PROVE p \in {<<scores[m], m>> : m \in DOMAIN scores}
    <3>1. PICK m \in DOMAIN z.scores : p = <<z.scores[m], m>>
      BY <2>1, <2>2
    <3>2. m \in DOMAIN scores /\ scores[m] = z.scores[m]
      BY <2>2, <3>1
    <3> QED BY <3>1, <3>2
  <2>3. ASSUME NEW m \in DOMAIN scores PROVE <<scores[m], m>> \in ordered
    <3>1. m \in DOMAIN z.scores /\ m \notin gone /\ scores[m] = z.scores[m]
      OBVIOUS
    <3>2. <<z.scores[m], m>> \notin {<<z.scores[x], x>> : x \in gone}
      BY <3>1
    <3> QED BY <2>1, <3>1, <3>2
  <2> HIDE DEF scores, ordered
  <2> QED BY <2>2, <2>3
<1> HIDE DEF scores, ordered
<1> QED BY <1>1, <1>2, <1>3 DEF IsGoodSet, IsSortedSet

(* ZREM keeps the store good (sorted_sets.cpp:195): an emptied set is erased. *)
LEMMA HandleZrem ==
  ASSUME NEW s, Good(s), NEW t, NEW key \in Keys, NEW members
  PROVE  Good(handle_zrem(s, t, key, members).st)
<1> DEFINE after == Reap(s, t, key)
           z     == Zrem(SetAt(s, key), members).set
<1>1. Good(after)
  BY ReapGood
<1>2. key \in DOMAIN s.sorted_sets /\ DOMAIN z.scores # {} => IsGoodSet(z)
  BY SetAtGood, ZremGood
<1>3. SetsOk(Erase(after.sorted_sets, key))
  BY <1>1, EraseSet DEF Good
<1> HIDE DEF after, z
<1>4. Good(WithSets(after, Erase(after.sorted_sets, key)))
  BY <1>1, <1>3, StoreOfGood DEF WithSets, Good
<1>5. key \in DOMAIN s.sorted_sets /\ DOMAIN z.scores # {} => Good(StoreSet(after, key, z))
  BY <1>1, <1>2, StoreSetGood
<1>6. handle_zrem(s, t, key, members).st
        \in {after, WithSets(after, Erase(after.sorted_sets, key))}
           \cup {x \in {StoreSet(after, key, z)} : key \in DOMAIN s.sorted_sets /\ DOMAIN z.scores # {}}
  BY Zenon DEF handle_zrem, Result, after, z
<1> QED BY Zenon, <1>1, <1>4, <1>5, <1>6

-------------------------------------------------------------------------------
(* Commands on bitmaps. *)

(* The string of a key is a string, empty when there is none. *)
LEMMA StringAtType ==
  ASSUME NEW s, Good(s), NEW key
  PROVE  StringAt(s, key) \in String
BY DEF Good, StringsOk, IsMap, StringAt, String

(* SETBIT finds the byte and the bit it sets inside the grown string. *)
LEMMA SetBitType ==
  ASSUME NEW v \in String, NEW offset \in Nat, NEW bit \in Bit
  PROVE  SetBit(v, offset, bit) \in String
<1> USE ByteBitsAssumption
<1> DEFINE index == offset \div ByteBits
           grown == Resize(v, index + 1)
<1>1. index \in Nat /\ offset % ByteBits \in BitPos
  BY DEF BitPos
<1>2. ZeroByte \in Byte
  BY DEF ZeroByte, Byte, Bit
<1> HIDE DEF index
<1>3. grown \in Seq(Byte) /\ index + 1 \in DOMAIN grown
  <2>1. CASE index + 1 <= Len(v)
    BY <1>1, <2>1 DEF Resize, String
  <2>2. CASE ~(index + 1 <= Len(v))
    <3>1. \A i \in 1 .. index + 1 : (IF i <= Len(v) THEN v[i] ELSE ZeroByte) \in Byte
      BY <1>1, <1>2 DEF String
    <3>2. index + 1 \in Nat
      BY <1>1
    <3>3. grown = [i \in 1 .. index + 1 |-> IF i <= Len(v) THEN v[i] ELSE ZeroByte]
      BY <2>2 DEF Resize
    <3> HIDE DEF grown
    <3> QED BY <1>1, <3>1, <3>2, <3>3
  <2> QED BY <2>1, <2>2
<1> HIDE DEF grown
<1>4. [grown[index + 1] EXCEPT ![offset % ByteBits] = bit] \in Byte
  BY <1>1, <1>3 DEF Byte
<1>5. SetBit(v, offset, bit) =
        [grown EXCEPT ![index + 1] = [grown[index + 1] EXCEPT ![offset % ByteBits] = bit]]
  BY <1>3 DEF SetBit, grown, index
<1> QED BY <1>3, <1>4, <1>5 DEF String

(* SETBIT keeps the store good (bitmaps.cpp:46). *)
LEMMA HandleSetbit ==
  ASSUME NEW s, Good(s), NEW t, NEW key \in Keys, NEW offset \in Nat, NEW bit \in Bit
  PROVE  Good(handle_setbit(s, t, key, offset, bit).st)
<1> DEFINE after == Reap(s, t, key)
<1>1. Good(after)
  BY ReapGood
<1> HIDE DEF after
<1>2. SetBit(StringAt(after, key), offset, bit) \in String
  BY <1>1, StringAtType, SetBitType
<1>3. Good(StoreString(after, key, SetBit(StringAt(after, key), offset, bit)))
  BY <1>1, <1>2, StoreStringGood
<1> QED BY <1>1, <1>3 DEF handle_setbit, Result, after

(* One of the sources of BITOP is the longest. *)
LEMMA LongestType ==
  ASSUME NEW sources \in Seq(String) \ {<<>>}
  PROVE  Longest(sources) \in Nat
<1> DEFINE N == Len(sources)
           len == [i \in 1 .. N |-> Len(sources[i])]
           Top(j, n) == \A i \in 1 .. n : len[i] <= len[j]
           Bad == {n \in 1 .. N : ~ \E j \in 1 .. n : Top(j, n)}
<1>1. N \in Nat \ {0} /\ DOMAIN sources = 1 .. N
  OBVIOUS
<1>2. len \in [1 .. N -> Nat]
  BY DEF String
<1> HIDE DEF N, len
<1>3. Bad = {}
  <2> SUFFICES ASSUME Bad # {} PROVE FALSE
    OBVIOUS
  <2>1. PICK n \in Bad : \A m \in Bad : n <= m
    <3>1. Bad \in SUBSET Nat
      BY <1>1
    <3> HIDE DEF Bad
    <3> QED BY <3>1, LeastElement
  <2>2. n \in 1 .. N /\ ~ \E j \in 1 .. n : Top(j, n)
    BY <2>1
  <2>3. n # 1
    <3>1. ASSUME n = 1 PROVE Top(1, 1)
      BY <1>1, <1>2
    <3> QED BY <2>2, <3>1
  <2>4. n - 1 \in 1 .. N
    BY <1>1, <2>2, <2>3
  <2>5. n - 1 \notin Bad
    <3>1. ~(n <= n - 1)
      BY <1>1, <2>2
    <3> HIDE DEF Bad
    <3> QED BY <2>1, <3>1
  <2>6. PICK j \in 1 .. n - 1 : Top(j, n - 1)
    BY <2>4, <2>5
  <2>7. \A i \in 1 .. n : i \in 1 .. n - 1 \/ i = n
    BY <1>1, <2>2
  <2>8. j \in 1 .. n /\ n \in 1 .. n /\ j \in 1 .. N
    BY <1>1, <2>2, <2>4
  <2>9. len[n] \in Nat /\ len[j] \in Nat /\ \A i \in 1 .. n - 1 : len[i] \in Nat
    BY <1>1, <1>2, <2>2, <2>8
  <2>10. CASE len[n] <= len[j]
    <3>1. Top(j, n)
      BY <2>6, <2>7, <2>10, Zenon
    <3> QED BY <2>2, <2>8, <3>1
  <2>11. CASE ~(len[n] <= len[j])
    <3>1. ASSUME NEW i \in 1 .. n PROVE len[i] <= len[n]
      <4> HIDE DEF Bad
      <4>0. \A x, y, z \in Nat : x <= x /\ (x <= y /\ ~(z <= y) => x <= z)
        OBVIOUS
      <4>1. CASE i = n
        BY <2>9, <4>0, <4>1, Zenon
      <4>2. CASE i \in 1 .. n - 1
        <5>1. len[i] <= len[j] /\ len[i] \in Nat
          BY <2>6, <2>9, <4>2
        <5> QED BY <2>9, <2>11, <4>0, <5>1, Zenon
      <4> QED BY <2>7, <4>1, <4>2
    <3> QED BY <2>2, <2>8, <3>1
  <2> QED BY <2>10, <2>11
<1>4. PICK j \in DOMAIN sources : \A i \in DOMAIN sources : Len(sources[i]) <= Len(sources[j])
  <2>1. N \in 1 .. N
    BY <1>1
  <2>2. PICK j \in 1 .. N : Top(j, N)
    BY <1>3, <2>1
  <2>3. \A i \in 1 .. N : len[i] = Len(sources[i])
    BY DEF len
  <2> QED BY <1>1, <2>2, <2>3, Zenon
<1>5. \E n \in {Len(sources[i]) : i \in DOMAIN sources} :
        \A i \in DOMAIN sources : Len(sources[i]) <= n
  BY <1>4
<1>6. Longest(sources) \in {Len(sources[i]) : i \in DOMAIN sources}
  BY <1>5 DEF Longest
<1>7. \A i \in DOMAIN sources : Len(sources[i]) \in Nat
  BY DEF String
<1> QED BY <1>6, <1>7

(* BITOP makes a string. *)
LEMMA BitOpType ==
  ASSUME NEW op \in BitOps, NEW sources \in Seq(String) \ {<<>>}
  PROVE  BitOp(op, sources) \in String
<1> DEFINE input(j, i, b) == IF i <= Len(sources[j]) THEN sources[j][i][b] ELSE 0
           ones(i, b)     == {j \in DOMAIN sources : input(j, i, b) = 1}
           combined(i, b) ==
             CASE op = "AND" -> IF ones(i, b) = DOMAIN sources THEN 1 ELSE 0
               [] op = "OR"  -> IF ones(i, b) # {} THEN 1 ELSE 0
               [] op = "XOR" -> Cardinality(ones(i, b)) % 2
               [] op = "NOT" -> 1 - input(1, i, b)
<1>1. ASSUME NEW i \in 1 .. Longest(sources), NEW b \in BitPos
      PROVE  combined(i, b) \in Bit
  <2>1. input(1, i, b) \in Bit
    <3>1. sources[1] \in Seq(Byte)
      BY DEF String
    <3>2. i \in Nat \ {0}
      BY <1>1, LongestType
    <3>3. i <= Len(sources[1]) => sources[1][i] \in Byte
      BY <3>1, <3>2
    <3> QED BY <3>3 DEF Byte, Bit
  <2>2. Cardinality(ones(i, b)) % 2 \in Bit
    <3>1. DOMAIN sources = 1 .. Len(sources) /\ Len(sources) \in Nat
      OBVIOUS
    <3>2. IsFiniteSet(DOMAIN sources)
      BY <3>1, FS_Interval
    <3>3. ones(i, b) \in SUBSET DOMAIN sources
      OBVIOUS
    <3> HIDE DEF ones
    <3>4. Cardinality(ones(i, b)) \in Nat
      BY <3>2, <3>3, FS_Subset, FS_CardinalityType
    <3> QED BY <3>4 DEF Bit
  <2> HIDE DEF input, ones
  <2> QED BY <2>1, <2>2 DEF BitOps, Bit
<1>2. BitOp(op, sources) = [i \in 1 .. Longest(sources) |-> [b \in BitPos |-> combined(i, b)]]
  BY DEF BitOp
<1> HIDE DEF combined
<1>3. \A i \in 1 .. Longest(sources) : [b \in BitPos |-> combined(i, b)] \in Byte
  BY <1>1 DEF Byte
<1> QED BY <1>2, <1>3, LongestType DEF String

(* BITOP keeps the store good (bitmaps.cpp:148): the destination loses its *)
(* deadline whether or not the result is empty.                            *)
LEMMA HandleBitop ==
  ASSUME NEW s, Good(s), NEW t, NEW op, NEW dest \in Keys, NEW sources \in Seq(Keys) \ {<<>>}
  PROVE  Good(handle_bitop(s, t, op, dest, sources).st)
<1> DEFINE after   == Looked(s, t, sources, Len(sources))
           values  == [j \in DOMAIN sources |-> StringAt(after, sources[j])]
           result  == BitOp(op, values)
           strings == IF result = <<>> THEN Erase(after.Storage, dest)
                                       ELSE Put(after.Storage, dest, result)
           final   == StoreOf(strings, Erase(after.Expirations, dest),
                              Erase(after.DynamicVector, dest), Erase(after.Streams, dest),
                              Erase(after.sorted_sets, dest))
<1>1. \A n : Good(Looked(s, t, sources, n))
  BY ReapSetGood DEF Looked
<1>2. Good(after)
  BY <1>1
<1> HIDE DEF after
<1>3. values \in Seq(String) \ {<<>>}
  BY <1>2, StringAtType
<1> HIDE DEF values
<1>4. op \in BitOps => result \in String
  BY <1>3, BitOpType
<1> HIDE DEF result
<1>5. op \in BitOps => StringsOk(strings, Erase(after.Expirations, dest))
  BY <1>2, <1>4 DEF Good, StringsOk, IsMap, Put, Erase
<1>6. ListsOk(Erase(after.DynamicVector, dest)) /\ StreamsOk(Erase(after.Streams, dest))
  <2>1. ListsOk(after.DynamicVector) /\ StreamsOk(after.Streams)
    BY Zenon, <1>2 DEF Good
  <2>2. ListsOk(Erase(after.DynamicVector, dest))
    BY <2>1 DEF ListsOk, IsMap, Erase
  <2>3. StreamsOk(Erase(after.Streams, dest))
    BY <2>1 DEF StreamsOk, IsMap, Erase
  <2> QED BY Zenon, <2>2, <2>3
<1>7. SetsOk(Erase(after.sorted_sets, dest))
  BY <1>2, EraseSet DEF Good
<1> HIDE DEF strings
<1>8. op \in BitOps => Good(final)
  BY <1>5, <1>6, <1>7, StoreOfGood
<1> QED BY <1>1, <1>8, Zenon DEF handle_bitop, Result, after, values, result, strings

-------------------------------------------------------------------------------
(* Startup and dispatch. *)

(* KEYS removes expired strings. *)
LEMMA HandleKeys ==
  ASSUME NEW s, Good(s), NEW t, NEW pattern
  PROVE  Good(handle_keys(s, t, pattern).st)
BY ReapSetGood DEF handle_keys, ReapAll, Result

(* The RDB file is loaded into a good store: a deadline is only kept       *)
(* together with the string it was read with.                              *)
LEMMA LoadGood ==
  ASSUME NEW entries \in Seq(RdbEntries)
  PROVE  Good(load_entries(entries, 0))
<1> DEFINE kept  == {i \in DOMAIN entries : entries[i].dated => entries[i].left > 0}
           dated == {i \in kept : entries[i].dated}
           keysOf(I)  == {entries[i].key : i \in I}
           last(I, k) == CHOOSE i \in I : /\ entries[i].key = k
                                          /\ \A j \in I : entries[j].key = k => j <= i
           S == [k \in keysOf(kept) |-> entries[last(kept, k)].value]
           E == [k \in keysOf(dated) |-> 0 + entries[last(dated, k)].left]
<1>1. \A i \in DOMAIN entries :
        entries[i].key \in Keys /\ entries[i].value \in String /\ entries[i].left \in Int
  <2>1. ASSUME NEW i \in DOMAIN entries PROVE entries[i] \in RdbEntries
    OBVIOUS
  <2> QED BY <2>1 DEF RdbEntries
<1>2. ASSUME NEW I \in SUBSET DOMAIN entries, NEW k \in keysOf(I)
      PROVE  last(I, k) \in DOMAIN entries
  <2> DEFINE J == {i \in I : entries[i].key = k}
  <2>1. J # {} /\ J \in SUBSET (0 .. Len(entries)) /\ Len(entries) \in Nat
    OBVIOUS
  <2>2. \E i \in J : \A j \in J : j <= i
    <3> HIDE DEF J
    <3> QED BY <2>1, GreatestExists, Zenon
  <2>3. \E i \in I : entries[i].key = k /\ \A j \in I : entries[j].key = k => j <= i
    BY <2>2
  <2>4. last(I, k) \in I
    BY <2>3
  <2> QED BY <2>4
<1>3. kept \in SUBSET DOMAIN entries /\ dated \in SUBSET DOMAIN entries /\ dated \subseteq kept
  OBVIOUS
<1>4. keysOf(dated) \subseteq keysOf(kept) /\ keysOf(kept) \subseteq Keys
  BY <1>1
<1> HIDE DEF kept, dated
<1>5. \A k \in keysOf(kept) : entries[last(kept, k)].value \in String
  BY <1>1, <1>2, <1>3, Zenon
<1>6. \A k \in keysOf(dated) : 0 + entries[last(dated, k)].left \in Int
  <2>1. \A k \in keysOf(dated) : last(dated, k) \in DOMAIN entries
    BY <1>2, <1>3, Zenon
  <2> HIDE DEF last
  <2> QED BY <1>1, <2>1
<1> HIDE DEF keysOf, last
<1>7. StringsOk(S, E)
  BY <1>4, <1>5, <1>6 DEF StringsOk, IsMap
<1>8. load_entries(entries, 0) = StoreOf(S, E, EmptyMap, EmptyMap, EmptyMap)
  BY DEF load_entries, WithStrings, EmptyStore, StoreOf, kept, dated, keysOf, last
<1> HIDE DEF S, E
<1>9. ListsOk(EmptyMap) /\ StreamsOk(EmptyMap) /\ SetsOk(EmptyMap)
  BY DEF ListsOk, StreamsOk, SetsOk, IsMap, EmptyMap
<1> QED BY <1>7, <1>8, <1>9, StoreOfGood

(* The handlers of the commands on the strings. *)
LEMMA StringHandler ==
  ASSUME NEW c, NEW s, NEW t, NEW wall
  PROVE  LET r == Handle(c, s, t, wall)
         IN  /\ c.op = "SET"       => r = handle_set(s, t, c.key, c.value, c.option)
             /\ c.op = "GET"       => r = handle_get(s, t, c.key)
             /\ c.op = "STRLEN"    => r = handle_strlen(s, t, c.key)
             /\ c.op = "INCR"      => r = handle_incr(s, c.key)
BY Zenon DEF Handle

(* The handlers of the commands on the bitmaps. *)
LEMMA BitHandler ==
  ASSUME NEW c, NEW s, NEW t, NEW wall
  PROVE  LET r == Handle(c, s, t, wall)
         IN  /\ c.op = "SETBIT"    => r = handle_setbit(s, t, c.key, c.offset, c.bit)
             /\ c.op = "GETBIT"    => r = handle_getbit(s, t, c.key, c.offset)
             /\ c.op = "BITCOUNT"  => r = handle_bitcount(s, t, c.key, c.start, c.end, c.unit)
             /\ c.op = "BITOP"     => r = handle_bitop(s, t, c.operation, c.dest, c.sources)
BY Zenon DEF Handle

(* The handlers of the commands on any key. *)
LEMMA KeyHandler ==
  ASSUME NEW c, NEW s, NEW t, NEW wall
  PROVE  LET r == Handle(c, s, t, wall)
         IN  /\ c.op = "TYPE"      => r = handle_type(s, t, c.key)
             /\ c.op = "KEYS"      => r = handle_keys(s, t, c.pattern)
BY Zenon DEF Handle

(* The handlers of the commands on the lists. *)
LEMMA ListHandler ==
  ASSUME NEW c, NEW s, NEW t, NEW wall
  PROVE  LET r == Handle(c, s, t, wall)
         IN  /\ c.op = "RPUSH"     => r = handle_rpush(s, c.key, c.elements)
             /\ c.op = "LPUSH"     => r = handle_lpush(s, c.key, c.elements)
             /\ c.op = "LLEN"      => r = handle_llen(s, c.key)
             /\ c.op = "LRANGE"    => r = handle_lrange(s, c.key, c.start, c.stop)
             /\ c.op = "LPOP"      => r = handle_lpop(s, c.key)
             /\ c.op = "LPOPCOUNT" => r = handle_lpop_count(s, c.key, c.count)
             /\ c.op = "BLPOP"     => r = handle_blpop(s, c.keys)
BY Zenon DEF Handle

(* The handlers of the commands on the streams. *)
LEMMA StreamHandler ==
  ASSUME NEW c, NEW s, NEW t, NEW wall
  PROVE  LET r == Handle(c, s, t, wall)
         IN  /\ c.op = "XADD"      => r = handle_xadd(s, c.key, c.id, wall)
             /\ c.op = "XRANGE"    => r = handle_xrange(s, c.key, c.from, c.to, c.count)
             /\ c.op = "XREAD"     => r = handle_xread(s, c.reads, c.count, c.blocking)
BY Zenon DEF Handle

(* The handlers of the commands on the sorted sets that write. *)
LEMMA SetWriter ==
  ASSUME NEW c, NEW s, NEW t, NEW wall
  PROVE  LET r == Handle(c, s, t, wall)
         IN  /\ c.op = "ZADD"      => r = handle_zadd(s, t, c.key, c.entries)
             /\ c.op = "GEOADD"    => r = handle_geoadd(s, t, c.key, c.entries, c.nx, c.xx, c.ch)
             /\ c.op = "ZREM"      => r = handle_zrem(s, t, c.key, c.members)
BY Zenon DEF Handle

(* The handlers of the commands on the sorted sets that read. *)
LEMMA SetReader ==
  ASSUME NEW c, NEW s, NEW t, NEW wall
  PROVE  LET r == Handle(c, s, t, wall)
         IN  /\ c.op = "ZCARD"     => r = handle_zcard(s, t, c.key)
             /\ c.op = "ZSCORE"    => r = handle_zscore(s, t, c.key, c.member)
             /\ c.op = "ZRANK"     => r = handle_zrank(s, t, c.key, c.member)
             /\ c.op = "ZRANGE"    => r = handle_zrange(s, t, c.key, c.start, c.stop)
BY Zenon DEF Handle

(* Every handler keeps the store good. *)
LEMMA HandleGood ==
  ASSUME NEW s, Good(s), NEW t \in Nat, NEW c \in AllRequests, NEW wall \in Word
  PROVE  Good(Handle(c, s, t, wall).st)
<1>1. CASE c \in SetRequests
  <2>1. c.op = "SET" /\ c.key \in Keys /\ c.value \in String /\ c.option \in SetOptions
    BY <1>1 DEF SetRequests
  <2>2. Handle(c, s, t, wall) = handle_set(s, t, c.key, c.value, c.option)
    BY Zenon, <2>1, StringHandler
  <2> QED BY Zenon, <2>1, <2>2, HandleSet
<1>2. CASE c \in KeyRequests
  <2>1. c.key \in Keys /\ c.op \in {"GET", "STRLEN", "INCR", "TYPE", "LLEN", "LPOP", "ZCARD"}
    BY <1>2 DEF KeyRequests
  <2>2. 0 \in Int
    OBVIOUS
  <2>3. Good(handle_lpop(s, c.key).st)
    BY <2>1, <2>2, HandlePop
  <2>4. CASE c.op \in {"GET", "STRLEN", "TYPE", "ZCARD"}
    BY Zenon, <2>4, Readers DEF Handle
  <2>5. CASE c.op = "INCR"
    BY Zenon, <2>1, <2>5, HandleIncr, StringHandler
  <2>6. CASE c.op = "LLEN"
    BY ZenonT(60), <2>6, LookersGood, ListHandler
  <2>7. CASE c.op = "LPOP"
    BY Zenon, <2>3, <2>7, ListHandler
  <2> QED BY Zenon, <2>1, <2>4, <2>5, <2>6, <2>7
<1>3. CASE c \in [op : {"SETBIT"}, key : Keys, offset : Nat, bit : Bit]
  BY <1>3, HandleSetbit, BitHandler
<1>4. CASE c \in [op : {"GETBIT"}, key : Keys, offset : Nat]
  BY <1>4, Readers, Zenon DEF Handle
<1>5. CASE c \in [op : {"BITCOUNT"}, key : Keys, start : Int, end : Int, unit : {"BYTE", "BIT"}]
  BY <1>5, Readers, Zenon DEF Handle
<1>6. CASE c \in [op : {"BITOP"}, operation : BitOps \cup {"other"}, dest : Keys,
                     sources : Seq(Keys) \ {<<>>}]
  BY <1>6, HandleBitop, BitHandler
<1>7. CASE c \in [op : {"RPUSH", "LPUSH"}, key : Keys, elements : Seq(Elements) \ {<<>>}]
  BY <1>7, HandlePush, ListHandler
<1>8. CASE c \in [op : {"LPOPCOUNT"}, key : Keys, count : Int]
  BY <1>8, HandlePop, ListHandler
<1>9. CASE c \in [op : {"LRANGE"}, key : Keys, start : Int, stop : Int]
  <2>1. Handle(c, s, t, wall) = handle_lrange(s, c.key, c.start, c.stop)
    BY Zenon, <1>9, ListHandler
  <2> QED BY Zenon, <2>1, LookersGood
<1>10. CASE c \in [op : {"BLPOP"}, keys : Seq(Keys) \ {<<>>}, timeout : Nat]
  BY <1>10, HandleBlpop, ListHandler
<1>11. CASE c \in [op : {"XADD"}, key : Keys, id : IdTexts]
  BY <1>11, HandleXadd, StreamHandler
<1>12. CASE c \in [op : {"XRANGE"}, key : Keys, from : Bounds, to : Bounds, count : Int]
  <2>1. Handle(c, s, t, wall) = handle_xrange(s, c.key, c.from, c.to, c.count)
    BY Zenon, <1>12, StreamHandler
  <2> QED BY Zenon, <2>1, LookersGood
<1>13. CASE c \in [op : {"XREAD"}, count : Nat, blocking : BOOLEAN, timeout : Nat,
                     reads : Seq([key : Keys, from : Bounds \cup [form : {"top"}]]) \ {<<>>}]
  <2>1. Handle(c, s, t, wall) = handle_xread(s, c.reads, c.count, c.blocking)
    BY Zenon, <1>13, StreamHandler
  <2> QED BY Zenon, <2>1, LookersGood
<1>14. CASE c \in [op : {"ZADD"}, key : Keys, entries : Seq(Scores \X Members) \ {<<>>}]
  BY SMTT(30), <1>14, HandleZadd, SetWriter
<1>15. CASE c \in [op : {"GEOADD"}, key : Keys, entries : Seq(Scores \X Members) \ {<<>>},
                     nx : BOOLEAN, xx : BOOLEAN, ch : BOOLEAN]
  BY SMTT(30), <1>15, HandleGeoadd, SetWriter
<1>16. CASE c \in [op : {"ZREM"}, key : Keys, members : Seq(Members) \ {<<>>}]
  BY <1>16, HandleZrem, SetWriter
<1>17. CASE c \in [op : {"ZSCORE", "ZRANK"}, key : Keys, member : Members]
  BY <1>17, Readers, Zenon DEF Handle
<1>18. CASE c \in [op : {"ZRANGE"}, key : Keys, start : Int, stop : Int]
  BY <1>18, Readers, Zenon DEF Handle
<1>19. CASE c \in [op : {"KEYS"}, pattern : SUBSET Keys]
  BY <1>19, HandleKeys, KeyHandler
<1> QED BY <1>1, <1>2, <1>3, <1>4, <1>5, <1>6, <1>7, <1>8, <1>9, <1>10, <1>11, <1>12, <1>13,
         <1>14, <1>15, <1>16, <1>17, <1>18, <1>19, Zenon
        DEF AllRequests, BitRequests, ListRequests, StreamRequests, SortedSetRequests

(* So does dispatch_command, with the check it makes first. *)
LEMMA DispatchGood ==
  ASSUME NEW s, Good(s), NEW t \in Nat, NEW c \in AllRequests, NEW wall \in Word
  PROVE  Good(dispatch_command(c, s, t, wall).st)
BY HandleGood, ReapGood DEF dispatch_command, Result

-------------------------------------------------------------------------------
(* Reaping.  What lazy expiry leaves is compared with what is left when    *)
(* everything expired is gone (ReapAll).                                   *)

(* A map without some keys, and the keys whose deadline has come. *)
Cut(f, G) == [x \in DOMAIN f \ G |-> f[x]]

Over(E, t, K) == {k \in K : k \in DOMAIN E /\ t >= E[k]}

(* Cutting a map, and changes at one key. *)
LEMMA CutFacts ==
  ASSUME NEW f, f = [x \in DOMAIN f |-> f[x]], NEW G
  PROVE  /\ Cut(f, {}) = f
         /\ \A H : Cut(Cut(f, G), H) = Cut(f, G \cup H)
         /\ \A k : Erase(f, k) = Cut(f, {k})
         /\ \A k, v : Cut(Put(f, k, v), G \ {k}) = Put(Cut(f, G), k, v)
         /\ \A k, v : k \notin G => Cut(Put(f, k, v), G) = Put(Cut(f, G), k, v)
         /\ \A k : Cut(Erase(f, k), G \ {k}) = Erase(Cut(f, G), k)
<1>1. DOMAIN Cut(f, {}) = DOMAIN f /\ \A x \in DOMAIN f : Cut(f, {})[x] = f[x]
  BY DEF Cut
<1>2. Cut(f, {}) = f
  BY Zenon, <1>1 DEF Cut
<1>3. \A H : Cut(Cut(f, G), H) = Cut(f, G \cup H)
  BY DEF Cut
<1>4. \A k : Erase(f, k) = Cut(f, {k})
  BY Zenon DEF Cut, Erase
<1>5. \A k, v : Cut(Put(f, k, v), G \ {k}) = Put(Cut(f, G), k, v)
  BY DEF Cut, Put
<1>6. \A k, v : k \notin G => Cut(Put(f, k, v), G) = Put(Cut(f, G), k, v)
  BY DEF Cut, Put
<1>7. \A k : Cut(Erase(f, k), G \ {k}) = Erase(Cut(f, G), k)
  BY DEF Cut, Erase
<1> QED BY Zenon, <1>2, <1>3, <1>4, <1>5, <1>6, <1>7

(* Deadlines that go or come, one at a time or together. *)
LEMMA OverFacts ==
  ASSUME NEW E, NEW t \in Int, NEW K
  PROVE  /\ \A k : Over(Erase(E, k), t, K) = Over(E, t, K) \ {k}
         /\ \A k : \A x \in Int : t < x => Over(Put(E, k, x), t, K) = Over(E, t, K) \ {k}
         /\ \A J : Over(Cut(E, Over(E, t, J)), t, K) = Over(E, t, K) \ Over(E, t, J)
         /\ \A J : Over(E, t, K \cup J) = Over(E, t, K) \cup Over(E, t, J)
         /\ DOMAIN E \subseteq K => \A J : Over(E, t, J) \subseteq Over(E, t, K)
<1>1. \A k : Over(Erase(E, k), t, K) = Over(E, t, K) \ {k}
  BY DEF Over, Erase
<1>2. \A k : \A x \in Int : t < x => Over(Put(E, k, x), t, K) = Over(E, t, K) \ {k}
  BY DEF Over, Put
<1>3. \A J : Over(Cut(E, Over(E, t, J)), t, K) = Over(E, t, K) \ Over(E, t, J)
  BY DEF Over, Cut
<1>4. \A J : Over(E, t, K \cup J) = Over(E, t, K) \cup Over(E, t, J)
  BY DEF Over
<1>5. DOMAIN E \subseteq K => \A J : Over(E, t, J) \subseteq Over(E, t, K)
  BY DEF Over
<1> QED BY Zenon, <1>1, <1>2, <1>3, <1>4, <1>5

(* The maps of a good store are maps. *)
LEMMA GoodMaps ==
  ASSUME NEW s, Good(s)
  PROVE  /\ s = StoreOf(s.Storage, s.Expirations, s.DynamicVector, s.Streams, s.sorted_sets)
         /\ s.Storage = [x \in DOMAIN s.Storage |-> s.Storage[x]]
         /\ s.Expirations = [x \in DOMAIN s.Expirations |-> s.Expirations[x]]
         /\ s.DynamicVector = [x \in DOMAIN s.DynamicVector |-> s.DynamicVector[x]]
         /\ s.Streams = [x \in DOMAIN s.Streams |-> s.Streams[x]]
         /\ DOMAIN s.Storage \subseteq Keys /\ DOMAIN s.Expirations \subseteq DOMAIN s.Storage
         /\ \A k \in DOMAIN s.Expirations : s.Expirations[k] \in Int
BY DEF Good, StringsOk, ListsOk, StreamsOk, IsMap

(* The maps of a store that is put together. *)
LEMMA StoreFields ==
  ASSUME NEW S, NEW E, NEW L, NEW X, NEW Z
  PROVE  /\ StoreOf(S, E, L, X, Z).Storage = S
         /\ StoreOf(S, E, L, X, Z).Expirations = E
         /\ StoreOf(S, E, L, X, Z).DynamicVector = L
         /\ StoreOf(S, E, L, X, Z).Streams = X
         /\ StoreOf(S, E, L, X, Z).sorted_sets = Z
BY DEF StoreOf

(* What reaping a set of keys leaves of a store. *)
LEMMA ReapSetIs ==
  ASSUME NEW S, NEW E, NEW L, NEW X, NEW Z, NEW t, NEW K
  PROVE  ReapSet(StoreOf(S, E, L, X, Z), t, K) =
           StoreOf(Cut(S, Over(E, t, K)), Cut(E, Over(E, t, K)), L, X, Z)
<1> DEFINE s == StoreOf(S, E, L, X, Z)
           gone == {k \in K : Expired(s, t, k)}
<1>1. /\ s.Storage = S /\ s.Expirations = E /\ s.DynamicVector = L /\ s.Streams = X
      /\ s.sorted_sets = Z
  BY StoreFields
<1> HIDE DEF s
<1>2. gone = Over(E, t, K)
  BY <1>1 DEF Expired, Over
<1>3. ReapSet(s, t, K) =
        StoreOf(Cut(s.Storage, gone), Cut(s.Expirations, gone),
                s.DynamicVector, s.Streams, s.sorted_sets)
  BY Zenon DEF ReapSet, WithStrings, Cut
<1> HIDE DEF gone
<1> QED BY Zenon, <1>1, <1>2, <1>3 DEF s

(* Reaping twice, one key and every key, of a good store. *)
LEMMA ReapFacts ==
  ASSUME NEW s, Good(s), NEW t \in Int
  PROVE  /\ \A K, J : ReapSet(ReapSet(s, t, K), t, J) = ReapSet(s, t, K \cup J)
         /\ \A k : Reap(s, t, k) = ReapSet(s, t, {k})
         /\ s = ReapSet(s, t, {})
         /\ \A K : ReapAll(ReapSet(s, t, K), t) = ReapAll(s, t)
         /\ \A K : ReapSet(ReapAll(s, t), t, K) = ReapAll(s, t)
<1> DEFINE S == s.Storage
           E == s.Expirations
           L == s.DynamicVector
           X == s.Streams
           Z == s.sorted_sets
           O(K) == Over(E, t, K)
<1>1. /\ s = StoreOf(S, E, L, X, Z) /\ DOMAIN E \subseteq Keys
      /\ S = [x \in DOMAIN S |-> S[x]] /\ E = [x \in DOMAIN E |-> E[x]]
  BY Zenon, GoodMaps
<1>4. \A k : Expired(s, t, k) <=> k \in DOMAIN E /\ t >= E[k]
  BY Zenon DEF Expired
<1>5. \A k : O({k}) = IF Expired(s, t, k) THEN {k} ELSE {}
  BY <1>4 DEF Over
<1>6. O({}) = {}
  BY DEF Over
<1> HIDE DEF S, E, L, X, Z
<1>14. /\ Cut(S, {}) = S
       /\ \A G, H : Cut(Cut(S, G), H) = Cut(S, G \cup H)
       /\ \A k : Erase(S, k) = Cut(S, {k})
  BY <1>1, CutFacts
<1>15. /\ Cut(E, {}) = E
       /\ \A G, H : Cut(Cut(E, G), H) = Cut(E, G \cup H)
       /\ \A k : Erase(E, k) = Cut(E, {k})
  BY <1>1, CutFacts
<1>3. /\ \A K, J : Over(Cut(E, O(K)), t, J) = O(J) \ O(K)
      /\ \A K, J : O(K \cup J) = O(K) \cup O(J)
      /\ \A J : O(J) \subseteq O(Keys)
  BY <1>1, OverFacts
<1>7. \A K : ReapSet(s, t, K) = StoreOf(Cut(S, O(K)), Cut(E, O(K)), L, X, Z)
  BY <1>1, ReapSetIs
<1> HIDE DEF O
<1>8. ASSUME NEW K, NEW J PROVE ReapSet(ReapSet(s, t, K), t, J) = ReapSet(s, t, K \cup J)
  <2> DEFINE G == O(K)
             H == O(J) \ O(K)
             U == O(K \cup J)
  <2>1. ReapSet(StoreOf(Cut(S, G), Cut(E, G), L, X, Z), t, J) =
          StoreOf(Cut(Cut(S, G), Over(Cut(E, G), t, J)), Cut(Cut(E, G), Over(Cut(E, G), t, J)), L, X, Z)
    BY ReapSetIs
  <2>2. G \cup H = U
    BY <1>3
  <2>3. Over(Cut(E, G), t, J) = H
    BY Zenon, <1>3
  <2>4. ReapSet(s, t, K) = StoreOf(Cut(S, G), Cut(E, G), L, X, Z)
    BY Zenon, <1>7
  <2>5. ReapSet(s, t, K \cup J) = StoreOf(Cut(S, U), Cut(E, U), L, X, Z)
    BY Zenon, <1>7
  <2> HIDE DEF G, H, U
  <2>6. Cut(Cut(S, G), H) = Cut(S, U) /\ Cut(Cut(E, G), H) = Cut(E, U)
    BY <1>14, <1>15, <2>2
  <2> QED BY Zenon, <2>1, <2>3, <2>4, <2>5, <2>6
<1>9. ASSUME NEW k PROVE Reap(s, t, k) = ReapSet(s, t, {k})
  <2>1. CASE Expired(s, t, k)
    <3>1. Reap(s, t, k) = StoreOf(Erase(S, k), Erase(E, k), L, X, Z)
      BY Zenon, <2>1 DEF Reap, WithStrings, S, E, L, X, Z
    <3> QED BY <1>14, <1>15, <1>5, <1>7, <2>1, <3>1
  <2>2. CASE ~Expired(s, t, k)
    <3>1. Reap(s, t, k) = s
      BY Zenon, <2>2 DEF Reap
    <3> QED BY <1>1, <1>14, <1>15, <1>5, <1>7, <2>2, <3>1
  <2> QED BY Zenon, <2>1, <2>2
<1>10. s = ReapSet(s, t, {})
  BY <1>1, <1>14, <1>15, <1>6, <1>7
<1>11. ASSUME NEW K
       PROVE  ReapSet(s, t, K \cup Keys) = ReapAll(s, t) /\ ReapSet(s, t, Keys \cup K) = ReapAll(s, t)
  <2>1. O(K \cup Keys) = O(Keys) /\ O(Keys \cup K) = O(Keys)
    BY <1>3
  <2> QED BY Zenon, <1>7, <2>1 DEF ReapAll
<1>12. ASSUME NEW K PROVE ReapAll(ReapSet(s, t, K), t) = ReapAll(s, t)
  <2>1. ReapAll(ReapSet(s, t, K), t) = ReapSet(ReapSet(s, t, K), t, Keys)
    BY Zenon DEF ReapAll
  <2>2. ReapSet(ReapSet(s, t, K), t, Keys) = ReapSet(s, t, K \cup Keys)
    BY Zenon, <1>8
  <2>3. ReapSet(s, t, K \cup Keys) = ReapAll(s, t)
    BY Zenon, <1>11
  <2> QED BY Zenon, <2>1, <2>2, <2>3
<1>13. ASSUME NEW K PROVE ReapSet(ReapAll(s, t), t, K) = ReapAll(s, t)
  BY Zenon, <1>8, <1>11 DEF ReapAll
<1> QED BY Zenon, <1>8, <1>9, <1>10, <1>12, <1>13

-------------------------------------------------------------------------------
(* What is not propagated leaves no trace. *)

(* r leaves a store from which expired strings were removed, at most. *)
Unseen(r, s, t) == \E K : r.st = ReapSet(s, t, K)

(* Doing nothing, and looking at a key. *)
LEMMA UnseenReap ==
  ASSUME NEW s, Good(s), NEW t \in Int, NEW out
  PROVE  /\ Unseen(Result(s, out), s, t)
         /\ \A k : Unseen(Result(Reap(s, t, k), out), s, t)
         /\ \A K : Unseen(Result(ReapSet(s, t, K), out), s, t)
<1>1. \A a : Result(a, out).st = a
  BY DEF Result
<1>2. s = ReapSet(s, t, {}) /\ \A k : Reap(s, t, k) = ReapSet(s, t, {k})
  BY Zenon, ReapFacts
<1>3. \A a, K : a = ReapSet(s, t, K) => Unseen(Result(a, out), s, t)
  BY Zenon, <1>1 DEF Unseen
<1> QED BY Zenon, <1>2, <1>3

(* The commands that read. *)
LEMMA ReadersUnseen ==
  ASSUME NEW s, Good(s), NEW t \in Int, NEW key
  PROVE  /\ Unseen(handle_get(s, t, key), s, t)
         /\ Unseen(handle_strlen(s, t, key), s, t)
         /\ Unseen(handle_type(s, t, key), s, t)
         /\ Unseen(handle_zcard(s, t, key), s, t)
         /\ \A m : Unseen(handle_zscore(s, t, key, m), s, t) /\ Unseen(handle_zrank(s, t, key, m), s, t)
         /\ \A i, j : Unseen(handle_zrange(s, t, key, i, j), s, t)
         /\ \A i, j, unit : Unseen(handle_bitcount(s, t, key, i, j, unit), s, t)
         /\ \A offset : Unseen(handle_getbit(s, t, key, offset), s, t)
         /\ \A pattern : Unseen(handle_keys(s, t, pattern), s, t)
         /\ Unseen(handle_llen(s, key), s, t)
         /\ \A i, j : Unseen(handle_lrange(s, key, i, j), s, t)
         /\ \A from, to, n : Unseen(handle_xrange(s, key, from, to, n), s, t)
         /\ \A reads, n, b : Unseen(handle_xread(s, reads, n, b), s, t)
<1>1. \A out : /\ Unseen(Result(s, out), s, t) /\ Unseen(Result(Reap(s, t, key), out), s, t)
               /\ \A K : Unseen(Result(ReapSet(s, t, K), out), s, t)
  BY Zenon, UnseenReap
<1>2. /\ Unseen(handle_get(s, t, key), s, t)
      /\ Unseen(handle_strlen(s, t, key), s, t)
      /\ Unseen(handle_type(s, t, key), s, t)
      /\ Unseen(handle_zcard(s, t, key), s, t)
  BY Zenon, <1>1 DEF handle_get, peek, handle_strlen, handle_type, handle_zcard
<1>3. /\ \A m : Unseen(handle_zscore(s, t, key, m), s, t) /\ Unseen(handle_zrank(s, t, key, m), s, t)
      /\ \A i, j : Unseen(handle_zrange(s, t, key, i, j), s, t)
  BY Zenon, <1>1 DEF handle_zscore, handle_zrank, handle_zrange
<1>4. \A i, j, unit : Unseen(handle_bitcount(s, t, key, i, j, unit), s, t)
  BY Zenon, <1>1 DEF handle_bitcount
<1>5. \A offset : Unseen(handle_getbit(s, t, key, offset), s, t)
  BY Zenon, <1>1 DEF handle_getbit
<1>6. \A pattern : Unseen(handle_keys(s, t, pattern), s, t)
  BY Zenon, <1>1 DEF handle_keys, ReapAll
<1>7. /\ Unseen(handle_llen(s, key), s, t)
      /\ \A i, j : Unseen(handle_lrange(s, key, i, j), s, t)
  BY Zenon, <1>1 DEF handle_llen, handle_lrange
<1>8. \A from, to, n : Unseen(handle_xrange(s, key, from, to, n), s, t)
  BY Zenon, <1>1 DEF handle_xrange
<1>9. \A reads, n, b : Unseen(handle_xread(s, reads, n, b), s, t)
  BY Zenon, <1>1 DEF handle_xread
<1> QED BY Zenon, <1>2, <1>3, <1>4, <1>5, <1>6, <1>7, <1>8, <1>9

(* The kinds of replies. *)
LEMMA ReplyKinds ==
  /\ \A x : IsError(Error(x)) /\ ~IsError(Integer(x)) /\ ~IsError(Bulk(x)) /\ ~IsError(Array(x))
  /\ \A st, out : Result(st, out).st = st /\ Result(st, out).out = out
  /\ ~IsError(Ok) /\ ~IsError(NullBulk) /\ ~IsError(NullArray)
  /\ \A x : Array(x).kind = "array"
BY DEF IsError, Error, Integer, Bulk, Array, Ok, NullBulk, NullArray, Reply, Result

(* A refused entry leaves the streams as they were: a stream that was      *)
(* created for it is erased again (streams.cpp:60).                        *)
LEMMA XaddRefused ==
  ASSUME NEW s, Good(s), NEW key, NEW id, NEW wall, IsError(handle_xadd(s, key, id, wall).out)
  PROVE  handle_xadd(s, key, id, wall).st = s
<1> DEFINE r == insert(StreamAt(s, key), id, wall)
           X == s.Streams
           entered == Put(X, key, r.stream)
           left == IF key \notin DOMAIN X THEN Erase(entered, key) ELSE entered
<1>1. \/ handle_xadd(s, key, id, wall) = Result(WithStreams(s, entered), Bulk(r.id)) /\ r.result = "Ok"
      \/ handle_xadd(s, key, id, wall) = Result(WithStreams(s, left), Error(r.result)) /\ r.result # "Ok"
  BY Zenon DEF handle_xadd
<1>2. X = [x \in DOMAIN X |-> X[x]] /\ WithStreams(s, X) = s
  BY Zenon, GoodMaps DEF WithStreams
<1>3. key \in DOMAIN X => StreamAt(s, key) = X[key]
  BY Zenon DEF StreamAt
<1>4. r.result # "Ok" => r.stream = StreamAt(s, key)
  BY Zenon, InsertRefused
<1> HIDE DEF X, r
<1>5. r.result # "Ok" => left = X
  BY <1>2, <1>3, <1>4 DEF Put, Erase
<1> HIDE DEF left, entered
<1>6. CASE handle_xadd(s, key, id, wall) = Result(WithStreams(s, entered), Bulk(r.id)) /\ r.result = "Ok"
  BY <1>6, ReplyKinds
<1>7. CASE handle_xadd(s, key, id, wall) = Result(WithStreams(s, left), Error(r.result)) /\ r.result # "Ok"
  BY <1>2, <1>5, <1>7, ReplyKinds
<1> QED BY Zenon, <1>1, <1>6, <1>7

(* A write that fails, and BLPOP when it finds no list. *)
LEMMA WritersUnseen ==
  ASSUME NEW s, Good(s), NEW t \in Int, NEW key
  PROVE  /\ \A v, option : IsError(handle_set(s, t, key, v, option).out) =>
                             Unseen(handle_set(s, t, key, v, option), s, t)
         /\ IsError(handle_incr(s, key).out) => Unseen(handle_incr(s, key), s, t)
         /\ \A offset, bit : IsError(handle_setbit(s, t, key, offset, bit).out) =>
                               Unseen(handle_setbit(s, t, key, offset, bit), s, t)
         /\ \A op, sources : IsError(handle_bitop(s, t, op, key, sources).out) =>
                               Unseen(handle_bitop(s, t, op, key, sources), s, t)
         /\ \A elements : /\ ~IsError(handle_rpush(s, key, elements).out)
                          /\ ~IsError(handle_lpush(s, key, elements).out)
         /\ ~IsError(handle_lpop(s, key).out)
         /\ \A n : IsError(handle_lpop_count(s, key, n).out) =>
                     Unseen(handle_lpop_count(s, key, n), s, t)
         /\ \A keys : handle_blpop(s, keys).out.kind # "array" => Unseen(handle_blpop(s, keys), s, t)
         /\ \A id, wall : IsError(handle_xadd(s, key, id, wall).out) =>
                            Unseen(handle_xadd(s, key, id, wall), s, t)
         /\ \A entries : IsError(handle_zadd(s, t, key, entries).out) =>
                           Unseen(handle_zadd(s, t, key, entries), s, t)
         /\ \A entries, nx, xx, ch : IsError(handle_geoadd(s, t, key, entries, nx, xx, ch).out) =>
                                       Unseen(handle_geoadd(s, t, key, entries, nx, xx, ch), s, t)
         /\ \A members : IsError(handle_zrem(s, t, key, members).out) =>
                           Unseen(handle_zrem(s, t, key, members), s, t)
<1>1. \A out : /\ Unseen(Result(s, out), s, t) /\ Unseen(Result(Reap(s, t, key), out), s, t)
               /\ \A K : Unseen(Result(ReapSet(s, t, K), out), s, t)
  BY Zenon, UnseenReap
<1>2. \A a, x : /\ ~IsError(Result(a, Integer(x)).out) /\ ~IsError(Result(a, Bulk(x)).out)
                /\ ~IsError(Result(a, Array(x)).out) /\ ~IsError(Result(a, Ok).out)
                /\ ~IsError(Result(a, NullBulk).out) /\ ~IsError(Result(a, NullArray).out)
                /\ Result(a, Array(x)).out.kind = "array"
  BY ReplyKinds
<1>3. \A v, option : IsError(handle_set(s, t, key, v, option).out) =>
                       Unseen(handle_set(s, t, key, v, option), s, t)
  BY Zenon, <1>1, <1>2 DEF handle_set
<1>4. IsError(handle_incr(s, key).out) => Unseen(handle_incr(s, key), s, t)
  BY Zenon, <1>1, <1>2 DEF handle_incr
<1>5. \A offset, bit : IsError(handle_setbit(s, t, key, offset, bit).out) =>
                         Unseen(handle_setbit(s, t, key, offset, bit), s, t)
  BY Zenon, <1>1, <1>2 DEF handle_setbit
<1>6. ASSUME NEW op, NEW sources, IsError(handle_bitop(s, t, op, key, sources).out)
      PROVE  Unseen(handle_bitop(s, t, op, key, sources), s, t)
  <2> DEFINE r == handle_bitop(s, t, op, key, sources)
  <2>1. \/ \E out : r = Result(s, out)
        \/ \E out, n : r = Result(Looked(s, t, sources, n), out)
        \/ \E a, n : r = Result(a, Integer(n))
    BY Zenon DEF handle_bitop
  <2>2. \A n, out : Unseen(Result(Looked(s, t, sources, n), out), s, t)
    BY Zenon, <1>1 DEF Looked
  <2> HIDE DEF r
  <2>3. IsError(r.out) => Unseen(r, s, t)
    BY Zenon, <1>1, <1>2, <2>1, <2>2
  <2> QED BY Zenon, <1>6, <2>3 DEF r
<1>7. /\ \A elements : /\ ~IsError(handle_rpush(s, key, elements).out)
                       /\ ~IsError(handle_lpush(s, key, elements).out)
      /\ ~IsError(handle_lpop(s, key).out)
  BY Zenon, <1>2 DEF handle_rpush, handle_lpush, handle_lpop
<1>8. \A n : IsError(handle_lpop_count(s, key, n).out) => Unseen(handle_lpop_count(s, key, n), s, t)
  BY Zenon, <1>1, <1>2 DEF handle_lpop_count
<1>9. \A keys : handle_blpop(s, keys).out.kind # "array" => Unseen(handle_blpop(s, keys), s, t)
  BY Zenon, <1>1, <1>2 DEF handle_blpop, try_blpop
<1>10. \A id, wall : IsError(handle_xadd(s, key, id, wall).out) =>
                       Unseen(handle_xadd(s, key, id, wall), s, t)
  <2>1. s = ReapSet(s, t, {})
    BY Zenon, ReapFacts
  <2> QED BY Zenon, <2>1, XaddRefused DEF Unseen
<1>11. \A entries : IsError(handle_zadd(s, t, key, entries).out) =>
                      Unseen(handle_zadd(s, t, key, entries), s, t)
  BY Zenon, <1>1, <1>2 DEF handle_zadd
<1>12. ASSUME NEW entries, NEW nx, NEW xx, NEW ch,
              IsError(handle_geoadd(s, t, key, entries, nx, xx, ch).out)
       PROVE  Unseen(handle_geoadd(s, t, key, entries, nx, xx, ch), s, t)
  <2> DEFINE r == handle_geoadd(s, t, key, entries, nx, xx, ch)
  <2>1. \/ \E out : r = Result(s, out) \/ r = Result(Reap(s, t, key), out)
        \/ \E a, n : r = Result(a, Integer(n))
    BY Zenon DEF handle_geoadd
  <2> HIDE DEF r
  <2>2. IsError(r.out) => Unseen(r, s, t)
    BY Zenon, <1>1, <1>2, <2>1
  <2> QED BY Zenon, <1>12, <2>2 DEF r
<1>13. \A members : IsError(handle_zrem(s, t, key, members).out) =>
                      Unseen(handle_zrem(s, t, key, members), s, t)
  BY Zenon, <1>1, <1>2 DEF handle_zrem
<1> QED BY Zenon, <1>3, <1>4, <1>5, <1>6, <1>7, <1>8, <1>9, <1>10, <1>11, <1>12, <1>13

(* The commands there are. *)
LEMMA CommandOps ==
  ASSUME NEW c \in AllRequests
  PROVE  c.op \in {"SET", "GET", "STRLEN", "INCR", "TYPE", "LLEN", "LPOP", "ZCARD", "SETBIT",
                   "GETBIT", "BITCOUNT", "BITOP", "RPUSH", "LPUSH", "LPOPCOUNT", "LRANGE",
                   "BLPOP", "XADD", "XRANGE", "XREAD", "ZADD", "GEOADD", "ZREM", "ZSCORE",
                   "ZRANK", "ZRANGE", "KEYS"}
BY Zenon DEF AllRequests, SetRequests, KeyRequests, BitRequests, ListRequests, StreamRequests,
             SortedSetRequests

(* A handler whose command is not propagated. *)
LEMMA HandleUnseen ==
  ASSUME NEW s, Good(s), NEW t \in Int, NEW c \in AllRequests, NEW wall,
         ~IsPropagated(c, Handle(c, s, t, wall).out)
  PROVE  Unseen(Handle(c, s, t, wall), s, t)
<1> DEFINE r == Handle(c, s, t, wall)
<1>1. \A key : /\ Unseen(handle_get(s, t, key), s, t)
               /\ Unseen(handle_strlen(s, t, key), s, t)
               /\ Unseen(handle_type(s, t, key), s, t)
               /\ Unseen(handle_zcard(s, t, key), s, t)
               /\ Unseen(handle_llen(s, key), s, t)
               /\ \A m : Unseen(handle_zscore(s, t, key, m), s, t) /\ Unseen(handle_zrank(s, t, key, m), s, t)
               /\ \A i, j : Unseen(handle_zrange(s, t, key, i, j), s, t) /\ Unseen(handle_lrange(s, key, i, j), s, t)
               /\ \A i, j, unit : Unseen(handle_bitcount(s, t, key, i, j, unit), s, t)
               /\ \A offset : Unseen(handle_getbit(s, t, key, offset), s, t)
               /\ \A from, to, n : Unseen(handle_xrange(s, key, from, to, n), s, t)
  BY Zenon, ReadersUnseen
<1>2. /\ \A pattern : Unseen(handle_keys(s, t, pattern), s, t)
      /\ \A reads, n, b : Unseen(handle_xread(s, reads, n, b), s, t)
  BY Zenon, ReadersUnseen
<1>3. CASE c.op \in {"GET", "STRLEN", "TYPE", "ZCARD", "LLEN", "ZSCORE", "ZRANK", "ZRANGE", "LRANGE",
                     "BITCOUNT", "GETBIT", "XRANGE", "KEYS", "XREAD"}
  <2>1. CASE c.op \in {"GET", "STRLEN"}
    BY ZenonT(60), <1>1, <2>1, StringHandler
  <2>2. CASE c.op \in {"TYPE", "KEYS"}
    BY Zenon, <1>1, <1>2, <2>2, KeyHandler
  <2>3. CASE c.op \in {"ZCARD", "ZSCORE", "ZRANK", "ZRANGE"}
    BY ZenonT(60), <1>1, <2>3, SetReader
  <2>4. CASE c.op \in {"LLEN", "LRANGE"}
    BY ZenonT(60), <1>1, <2>4, ListHandler
  <2>5. CASE c.op \in {"BITCOUNT", "GETBIT"}
    BY ZenonT(60), <1>1, <2>5, BitHandler
  <2>6. CASE c.op = "XRANGE"
    <3>1. Handle(c, s, t, wall) = handle_xrange(s, c.key, c.from, c.to, c.count)
      BY Zenon, <2>6, StreamHandler
    <3>2. Unseen(handle_xrange(s, c.key, c.from, c.to, c.count), s, t)
      BY Zenon, <1>1
    <3> QED BY Zenon, <3>1, <3>2
  <2>7. CASE c.op = "XREAD"
    BY ZenonT(60), <1>2, <2>7, StreamHandler
  <2> QED BY Zenon, <1>3, <2>1, <2>2, <2>3, <2>4, <2>5, <2>6, <2>7
<1>4. CASE c.op = "BLPOP"
  <2>1. r = handle_blpop(s, c.keys)
    BY Zenon, <1>4, ListHandler
  <2>2. r.out.kind # "array"
    BY Zenon, <1>4 DEF IsPropagated
  <2> QED BY Zenon, <2>1, <2>2, WritersUnseen
<1>5. ASSUME is_write_command(c.op) PROVE IsError(r.out)
  BY Zenon, <1>5 DEF IsPropagated
<1>6. CASE c.op \in {"SET", "INCR", "SETBIT", "BITOP"}
  <2>1. IsError(r.out)
    BY Zenon, <1>5, <1>6 DEF is_write_command
  <2>2. \A key :
          /\ \A v, option : IsError(handle_set(s, t, key, v, option).out) =>
                              Unseen(handle_set(s, t, key, v, option), s, t)
          /\ IsError(handle_incr(s, key).out) => Unseen(handle_incr(s, key), s, t)
          /\ \A offset, bit : IsError(handle_setbit(s, t, key, offset, bit).out) =>
                                Unseen(handle_setbit(s, t, key, offset, bit), s, t)
          /\ \A op, sources : IsError(handle_bitop(s, t, op, key, sources).out) =>
                                Unseen(handle_bitop(s, t, op, key, sources), s, t)
    BY Zenon, WritersUnseen
  <2>3. CASE c.op \in {"SET", "INCR"}
    BY ZenonT(60), <2>1, <2>2, <2>3, StringHandler
  <2>4. CASE c.op \in {"SETBIT", "BITOP"}
    BY ZenonT(60), <2>1, <2>2, <2>4, BitHandler
  <2> QED BY Zenon, <1>6, <2>3, <2>4
<1>7. CASE c.op \in {"RPUSH", "LPUSH", "LPOP", "LPOPCOUNT"}
  <2>1. IsError(r.out)
    BY Zenon, <1>5, <1>7 DEF is_write_command
  <2>2. \A key : /\ \A elements : /\ ~IsError(handle_rpush(s, key, elements).out)
                                  /\ ~IsError(handle_lpush(s, key, elements).out)
                 /\ ~IsError(handle_lpop(s, key).out)
                 /\ \A n : IsError(handle_lpop_count(s, key, n).out) =>
                             Unseen(handle_lpop_count(s, key, n), s, t)
    BY Zenon, WritersUnseen
  <2> QED BY ZenonT(60), <1>7, <2>1, <2>2, ListHandler
<1>8. CASE c.op \in {"XADD", "ZADD", "GEOADD", "ZREM"}
  <2>1. IsError(r.out)
    BY Zenon, <1>5, <1>8 DEF is_write_command
  <2>2. \A key :
          /\ \A id : IsError(handle_xadd(s, key, id, wall).out) =>
                       Unseen(handle_xadd(s, key, id, wall), s, t)
          /\ \A entries : IsError(handle_zadd(s, t, key, entries).out) =>
                            Unseen(handle_zadd(s, t, key, entries), s, t)
          /\ \A entries, nx, xx, ch : IsError(handle_geoadd(s, t, key, entries, nx, xx, ch).out) =>
                                        Unseen(handle_geoadd(s, t, key, entries, nx, xx, ch), s, t)
          /\ \A members : IsError(handle_zrem(s, t, key, members).out) =>
                            Unseen(handle_zrem(s, t, key, members), s, t)
    BY Zenon, WritersUnseen
  <2>3. CASE c.op = "XADD"
    BY ZenonT(60), <2>1, <2>2, <2>3, StreamHandler
  <2>4. CASE c.op \in {"ZADD", "GEOADD", "ZREM"}
    BY ZenonT(60), <2>1, <2>2, <2>4, SetWriter
  <2> QED BY Zenon, <1>8, <2>3, <2>4
<1> QED BY Zenon, <1>3, <1>4, <1>6, <1>7, <1>8, CommandOps

(* So with the check of dispatch_command. *)
LEMMA DispatchUnseen ==
  ASSUME NEW s, Good(s), NEW t \in Int, NEW c \in AllRequests, NEW wall,
         ~IsPropagated(c, dispatch_command(c, s, t, wall).out)
  PROVE  Unseen(dispatch_command(c, s, t, wall), s, t)
<1> DEFINE a == Reap(s, t, c.key)
<1>1. CASE dispatch_command(c, s, t, wall) = Handle(c, s, t, wall)
  BY Zenon, <1>1, HandleUnseen
<1>2. CASE dispatch_command(c, s, t, wall) = Result(a, WrongType)
  BY Zenon, <1>2, UnseenReap
<1>3. CASE dispatch_command(c, s, t, wall) = Handle(c, a, t, wall)
  <2>1. Good(a) /\ a = ReapSet(s, t, {c.key})
    BY ReapGood, ReapFacts
  <2> HIDE DEF a
  <2>2. Unseen(Handle(c, a, t, wall), a, t)
    BY Zenon, <1>3, <2>1, HandleUnseen
  <2>3. \A K : ReapSet(ReapSet(s, t, {c.key}), t, K) = ReapSet(s, t, {c.key} \cup K)
    BY ReapFacts
  <2>4. PICK K : Handle(c, a, t, wall).st = ReapSet(a, t, K)
    BY Zenon, <2>2 DEF Unseen
  <2>5. dispatch_command(c, s, t, wall).st = ReapSet(s, t, {c.key} \cup K)
    BY Zenon, <1>3, <2>1, <2>3, <2>4
  <2> QED BY Zenon, <2>5 DEF Unseen
<1> QED BY Zenon, <1>1, <1>2, <1>3 DEF dispatch_command

===============================================================================
