------------------------------ MODULE StoreProofs ------------------------------
(***************************************************************************)
(* The properties of Store hold for every set of keys, requests and RDB    *)
(* files, every size of byte and word, and without the bounds TLC needs.   *)
(*                                                                         *)
(* The inductive invariant is the conjunction of four invariants, said of  *)
(* the store a command starts from (Good, of CommandProofs).  Two further  *)
(* properties compare a command in a store where expired strings linger    *)
(* with what it would do to another: a lemma for each handler says that    *)
(* it leaves types apart (LeavesApart), and that it answers and leaves     *)
(* what it would if everything expired were gone (Alike).                  *)
(***************************************************************************)
EXTENDS Store, CommandProofs

(* The invariants. *)

Inv == Good(store) /\ now \in Nat

(* Every step but the clock's is a command a client may send. *)
LEMMA StepIsCommand ==
  ASSUME Next
  PROVE  \/ Tick
         \/ /\ now' = now
            /\ \E c \in Requests, wall \in Walls :
                 store' = dispatch_command(c, store, now, wall).st
<1>1. ASSUME NEW op, Run(op) \/ Push(op)
      PROVE  /\ now' = now
             /\ \E c \in Requests, wall \in Walls :
                  store' = dispatch_command(c, store, now, wall).st
  BY <1>1, Zenon DEF Run, Push, Execute
<1> QED BY <1>1 DEF Next

(* Good is inductive: it holds of what the RDB file leaves, and every      *)
(* command keeps it.                                                       *)
THEOREM Invariance == Spec => []Inv
<1>1. Init => Inv
  BY LoadGood, StoreAssumption DEF Init, Inv
<1>2. Inv /\ [Next]_vars => Inv'
  <2> SUFFICES ASSUME Inv, [Next]_vars PROVE Inv'
    OBVIOUS
  <2>1. CASE Tick
    BY <2>1 DEF Tick, Inv
  <2>2. CASE /\ now' = now
             /\ \E c \in Requests, wall \in Walls :
                  store' = dispatch_command(c, store, now, wall).st
    BY <2>2, DispatchGood, StoreAssumption DEF Inv
  <2>3. CASE UNCHANGED vars
    BY <2>3 DEF Inv, vars
  <2> QED BY <2>1, <2>2, <2>3, StepIsCommand
<1> QED BY <1>1, <1>2, PTL DEF Spec

(* The maps hold values of their own type, whatever commands were run. *)
THEOREM TypeCorrect == Spec => []TypeOK
<1>1. Inv => TypeOK
  <2> SUFFICES ASSUME Inv PROVE TypeOK
    OBVIOUS
  <2>1. IsMap(store.DynamicVector, Keys, Seq(Elements))
    BY DEF Inv, Good, ListsOk, IsMap
  <2>2. IsMap(store.Streams, Keys, StreamValues)
    BY DEF Inv, Good, StreamsOk, IsMap, GoodStreams
  <2>3. \A k \in DOMAIN store.sorted_sets : k \in Keys /\ IsSortedSet(store.sorted_sets[k])
    BY DEF Inv, Good, SetsOk, IsGoodSet
  <2> QED BY <2>1, <2>2, <2>3 DEF Inv, Good, StringsOk, TypeOK, IsStore
<1> QED BY <1>1, Invariance, PTL

(* No deadline is ever without its string (is_expired erases both). *)
THEOREM DeadlineSafety == Spec => []DeadlinesBelongToStrings
<1>1. Inv => DeadlinesBelongToStrings
  BY DEF Inv, Good, StringsOk, DeadlinesBelongToStrings
<1> QED BY <1>1, Invariance, PTL

(* scores and ordered of every sorted set agree after every command. *)
THEOREM IndexSafety == Spec => []IndexesAgree
<1>1. Inv => IndexesAgree
  BY DEF Inv, Good, SetsOk, IsGoodSet, IndexesAgree
<1> QED BY <1>1, Invariance, PTL

(* No command leaves an empty list, stream or sorted set behind. *)
THEOREM EmptinessSafety == Spec => []NothingEmpty
<1>1. Inv => NothingEmpty
  BY DEF Inv, Good, ListsOk, StreamsOk, SetsOk, IsMap, GoodStreams, IsGoodSet, NothingEmpty
<1> QED BY <1>1, Invariance, PTL

(* What the server neither logs nor sends to the replicas has changed      *)
(* nothing that is not expired (server.cpp:653).                           *)
THEOREM NoHiddenWrites == Spec => []UnpropagatedLeavesNoTrace
<1>1. Inv => UnpropagatedLeavesNoTrace
  <2> SUFFICES ASSUME Inv, NEW c \in Requests, NEW wall \in Walls,
                      ~IsPropagated(c, dispatch_command(c, store, now, wall).out)
               PROVE  ReapAll(dispatch_command(c, store, now, wall).st, now) = ReapAll(store, now)
    BY Zenon DEF UnpropagatedLeavesNoTrace
  <2>1. Good(store) /\ now \in Int /\ c \in AllRequests
    BY StoreAssumption DEF Inv
  <2>2. PICK K : dispatch_command(c, store, now, wall).st = ReapSet(store, now, K)
    BY Zenon, <2>1, DispatchUnseen DEF Unseen
  <2> QED BY <2>1, <2>2, ReapFacts
<1> QED BY <1>1, Invariance, PTL

-------------------------------------------------------------------------------
(* Types stay apart. *)

(* No sorted set shares its key, and no expired string hides a value. *)
Apart(s) ==
  DOMAIN s.sorted_sets
    \cap (DOMAIN s.Storage \cup DOMAIN s.DynamicVector \cup DOMAIN s.Streams) = {}

Bare(s, t) ==
  \A k : Expired(s, t, k) =>
    k \notin DOMAIN s.DynamicVector \cup DOMAIN s.Streams \cup DOMAIN s.sorted_sets

(* From s to a the key k may have come into maps other than that of the    *)
(* sorted sets, and is not in that one.                                    *)
NotASet(a, s, k) ==
  /\ DOMAIN a.sorted_sets \subseteq DOMAIN s.sorted_sets \ {k}
  /\ DOMAIN a.Storage \subseteq DOMAIN s.Storage \cup {k}
  /\ DOMAIN a.DynamicVector \subseteq DOMAIN s.DynamicVector \cup {k}
  /\ DOMAIN a.Streams \subseteq DOMAIN s.Streams \cup {k}

(* The other way round. *)
OnlyASet(a, s, k) ==
  /\ DOMAIN a.sorted_sets \subseteq DOMAIN s.sorted_sets \cup {k}
  /\ DOMAIN a.Storage \subseteq DOMAIN s.Storage \ {k}
  /\ DOMAIN a.DynamicVector \subseteq DOMAIN s.DynamicVector \ {k}
  /\ DOMAIN a.Streams \subseteq DOMAIN s.Streams \ {k}

(* No key has come into any map. *)
NothingNew(a, s) ==
  /\ DOMAIN a.sorted_sets \subseteq DOMAIN s.sorted_sets
  /\ DOMAIN a.Storage \subseteq DOMAIN s.Storage
  /\ DOMAIN a.DynamicVector \subseteq DOMAIN s.DynamicVector
  /\ DOMAIN a.Streams \subseteq DOMAIN s.Streams

(* Each of these keeps types apart. *)
LEMMA StaysApart ==
  ASSUME NEW s, Apart(s), NEW a,
         NothingNew(a, s) \/ (\E k : NotASet(a, s, k)) \/ (\E k : OnlyASet(a, s, k))
  PROVE  Apart(a)
<1>1. CASE NothingNew(a, s)
  BY <1>1 DEF NothingNew, Apart
<1>2. ASSUME NEW k, NotASet(a, s, k) PROVE Apart(a)
  BY <1>2 DEF NotASet, Apart
<1>3. ASSUME NEW k, OnlyASet(a, s, k) PROVE Apart(a)
  BY <1>3 DEF OnlyASet, Apart
<1> QED BY Zenon, <1>1, <1>2, <1>3

(* What the type checks tell. *)
LEMMA TypeTells ==
  ASSUME NEW s, Apart(s), NEW t, Bare(s, t), NEW k
  PROVE  /\ key_type(s, t, k) # "zset" => k \notin DOMAIN s.sorted_sets
         /\ ~wrong_string_type(s, t, k) => k \notin DOMAIN s.sorted_sets
         /\ ~wrong_sorted_set_type(s, t, k) =>
              /\ k \notin DOMAIN s.DynamicVector /\ k \notin DOMAIN s.Streams
              /\ Expired(s, t, k) \/ k \notin DOMAIN s.Storage
<1>1. CASE Expired(s, t, k)
  <2>1. k \notin DOMAIN s.DynamicVector /\ k \notin DOMAIN s.Streams /\ k \notin DOMAIN s.sorted_sets
    BY <1>1 DEF Bare
  <2> QED BY Zenon, <1>1, <2>1
<1>2. CASE ~Expired(s, t, k)
  <2>1. k \in DOMAIN s.sorted_sets =>
          k \notin DOMAIN s.Storage /\ k \notin DOMAIN s.DynamicVector /\ k \notin DOMAIN s.Streams
    BY Zenon DEF Apart
  <2> QED BY <1>2, <2>1 DEF key_type, wrong_string_type, wrong_sorted_set_type
<1> QED BY Zenon, <1>1, <1>2

(* The same of a store that is put together. *)
LEMMA NotASetIs ==
  ASSUME NEW s, NEW k, NEW S, NEW E, NEW L, NEW X, NEW Z,
         DOMAIN Z \subseteq DOMAIN s.sorted_sets \ {k},
         DOMAIN S \subseteq DOMAIN s.Storage \cup {k},
         DOMAIN L \subseteq DOMAIN s.DynamicVector \cup {k},
         DOMAIN X \subseteq DOMAIN s.Streams \cup {k}
  PROVE  NotASet(StoreOf(S, E, L, X, Z), s, k)
BY StoreFields DEF NotASet

(* What storing under a key does, after it was reaped. *)
LEMMA StoresApart ==
  ASSUME NEW s, NEW t, NEW k, NEW a, a = s \/ a = Reap(s, t, k)
  PROVE  /\ NothingNew(a, s)
         /\ a.sorted_sets = s.sorted_sets
         /\ k \notin DOMAIN s.sorted_sets =>
              /\ \A v : NotASet(StoreString(a, k, v), s, k)
              /\ \A list : NotASet(StoreList(a, k, list), s, k)
              /\ \A v : NotASet(WithStreams(a, Put(a.Streams, k, v)), s, k)
              /\ \A v : NotASet(WithStreams(a, Erase(Put(a.Streams, k, v), k)), s, k)
         /\ \A v, E : NotASet(Assign(a, k, v, E), s, k)
<1>1. /\ a.DynamicVector = s.DynamicVector /\ a.Streams = s.Streams /\ a.sorted_sets = s.sorted_sets
      /\ a.Storage = s.Storage \/ a.Storage = Erase(s.Storage, k)
  BY DEF Reap, WithStrings, StoreOf
<1>2. DOMAIN a.Storage \subseteq DOMAIN s.Storage
  BY <1>1 DEF Erase
<1>3. NothingNew(a, s)
  BY <1>1, <1>2 DEF NothingNew
<1>4. /\ \A f, v : DOMAIN f \subseteq DOMAIN Put(f, k, v) /\ DOMAIN Put(f, k, v) \subseteq DOMAIN f \cup {k}
      /\ \A f : DOMAIN Erase(f, k) \subseteq DOMAIN f \ {k}
  BY DEF Put, Erase
<1>5. ASSUME k \notin DOMAIN s.sorted_sets, NEW v PROVE NotASet(StoreString(a, k, v), s, k)
  <2>1. /\ DOMAIN a.sorted_sets \subseteq DOMAIN s.sorted_sets \ {k}
        /\ DOMAIN Put(a.Storage, k, v) \subseteq DOMAIN s.Storage \cup {k}
        /\ DOMAIN a.DynamicVector \subseteq DOMAIN s.DynamicVector \cup {k}
        /\ DOMAIN a.Streams \subseteq DOMAIN s.Streams \cup {k}
    BY <1>1, <1>2, <1>4, <1>5
  <2> QED BY Zenon, <2>1, NotASetIs DEF StoreString, WithStrings
<1>6. ASSUME k \notin DOMAIN s.sorted_sets, NEW list PROVE NotASet(StoreList(a, k, list), s, k)
  <2> DEFINE L == IF list = <<>> THEN Erase(a.DynamicVector, k) ELSE Put(a.DynamicVector, k, list)
  <2>1. /\ DOMAIN a.sorted_sets \subseteq DOMAIN s.sorted_sets \ {k}
        /\ DOMAIN a.Storage \subseteq DOMAIN s.Storage \cup {k}
        /\ DOMAIN L \subseteq DOMAIN s.DynamicVector \cup {k}
        /\ DOMAIN a.Streams \subseteq DOMAIN s.Streams \cup {k}
    BY <1>1, <1>2, <1>4, <1>6
  <2>2. StoreList(a, k, list) = StoreOf(a.Storage, a.Expirations, L, a.Streams, a.sorted_sets)
    BY Zenon DEF StoreList, WithLists
  <2> HIDE DEF L
  <2> QED BY <2>1, <2>2, NotASetIs
<1>7. ASSUME k \notin DOMAIN s.sorted_sets, NEW X, DOMAIN X \subseteq DOMAIN a.Streams \cup {k}
      PROVE  NotASet(WithStreams(a, X), s, k)
  <2>1. /\ DOMAIN a.sorted_sets \subseteq DOMAIN s.sorted_sets \ {k}
        /\ DOMAIN a.Storage \subseteq DOMAIN s.Storage \cup {k}
        /\ DOMAIN a.DynamicVector \subseteq DOMAIN s.DynamicVector \cup {k}
        /\ DOMAIN X \subseteq DOMAIN s.Streams \cup {k}
    BY <1>1, <1>2, <1>7
  <2> QED BY Zenon, <2>1, NotASetIs DEF WithStreams
<1>8. \A v : /\ DOMAIN Put(a.Streams, k, v) \subseteq DOMAIN a.Streams \cup {k}
             /\ DOMAIN Erase(Put(a.Streams, k, v), k) \subseteq DOMAIN a.Streams \cup {k}
  BY DEF Put, Erase
<1>9. ASSUME NEW v, NEW E PROVE NotASet(Assign(a, k, v, E), s, k)
  <2>1. /\ DOMAIN Erase(a.sorted_sets, k) \subseteq DOMAIN s.sorted_sets \ {k}
        /\ DOMAIN Put(a.Storage, k, v) \subseteq DOMAIN s.Storage \cup {k}
        /\ DOMAIN Erase(a.DynamicVector, k) \subseteq DOMAIN s.DynamicVector \cup {k}
        /\ DOMAIN Erase(a.Streams, k) \subseteq DOMAIN s.Streams \cup {k}
    BY <1>1, <1>2, <1>4
  <2> QED BY Zenon, <2>1, NotASetIs DEF Assign
<1> QED BY Zenon, <1>1, <1>3, <1>5, <1>6, <1>7, <1>8, <1>9

(* A command that leaves types apart. *)
LeavesApart(r) == Apart(r.st)

(* A handler that answers with such a store does. *)
LEMMA ResultApart ==
  ASSUME NEW a, Apart(a), NEW out
  PROVE  LeavesApart(Result(a, out))
BY ReplyKinds DEF LeavesApart

(* The commands that dispatch_command checks first, on a key that holds no *)
(* sorted set.                                                             *)
LEMMA CheckedApart ==
  ASSUME NEW s, Apart(s), NEW t, NEW k, NEW a, a = s \/ a = Reap(s, t, k),
         k \notin DOMAIN s.sorted_sets
  PROVE  /\ LeavesApart(handle_incr(a, k))
         /\ \A elements : LeavesApart(handle_rpush(a, k, elements)) /\ LeavesApart(handle_lpush(a, k, elements))
         /\ LeavesApart(handle_lpop(a, k))
         /\ \A n : LeavesApart(handle_lpop_count(a, k, n))
         /\ \A id, wall : LeavesApart(handle_xadd(a, k, id, wall))
<1>1. NothingNew(a, s)
  BY Zenon, StoresApart
<1>2. /\ \A v : NotASet(StoreString(a, k, v), s, k)
      /\ \A list : NotASet(StoreList(a, k, list), s, k)
      /\ \A v : NotASet(WithStreams(a, Put(a.Streams, k, v)), s, k)
      /\ \A v : NotASet(WithStreams(a, Erase(Put(a.Streams, k, v), k)), s, k)
  BY Zenon, StoresApart
<1>3. \A x : NothingNew(x, s) \/ NotASet(x, s, k) => Apart(x)
  BY Zenon, StaysApart
<1>4. \A out : /\ LeavesApart(Result(a, out))
               /\ \A v : LeavesApart(Result(StoreString(a, k, v), out))
               /\ \A list : LeavesApart(Result(StoreList(a, k, list), out))
               /\ \A v : /\ LeavesApart(Result(WithStreams(a, Put(a.Streams, k, v)), out))
                         /\ LeavesApart(Result(WithStreams(a, Erase(Put(a.Streams, k, v), k)), out))
  BY Zenon, <1>1, <1>2, <1>3, ResultApart
<1>5. LeavesApart(handle_incr(a, k))
  BY Zenon, <1>4 DEF handle_incr
<1>6. \A elements : LeavesApart(handle_rpush(a, k, elements)) /\ LeavesApart(handle_lpush(a, k, elements))
  BY Zenon, <1>4 DEF handle_rpush, handle_lpush
<1>7. LeavesApart(handle_lpop(a, k)) /\ \A n : LeavesApart(handle_lpop_count(a, k, n))
  BY Zenon, <1>4 DEF handle_lpop, handle_lpop_count
<1>8. ASSUME NEW id, NEW wall PROVE LeavesApart(handle_xadd(a, k, id, wall))
  <2> DEFINE r == insert(StreamAt(a, k), id, wall)
  <2>1. \E out : \/ handle_xadd(a, k, id, wall) = Result(WithStreams(a, Put(a.Streams, k, r.stream)), out)
                 \/ handle_xadd(a, k, id, wall) = Result(WithStreams(a, Erase(Put(a.Streams, k, r.stream), k)), out)
    BY Zenon DEF handle_xadd
  <2> QED BY Zenon, <1>4, <2>1
<1> QED BY Zenon, <1>5, <1>6, <1>7, <1>8

(* SET, SETBIT and BITOP. *)
LEMMA StringsApart ==
  ASSUME NEW s, Apart(s), NEW t, Bare(s, t), NEW k
  PROVE  /\ \A v, option : LeavesApart(handle_set(s, t, k, v, option))
         /\ \A offset, bit : LeavesApart(handle_setbit(s, t, k, offset, bit))
         /\ \A op, sources : LeavesApart(handle_bitop(s, t, op, k, sources))
<1>0. \A x : NothingNew(x, s) \/ NotASet(x, s, k) => Apart(x)
  BY Zenon, StaysApart
<1>1. \A out : LeavesApart(Result(s, out))
  BY Zenon, ResultApart
<1>2. \A v, option : LeavesApart(handle_set(s, t, k, v, option))
  <2>1. \A v, E : NotASet(Assign(s, k, v, E), s, k)
    BY Zenon, StoresApart
  <2>2. \A v, E, out : LeavesApart(Result(Assign(s, k, v, E), out))
    BY Zenon, <1>0, <2>1, ResultApart
  <2> QED BY Zenon, <1>1, <2>2 DEF handle_set
<1>3. \A offset, bit : LeavesApart(handle_setbit(s, t, k, offset, bit))
  <2> DEFINE a == Reap(s, t, k)
  <2>1. NothingNew(a, s)
    BY Zenon, StoresApart
  <2>2. ~wrong_string_type(s, t, k) => \A v : NotASet(StoreString(a, k, v), s, k)
    BY Zenon, TypeTells, StoresApart
  <2>3. \A out : /\ LeavesApart(Result(a, out))
                 /\ ~wrong_string_type(s, t, k) => \A v : LeavesApart(Result(StoreString(a, k, v), out))
    BY Zenon, <1>0, <2>1, <2>2, ResultApart
  <2> QED BY Zenon, <1>1, <2>3 DEF handle_setbit
<1>4. ASSUME NEW op, NEW sources PROVE LeavesApart(handle_bitop(s, t, op, k, sources))
  <2> DEFINE a == Looked(s, t, sources, Len(sources))
             result == BitOp(op, [j \in DOMAIN sources |-> StringAt(a, sources[j])])
             S == IF result = <<>> THEN Erase(a.Storage, k) ELSE Put(a.Storage, k, result)
             E == Erase(a.Expirations, k)
             L == Erase(a.DynamicVector, k)
             X == Erase(a.Streams, k)
             Z == Erase(a.sorted_sets, k)
  <2>1. \/ \E out : handle_bitop(s, t, op, k, sources) = Result(s, out)
        \/ \E n, out : handle_bitop(s, t, op, k, sources) = Result(Looked(s, t, sources, n), out)
        \/ \E out : handle_bitop(s, t, op, k, sources) = Result(StoreOf(S, E, L, X, Z), out)
    BY Zenon DEF handle_bitop
  <2>2. ASSUME NEW n
        PROVE  /\ Looked(s, t, sources, n).DynamicVector = s.DynamicVector
               /\ Looked(s, t, sources, n).Streams = s.Streams
               /\ Looked(s, t, sources, n).sorted_sets = s.sorted_sets
               /\ DOMAIN Looked(s, t, sources, n).Storage \subseteq DOMAIN s.Storage
    BY DEF Looked, ReapSet, WithStrings, StoreOf
  <2>3. \A n : Apart(Looked(s, t, sources, n))
    <3>1. \A n : NothingNew(Looked(s, t, sources, n), s)
      BY <2>2 DEF NothingNew
    <3> QED BY Zenon, <1>0, <3>1
  <2>4. /\ a.DynamicVector = s.DynamicVector /\ a.Streams = s.Streams /\ a.sorted_sets = s.sorted_sets
        /\ DOMAIN a.Storage \subseteq DOMAIN s.Storage
    BY Zenon, <2>2
  <2> HIDE DEF a, result
  <2>5. /\ DOMAIN Z \subseteq DOMAIN s.sorted_sets \ {k} /\ DOMAIN S \subseteq DOMAIN s.Storage \cup {k}
        /\ DOMAIN L \subseteq DOMAIN s.DynamicVector \cup {k} /\ DOMAIN X \subseteq DOMAIN s.Streams \cup {k}
    BY <2>4 DEF Erase, Put
  <2> HIDE DEF Z, S, L, X, E
  <2>6. Apart(StoreOf(S, E, L, X, Z))
    BY Zenon, <1>0, <2>5, NotASetIs
  <2> QED BY Zenon, <1>1, <2>1, <2>3, <2>6, ResultApart
<1> QED BY Zenon, <1>2, <1>3, <1>4

(* ZADD, GEOADD and ZREM: on a key that they accept, nothing but a sorted  *)
(* set is left.                                                            *)
LEMMA SetsApart ==
  ASSUME NEW s, Apart(s), NEW t, Bare(s, t), NEW k
  PROVE  /\ \A entries : LeavesApart(handle_zadd(s, t, k, entries))
         /\ \A entries, nx, xx, ch : LeavesApart(handle_geoadd(s, t, k, entries, nx, xx, ch))
         /\ \A members : LeavesApart(handle_zrem(s, t, k, members))
<1> DEFINE a == Reap(s, t, k)
<1>1. NothingNew(a, s) /\ a.sorted_sets = s.sorted_sets
  BY Zenon, StoresApart
<1>2. /\ a.DynamicVector = s.DynamicVector /\ a.Streams = s.Streams
      /\ DOMAIN a.Storage \subseteq DOMAIN s.Storage
      /\ Expired(s, t, k) => k \notin DOMAIN a.Storage
  BY DEF Reap, WithStrings, StoreOf, Erase
<1>3. ~wrong_sorted_set_type(s, t, k) =>
        /\ k \notin DOMAIN s.DynamicVector /\ k \notin DOMAIN s.Streams
        /\ Expired(s, t, k) \/ k \notin DOMAIN s.Storage
  BY Zenon, TypeTells
<1>4. \A x : NothingNew(x, s) \/ OnlyASet(x, s, k) => Apart(x)
  BY Zenon, StaysApart
<1> HIDE DEF a
<1>5. ASSUME ~wrong_sorted_set_type(s, t, k), NEW Z, DOMAIN Z \subseteq DOMAIN s.sorted_sets \cup {k}
      PROVE  Apart(WithSets(a, Z))
  <2>1. /\ WithSets(a, Z).Storage = a.Storage /\ WithSets(a, Z).DynamicVector = a.DynamicVector
        /\ WithSets(a, Z).Streams = a.Streams /\ WithSets(a, Z).sorted_sets = Z
    BY StoreFields DEF WithSets
  <2>2. OnlyASet(WithSets(a, Z), s, k)
    BY <1>2, <1>3, <1>5, <2>1 DEF OnlyASet
  <2> QED BY Zenon, <1>4, <2>2
<1>6. \A z : /\ DOMAIN Put(a.sorted_sets, k, z) \subseteq DOMAIN s.sorted_sets \cup {k}
             /\ DOMAIN Erase(a.sorted_sets, k) \subseteq DOMAIN s.sorted_sets \cup {k}
  BY <1>1 DEF Put, Erase
<1>7. \A out : /\ LeavesApart(Result(s, out)) /\ LeavesApart(Result(a, out))
               /\ ~wrong_sorted_set_type(s, t, k) =>
                    /\ \A z : LeavesApart(Result(StoreSet(a, k, z), out))
                    /\ LeavesApart(Result(WithSets(a, Erase(a.sorted_sets, k)), out))
  BY Zenon, <1>1, <1>4, <1>5, <1>6, ResultApart DEF StoreSet
<1>8. \A entries : LeavesApart(handle_zadd(s, t, k, entries))
  BY Zenon, <1>7 DEF handle_zadd, a
<1>9. \A entries, nx, xx, ch : LeavesApart(handle_geoadd(s, t, k, entries, nx, xx, ch))
  BY Zenon, <1>7 DEF handle_geoadd, a
<1>10. \A members : LeavesApart(handle_zrem(s, t, k, members))
  BY Zenon, <1>7 DEF handle_zrem, a
<1> QED BY Zenon, <1>8, <1>9, <1>10

(* BLPOP, which none of its keys may hold a sorted set for. *)
LEMMA BlpopApart ==
  ASSUME NEW s, Apart(s), NEW keys \in Seq(Keys)
  PROVE  LeavesApart(handle_blpop(s, keys))
<1> DEFINE i == First(Ready(s, keys))
           k == keys[i]
           list == Drop(s.DynamicVector[k], 1)
<1>1. CASE \E out : handle_blpop(s, keys) = Result(s, out)
  BY Zenon, <1>1, ResultApart
<1>2. CASE /\ ~\E j \in DOMAIN keys : keys[j] \in DOMAIN s.sorted_sets
           /\ Ready(s, keys) # {}
           /\ \E out : handle_blpop(s, keys) = Result(StoreList(s, k, list), out)
  <2>1. Ready(s, keys) \in SUBSET Nat /\ Ready(s, keys) \subseteq DOMAIN keys
    BY DEF Ready
  <2>2. \E n \in Ready(s, keys) : \A j \in Ready(s, keys) : n <= j
    BY SMTT(60), <1>2, <2>1, LeastElement
  <2>3. i \in Ready(s, keys)
    BY <2>2 DEF First
  <2>4. k \notin DOMAIN s.sorted_sets
    BY Zenon, <1>2, <2>1, <2>3
  <2> HIDE DEF k, list
  <2>5. NotASet(StoreList(s, k, list), s, k)
    BY Zenon, <2>4, StoresApart
  <2> QED BY Zenon, <1>2, <2>5, StaysApart, ResultApart
<1> QED BY Zenon, <1>1, <1>2 DEF handle_blpop, try_blpop

(* No command mixes types in a store where they are apart and no expired   *)
(* string hides a value.                                                   *)
LEMMA DispatchApart ==
  ASSUME NEW s, Good(s), Apart(s), NEW t \in Int, Bare(s, t), NEW c \in AllRequests, NEW wall
  PROVE  LeavesApart(dispatch_command(c, s, t, wall))
<1> DEFINE a == Reap(s, t, c.key)
           r == dispatch_command(c, s, t, wall)
<1>1. CASE ~IsPropagated(c, r.out)
  <2>1. PICK K : r.st = ReapSet(s, t, K)
    BY Zenon, <1>1, DispatchUnseen DEF Unseen
  <2>2. NothingNew(ReapSet(s, t, K), s)
    BY DEF NothingNew, ReapSet, WithStrings, StoreOf
  <2> QED BY Zenon, <2>1, <2>2, StaysApart DEF LeavesApart
<1>2. CASE c.op \in {"INCR", "RPUSH", "LPUSH", "LPOP", "LPOPCOUNT", "XADD"}
  <2>1. \/ r = Result(a, WrongType)
        \/ key_type(s, t, c.key) # "zset" /\ r = Handle(c, a, t, wall)
    BY Zenon, <1>2 DEF dispatch_command, incompatible_with_sorted_set
  <2>2. CASE r = Result(a, WrongType)
    <3>1. NothingNew(a, s)
      BY Zenon, StoresApart
    <3> QED BY Zenon, <2>2, <3>1, StaysApart, ResultApart
  <2>3. CASE key_type(s, t, c.key) # "zset" /\ r = Handle(c, a, t, wall)
    <3>1. c.key \notin DOMAIN s.sorted_sets
      BY Zenon, <2>3, TypeTells
    <3>2. /\ LeavesApart(handle_incr(a, c.key))
          /\ \A elements : /\ LeavesApart(handle_rpush(a, c.key, elements))
                           /\ LeavesApart(handle_lpush(a, c.key, elements))
          /\ LeavesApart(handle_lpop(a, c.key))
          /\ \A n : LeavesApart(handle_lpop_count(a, c.key, n))
          /\ \A id : LeavesApart(handle_xadd(a, c.key, id, wall))
      BY Zenon, <3>1, CheckedApart
    <3> HIDE DEF a, r
    <3>3. LeavesApart(Handle(c, a, t, wall))
      <4>1. CASE c.op = "INCR"
        BY Zenon, <3>2, <4>1, StringHandler
      <4>2. CASE c.op \in {"RPUSH", "LPUSH", "LPOP", "LPOPCOUNT"}
        BY <3>2, <4>2, ListHandler
      <4>3. CASE c.op = "XADD"
        BY Zenon, <3>2, <4>3, StreamHandler
      <4> QED BY Zenon, <1>2, <4>1, <4>2, <4>3
    <3> QED BY Zenon, <2>3, <3>3 DEF r
  <2> QED BY Zenon, <2>1, <2>2, <2>3
<1>3. CASE c.op \in {"SET", "SETBIT", "BITOP", "ZADD", "GEOADD", "ZREM", "BLPOP"}
  <2>1. r = Handle(c, s, t, wall)
    BY Zenon, <1>3 DEF dispatch_command, incompatible_with_sorted_set
  <2>2. \A k : /\ \A v, option : LeavesApart(handle_set(s, t, k, v, option))
               /\ \A offset, bit : LeavesApart(handle_setbit(s, t, k, offset, bit))
               /\ \A op, sources : LeavesApart(handle_bitop(s, t, op, k, sources))
    BY Zenon, StringsApart
  <2>3. \A k : /\ \A entries : LeavesApart(handle_zadd(s, t, k, entries))
               /\ \A entries, nx, xx, ch : LeavesApart(handle_geoadd(s, t, k, entries, nx, xx, ch))
               /\ \A members : LeavesApart(handle_zrem(s, t, k, members))
    BY Zenon, SetsApart
  <2>4. c.op = "BLPOP" => LeavesApart(handle_blpop(s, c.keys))
    <3>1. c.op = "BLPOP" => c.keys \in Seq(Keys)
      BY SMTT(30) DEF AllRequests, SetRequests, KeyRequests, BitRequests, ListRequests, StreamRequests,
             SortedSetRequests
    <3> QED BY Zenon, <3>1, BlpopApart
  <2>5. LeavesApart(Handle(c, s, t, wall))
    <3>1. CASE c.op \in {"SET", "SETBIT", "BITOP"}
      BY <2>2, <3>1, StringHandler, BitHandler
    <3>2. CASE c.op \in {"ZADD", "GEOADD", "ZREM"}
      BY <2>3, <3>2, SetWriter
    <3>3. CASE c.op = "BLPOP"
      BY Zenon, <2>4, <3>3, ListHandler
    <3> QED BY Zenon, <1>3, <3>1, <3>2, <3>3
  <2> QED BY Zenon, <2>1, <2>5
<1>4. CASE c.op \in {"GET", "STRLEN", "TYPE", "LLEN", "ZCARD", "GETBIT", "BITCOUNT", "LRANGE",
                     "XRANGE", "XREAD", "ZSCORE", "ZRANK", "ZRANGE", "KEYS"}
  BY Zenon, <1>1, <1>4 DEF IsPropagated, is_write_command
<1> QED BY Zenon, <1>2, <1>3, <1>4, CommandOps

(* As long as no expired string hides a value, a sorted set never comes to *)
(* share its key with a value of another type.                             *)
THEOREM TypesStayApart == Spec => OnlyOverlaysMixTypes
<1> DEFINE A == TypesApart /\ (\A k \in Keys : ~Overlaid(k)) => TypesApart'
<1>1. Inv /\ [Next]_vars => [A]_vars
  <2> SUFFICES ASSUME Inv, [Next]_vars, TypesApart, \A k \in Keys : ~Overlaid(k)
               PROVE  TypesApart'
    BY Zenon
  <2>1. CASE store' = store
    BY Zenon, <2>1 DEF TypesApart
  <2>2. CASE \E c \in Requests, wall \in Walls : store' = dispatch_command(c, store, now, wall).st
    <3>1. PICK c \in Requests, wall \in Walls : store' = dispatch_command(c, store, now, wall).st
      BY Zenon, <2>2
    <3>2. Good(store) /\ now \in Int /\ c \in AllRequests
      BY StoreAssumption DEF Inv
    <3>3. Bare(store, now)
      <4>1. \A k : Expired(store, now, k) => k \in Keys
        BY Zenon, <3>2, GoodMaps DEF Expired
      <4> QED BY Zenon, <4>1 DEF Overlaid, Bare
    <3>4. LeavesApart(dispatch_command(c, store, now, wall))
      BY Zenon, <3>2, <3>3, DispatchApart DEF TypesApart, Apart
    <3> QED BY Zenon, <3>1, <3>4 DEF LeavesApart, TypesApart, Apart
  <2> QED BY <2>1, <2>2, StepIsCommand DEF vars, Tick
<1> QED BY <1>1, Invariance, PTL DEF Spec, OnlyOverlaysMixTypes

-------------------------------------------------------------------------------
(* Lazy expiry and expiry at the deadline. *)

(* e is what is left of s when everything expired is gone, and no expired  *)
(* string of s hides a value.                                              *)
Twin(e, s, t) == Good(s) /\ t \in Int /\ Bare(s, t) /\ e = ReapAll(s, t)

(* e is what is left of a. *)
Leaves(a, t, e) == ReapAll(a, t) = e

(* A twin is its own twin, and differs from the store in its strings only. *)
LEMMA TwinSelf ==
  ASSUME NEW s, NEW t, NEW e, Twin(e, s, t)
  PROVE  /\ Twin(e, e, t) /\ Leaves(s, t, e) /\ Leaves(e, t, e)
         /\ \A k : ~Expired(e, t, k)
         /\ \A K : ReapSet(e, t, K) = e
<1>1. Good(s) /\ t \in Int /\ e = ReapAll(s, t)
  BY DEF Twin
<1>2. \A k : k \in DOMAIN s.Expirations => k \in Keys
  BY Zenon, <1>1, GoodMaps
<1>3. e.Expirations = [k \in DOMAIN s.Expirations \ {x \in Keys : Expired(s, t, x)} |-> s.Expirations[k]]
  BY <1>1 DEF ReapAll, ReapSet, WithStrings, StoreOf
<1>4. \A k : ~Expired(e, t, k)
  BY <1>2, <1>3 DEF Expired
<1>5. Good(e)
  BY <1>1, ReapSetGood DEF ReapAll
<1>6. \A K : ReapSet(e, t, K) = e
  BY <1>1, ReapFacts
<1>7. ReapAll(e, t) = e /\ ReapAll(s, t) = e
  BY Zenon, <1>1, <1>6 DEF ReapAll
<1>8. Twin(e, e, t)
  BY Zenon, <1>1, <1>4, <1>5, <1>7 DEF Twin, Bare
<1> QED BY Zenon, <1>4, <1>6, <1>7, <1>8 DEF Leaves

(* Expiry touches no list, stream or sorted set. *)
LEMMA TwinMaps ==
  ASSUME NEW s, NEW t, NEW e, Twin(e, s, t)
  PROVE  /\ e.DynamicVector = s.DynamicVector /\ e.Streams = s.Streams
         /\ e.sorted_sets = s.sorted_sets
<1>1. e = ReapAll(s, t)
  BY DEF Twin
<1> QED BY <1>1 DEF ReapAll, ReapSet, WithStrings, StoreOf

(* It has the strings that are not expired. *)
LEMMA TwinStrings ==
  ASSUME NEW s, NEW t, NEW e, Twin(e, s, t), NEW k
  PROVE  /\ k \in DOMAIN e.Storage <=> k \in DOMAIN s.Storage /\ ~Expired(s, t, k)
         /\ k \in DOMAIN e.Storage => e.Storage[k] = s.Storage[k]
         /\ ~Expired(s, t, k) => StringAt(e, k) = StringAt(s, k)
<1>1. Good(s) /\ e = ReapAll(s, t)
  BY DEF Twin
<1>2. Expired(s, t, k) => k \in Keys
  BY Zenon, <1>1, GoodMaps DEF Expired
<1>3. e.Storage = [x \in DOMAIN s.Storage \ {x \in Keys : Expired(s, t, x)} |-> s.Storage[x]]
  BY <1>1 DEF ReapAll, ReapSet, WithStrings, StoreOf
<1>4. /\ k \in DOMAIN e.Storage <=> k \in DOMAIN s.Storage /\ ~Expired(s, t, k)
      /\ k \in DOMAIN e.Storage => e.Storage[k] = s.Storage[k]
  BY <1>2, <1>3
<1>5. ~Expired(s, t, k) => StringAt(e, k) = StringAt(s, k)
  BY Zenon, <1>4 DEF StringAt
<1> QED BY Zenon, <1>4, <1>5

(* A look at it changes nothing and finds the type there was. *)
LEMMA TwinLooks ==
  ASSUME NEW s, NEW t, NEW e, Twin(e, s, t), NEW k
  PROVE  Reap(e, t, k) = e /\ key_type(e, t, k) = key_type(s, t, k)
<1>1. ~Expired(e, t, k)
  BY Zenon, TwinSelf
<1>2. Reap(e, t, k) = e
  BY Zenon, <1>1 DEF Reap
<1>3. k \in DOMAIN e.Storage <=> k \in DOMAIN s.Storage /\ ~Expired(s, t, k)
  BY Zenon, TwinStrings
<1>4. e.DynamicVector = s.DynamicVector /\ e.Streams = s.Streams /\ e.sorted_sets = s.sorted_sets
  BY Zenon, TwinMaps
<1>5. Expired(s, t, k) => /\ k \notin DOMAIN s.DynamicVector /\ k \notin DOMAIN s.Streams
                          /\ k \notin DOMAIN s.sorted_sets
  BY Zenon DEF Twin, Bare
<1>6. key_type(e, t, k) = key_type(s, t, k)
  BY Zenon, <1>1, <1>3, <1>4, <1>5 DEF key_type
<1> QED BY Zenon, <1>2, <1>6

(* What a look leaves has the same twin. *)
LEMMA LooksTwin ==
  ASSUME NEW s, NEW t, NEW e, Twin(e, s, t), NEW K
  PROVE  /\ Twin(e, ReapSet(s, t, K), t)
         /\ \A k \in K : ~Expired(ReapSet(s, t, K), t, k)
<1>0. Good(s) /\ t \in Int /\ Bare(s, t) /\ e = ReapAll(s, t)
  BY DEF Twin
<1> DEFINE a == ReapSet(s, t, K)
<1>1. /\ a.DynamicVector = s.DynamicVector /\ a.Streams = s.Streams /\ a.sorted_sets = s.sorted_sets
      /\ a.Expirations = [k \in DOMAIN s.Expirations \ {k \in K : Expired(s, t, k)} |-> s.Expirations[k]]
  BY DEF ReapSet, WithStrings, StoreOf
<1>2. Good(a)
  BY <1>0, ReapSetGood
<1>3. ReapAll(a, t) = ReapAll(s, t)
  BY ZenonT(60), <1>0, ReapFacts
<1> HIDE DEF a
<1>4. \A k : Expired(a, t, k) => Expired(s, t, k) /\ k \notin K
  BY <1>1 DEF Expired
<1>5. Bare(a, t)
  BY Zenon, <1>0, <1>1, <1>4 DEF Bare
<1>6. Twin(e, a, t)
  BY Zenon, <1>0, <1>2, <1>3, <1>5 DEF Twin
<1> QED BY Zenon, <1>4, <1>6 DEF a

(* The store after a look at one key. *)
LEMMA ReapTwin ==
  ASSUME NEW s, NEW t, NEW e, Twin(e, s, t), NEW k
  PROVE  Twin(e, Reap(s, t, k), t) /\ ~Expired(Reap(s, t, k), t, k)
<1>1. Reap(s, t, k) = ReapSet(s, t, {k})
  BY ZenonT(60), ReapFacts DEF Twin
<1>2. k \in {k}
  OBVIOUS
<1>3. Twin(e, ReapSet(s, t, {k}), t) /\ ~Expired(ReapSet(s, t, {k}), t, k)
  BY Zenon, <1>2, LooksTwin
<1> QED BY Zenon, <1>1, <1>3

(* Commands that change one map, and the removal of everything expired, in *)
(* either order.                                                           *)
LEMMA Commutes ==
  ASSUME NEW s, NEW t, NEW e, Twin(e, s, t)
  PROVE  /\ \A L : Leaves(WithLists(s, L), t, WithLists(e, L))
         /\ \A X : Leaves(WithStreams(s, X), t, WithStreams(e, X))
         /\ \A Z : Leaves(WithSets(s, Z), t, WithSets(e, Z))
         /\ \A k, v : ~Expired(s, t, k) => Leaves(StoreString(s, k, v), t, StoreString(e, k, v))
         /\ \A k, v : Leaves(Assign(s, k, v, Erase(s.Expirations, k)), t,
                             Assign(e, k, v, Erase(e.Expirations, k)))
         /\ \A k, v : \A x \in Int : t < x =>
              Leaves(Assign(s, k, v, Put(s.Expirations, k, x)), t,
                     Assign(e, k, v, Put(e.Expirations, k, x)))
         /\ \A k, L, X, Z : Leaves(StoreOf(Erase(s.Storage, k), Erase(s.Expirations, k), L, X, Z), t,
                                   StoreOf(Erase(e.Storage, k), Erase(e.Expirations, k), L, X, Z))
<1>0. Good(s) /\ t \in Int /\ Bare(s, t) /\ e = ReapAll(s, t)
  BY DEF Twin
<1> USE <1>0
<1> DEFINE S == s.Storage
           E == s.Expirations
           L0 == s.DynamicVector
           X0 == s.Streams
           Z0 == s.sorted_sets
           O == Over(E, t, Keys)
<1>1. /\ s = StoreOf(S, E, L0, X0, Z0) /\ DOMAIN E \subseteq Keys
      /\ S = [x \in DOMAIN S |-> S[x]] /\ E = [x \in DOMAIN E |-> E[x]]
  BY Zenon, GoodMaps
<1>2. \A k : k \in O => Expired(s, t, k)
  BY DEF Over, Expired
<1> HIDE DEF S, E, L0, X0, Z0
<1>3. /\ e = StoreOf(Cut(S, O), Cut(E, O), L0, X0, Z0)
  BY <1>1, ReapSetIs DEF ReapAll
<1>4. /\ e.Storage = Cut(S, O) /\ e.Expirations = Cut(E, O) /\ e.DynamicVector = L0
      /\ e.Streams = X0 /\ e.sorted_sets = Z0
  BY <1>3, StoreFields
<1>5. \A S1, E1, L, X, Z : ReapAll(StoreOf(S1, E1, L, X, Z), t) =
        StoreOf(Cut(S1, Over(E1, t, Keys)), Cut(E1, Over(E1, t, Keys)), L, X, Z)
  BY ReapSetIs DEF ReapAll
<1>6. /\ \A k, v : Cut(Put(S, k, v), O \ {k}) = Put(Cut(S, O), k, v)
      /\ \A k, v : k \notin O => Cut(Put(S, k, v), O) = Put(Cut(S, O), k, v)
      /\ \A k : Cut(Erase(S, k), O \ {k}) = Erase(Cut(S, O), k)
  BY <1>1, CutFacts
<1>7. /\ \A k, v : Cut(Put(E, k, v), O \ {k}) = Put(Cut(E, O), k, v)
      /\ \A k : Cut(Erase(E, k), O \ {k}) = Erase(Cut(E, O), k)
  BY <1>1, CutFacts
<1>8. /\ \A k : Over(Erase(E, k), t, Keys) = O \ {k}
      /\ \A k : \A x \in Int : t < x => Over(Put(E, k, x), t, Keys) = O \ {k}
  <2>1. ASSUME NEW k PROVE Over(Erase(E, k), t, Keys) = O \ {k}
    BY SMTT(30), <1>0, OverFacts
  <2>2. ASSUME NEW k, NEW x \in Int, t < x PROVE Over(Put(E, k, x), t, Keys) = O \ {k}
    BY SMTT(30), <1>0, <2>2, OverFacts
  <2> QED BY Zenon, <2>1, <2>2
<1> HIDE DEF O
<1>9. /\ \A L : ReapAll(WithLists(s, L), t) = WithLists(e, L)
      /\ \A X : ReapAll(WithStreams(s, X), t) = WithStreams(e, X)
      /\ \A Z : ReapAll(WithSets(s, Z), t) = WithSets(e, Z)
  BY <1>4, <1>5 DEF WithLists, WithStreams, WithSets, S, E, L0, X0, Z0, O
<1>10. ASSUME NEW k, NEW v, ~Expired(s, t, k)
       PROVE  ReapAll(StoreString(s, k, v), t) = StoreString(e, k, v)
  <2>1. StoreString(s, k, v) = StoreOf(Put(S, k, v), E, L0, X0, Z0)
    BY Zenon DEF StoreString, WithStrings, S, E, L0, X0, Z0
  <2>2. ReapAll(StoreOf(Put(S, k, v), E, L0, X0, Z0), t) = StoreOf(Cut(Put(S, k, v), O), Cut(E, O), L0, X0, Z0)
    BY <1>5 DEF O
  <2>3. Cut(Put(S, k, v), O) = Put(Cut(S, O), k, v)
    BY Zenon, <1>2, <1>6, <1>10
  <2>4. StoreString(e, k, v) = StoreOf(Put(Cut(S, O), k, v), Cut(E, O), L0, X0, Z0)
    BY Zenon, <1>4 DEF StoreString, WithStrings
  <2> QED BY Zenon, <2>1, <2>2, <2>3, <2>4
<1>11. ASSUME NEW k, NEW v, NEW E1, NEW E2, Over(E1, t, Keys) = O \ {k}, Cut(E1, O \ {k}) = E2
       PROVE  ReapAll(Assign(s, k, v, E1), t) = Assign(e, k, v, E2)
  <2> DEFINE U == O \ {k}
  <2>1. Assign(s, k, v, E1) = StoreOf(Put(S, k, v), E1, Erase(L0, k), Erase(X0, k), Erase(Z0, k))
    BY Zenon DEF Assign, S, L0, X0, Z0
  <2>2. /\ Cut(Put(S, k, v), U) = Put(Cut(S, O), k, v)
        /\ Over(E1, t, Keys) = U /\ Cut(E1, U) = E2
    BY <1>6, <1>11
  <2> HIDE DEF U
  <2>3. ReapAll(StoreOf(Put(S, k, v), E1, Erase(L0, k), Erase(X0, k), Erase(Z0, k)), t) =
          StoreOf(Cut(Put(S, k, v), U), Cut(E1, U), Erase(L0, k), Erase(X0, k), Erase(Z0, k))
    BY <1>5, <2>2
  <2>4. Assign(e, k, v, E2) = StoreOf(Put(Cut(S, O), k, v), E2, Erase(L0, k), Erase(X0, k), Erase(Z0, k))
    BY Zenon, <1>4 DEF Assign
  <2> QED BY Zenon, <2>1, <2>2, <2>3, <2>4
<1>12. ASSUME NEW k, NEW v
       PROVE  ReapAll(Assign(s, k, v, Erase(s.Expirations, k)), t) = Assign(e, k, v, Erase(e.Expirations, k))
  <2>1. Over(Erase(E, k), t, Keys) = O \ {k} /\ Cut(Erase(E, k), O \ {k}) = Erase(e.Expirations, k)
    BY <1>4, <1>7, <1>8
  <2> QED BY <1>11, <2>1 DEF E
<1>13. ASSUME NEW k, NEW v, NEW x \in Int, t < x
       PROVE  ReapAll(Assign(s, k, v, Put(s.Expirations, k, x)), t) = Assign(e, k, v, Put(e.Expirations, k, x))
  <2>1. Over(Put(E, k, x), t, Keys) = O \ {k} /\ Cut(Put(E, k, x), O \ {k}) = Put(e.Expirations, k, x)
    BY <1>4, <1>7, <1>8, <1>13
  <2> QED BY <1>11, <2>1 DEF E
<1>14. ASSUME NEW k, NEW L, NEW X, NEW Z
       PROVE  ReapAll(StoreOf(Erase(s.Storage, k), Erase(s.Expirations, k), L, X, Z), t) =
                StoreOf(Erase(e.Storage, k), Erase(e.Expirations, k), L, X, Z)
  <2> DEFINE U == O \ {k}
  <2>1. /\ Over(Erase(E, k), t, Keys) = U
        /\ Cut(Erase(E, k), U) = Erase(e.Expirations, k)
        /\ Cut(Erase(S, k), U) = Erase(e.Storage, k)
    BY SMTT(30), <1>4, <1>6, <1>7, <1>8
  <2> HIDE DEF U
  <2>2. ReapAll(StoreOf(Erase(S, k), Erase(E, k), L, X, Z), t) =
          StoreOf(Cut(Erase(S, k), U), Cut(Erase(E, k), U), L, X, Z)
    BY SMTT(30), <1>5, <2>1
  <2> QED BY Zenon, <2>1, <2>2 DEF S, E
<1> QED BY Zenon, <1>9, <1>10, <1>12, <1>13, <1>14 DEF Leaves

(* Two results that cannot be told apart. *)
Alike(r, q, t) == SameReply(r.out, q.out) /\ ReapAll(r.st, t) = ReapAll(q.st, t)

(* Stores of which the same is left, with the same answer, are. *)
LEMMA ResultAlike ==
  ASSUME NEW a, NEW b, NEW t, NEW e, Leaves(a, t, e), Leaves(b, t, e), NEW out
  PROVE  Alike(Result(a, out), Result(b, out), t)
BY ReplyKinds DEF Alike, SameReply, Leaves

(* The commands that look at no string and at no deadline, with the reap   *)
(* of dispatch_command done: lists and streams. *)
LEMMA ListsAlike ==
  ASSUME NEW s, NEW t, NEW e, Twin(e, s, t), NEW k
  PROVE  /\ \A elements : /\ Alike(handle_rpush(s, k, elements), handle_rpush(e, k, elements), t)
                          /\ Alike(handle_lpush(s, k, elements), handle_lpush(e, k, elements), t)
         /\ Alike(handle_llen(s, k), handle_llen(e, k), t)
         /\ Alike(handle_lpop(s, k), handle_lpop(e, k), t)
         /\ \A n : Alike(handle_lpop_count(s, k, n), handle_lpop_count(e, k, n), t)
         /\ \A i, j : Alike(handle_lrange(s, k, i, j), handle_lrange(e, k, i, j), t)
         /\ \A keys : Alike(handle_blpop(s, keys), handle_blpop(e, keys), t)
<1>0. Twin(e, e, t) /\ Leaves(s, t, e) /\ Leaves(e, t, e)
  BY Zenon, TwinSelf
<1>1. e.DynamicVector = s.DynamicVector /\ e.sorted_sets = s.sorted_sets
  BY TwinMaps
<1>2. \A x : ListAt(e, x) = ListAt(s, x)
  BY Zenon, <1>1 DEF ListAt
<1>3. \A L : Leaves(WithLists(s, L), t, WithLists(e, L)) /\ Leaves(WithLists(e, L), t, WithLists(e, L))
  BY Zenon, <1>0, Commutes
<1>4. \A x, list : /\ Leaves(StoreList(s, x, list), t, StoreList(e, x, list))
                   /\ Leaves(StoreList(e, x, list), t, StoreList(e, x, list))
  BY Zenon, <1>1, <1>3 DEF StoreList
<1>5. \A out : /\ Alike(Result(s, out), Result(e, out), t)
               /\ \A x, list : Alike(Result(StoreList(s, x, list), out), Result(StoreList(e, x, list), out), t)
  BY Zenon, <1>0, <1>4, ResultAlike
<1>6. \A elements : /\ Alike(handle_rpush(s, k, elements), handle_rpush(e, k, elements), t)
                    /\ Alike(handle_lpush(s, k, elements), handle_lpush(e, k, elements), t)
  BY Zenon, <1>2, <1>5 DEF handle_rpush, handle_lpush
<1>7. Alike(handle_llen(s, k), handle_llen(e, k), t) /\ Alike(handle_lpop(s, k), handle_lpop(e, k), t)
  BY Zenon, <1>2, <1>5 DEF handle_llen, handle_lpop
<1>8. \A n : Alike(handle_lpop_count(s, k, n), handle_lpop_count(e, k, n), t)
  BY Zenon, <1>2, <1>5 DEF handle_lpop_count
<1>9. \A i, j : Alike(handle_lrange(s, k, i, j), handle_lrange(e, k, i, j), t)
  BY <1>2, <1>5 DEF handle_lrange
<1>10. ASSUME NEW keys PROVE Alike(handle_blpop(s, keys), handle_blpop(e, keys), t)
  <2>1. Ready(e, keys) = Ready(s, keys)
    BY Zenon, <1>2 DEF Ready
  <2> QED BY Zenon, <1>1, <1>5, <2>1 DEF handle_blpop, try_blpop
<1> QED BY Zenon, <1>6, <1>7, <1>8, <1>9, <1>10

(* The stream commands answer alike before and after an expiry. *)
LEMMA StreamsAlike ==
  ASSUME NEW s, NEW t, NEW e, Twin(e, s, t), NEW k
  PROVE  /\ \A id, wall : Alike(handle_xadd(s, k, id, wall), handle_xadd(e, k, id, wall), t)
         /\ \A from, to, n : Alike(handle_xrange(s, k, from, to, n), handle_xrange(e, k, from, to, n), t)
         /\ \A reads, n, b : Alike(handle_xread(s, reads, n, b), handle_xread(e, reads, n, b), t)
<1>0. Twin(e, e, t) /\ Leaves(s, t, e) /\ Leaves(e, t, e)
  BY Zenon, TwinSelf
<1>1. e.Streams = s.Streams /\ e.sorted_sets = s.sorted_sets
  BY TwinMaps
<1>2. \A x : StreamAt(e, x) = StreamAt(s, x)
  BY Zenon, <1>1 DEF StreamAt
<1>3. \A X : /\ Leaves(WithStreams(s, X), t, WithStreams(e, X))
             /\ Leaves(WithStreams(e, X), t, WithStreams(e, X))
  BY Zenon, <1>0, Commutes
<1>4. \A out : /\ Alike(Result(s, out), Result(e, out), t)
               /\ \A X : Alike(Result(WithStreams(s, X), out), Result(WithStreams(e, X), out), t)
  BY Zenon, <1>0, <1>3, ResultAlike
<1>5. \A id, wall : Alike(handle_xadd(s, k, id, wall), handle_xadd(e, k, id, wall), t)
  BY <1>1, <1>2, <1>4 DEF handle_xadd
<1>6. \A from, to, n : Alike(handle_xrange(s, k, from, to, n), handle_xrange(e, k, from, to, n), t)
  BY Zenon, <1>2, <1>4 DEF handle_xrange
<1>7. ASSUME NEW reads, NEW n, NEW b
      PROVE  Alike(handle_xread(s, reads, n, b), handle_xread(e, reads, n, b), t)
  <2> DEFINE id(x, i) == ReadFrom(x, reads[i])
             entries(x, i) == EntriesAfter(x, reads[i].key, id(x, i).id, n)
             bad(x) == {i \in DOMAIN reads : reads[i].key \in DOMAIN x.sorted_sets \/ ~id(x, i).ok}
             first(B) == CHOOSE i \in B : \A j \in B : i <= j
             found(x) == {i \in DOMAIN reads : entries(x, i) # <<>>}
             read(x) == [i \in found(x) |-> entries(x, i)]
             out(x) == IF bad(x) # {}
                       THEN IF reads[first(bad(x))].key \in DOMAIN x.sorted_sets
                            THEN WrongType ELSE Error("InvalidID")
                       ELSE IF found(x) # {} THEN Reply("streams", read(x))
                       ELSE IF b THEN Blocked ELSE NullArray
  <2>1. \A x : handle_xread(x, reads, n, b) = Result(x, out(x))
    BY Zenon DEF handle_xread
  <2>2. \A x, i : EntriesAfter(e, x, i, n) = EntriesAfter(s, x, i, n)
    BY Zenon, <1>2 DEF EntriesAfter
  <2>3. \A i : id(e, i) = id(s, i)
    BY Zenon, <1>2 DEF ReadFrom
  <2> HIDE DEF id
  <2>4. \A i : entries(e, i) = entries(s, i)
    BY Zenon, <2>2, <2>3
  <2>5. bad(e) = bad(s)
    BY <1>1, <2>3
  <2> HIDE DEF entries, first
  <2>6. found(e) = found(s)
    BY <2>4
  <2>7. read(e) = read(s)
    BY <2>4, <2>6
  <2> HIDE DEF bad, found, read
  <2>8. out(e) = out(s)
    BY Zenon, <1>1, <2>5, <2>6, <2>7
  <2> HIDE DEF out
  <2> QED BY Zenon, <1>4, <2>1, <2>8
<1> QED BY Zenon, <1>5, <1>6, <1>7

(* The commands on sorted sets. *)
LEMMA SetsAlike ==
  ASSUME NEW s, NEW t, NEW e, Twin(e, s, t), NEW k
  PROVE  /\ \A entries : Alike(handle_zadd(s, t, k, entries), handle_zadd(e, t, k, entries), t)
         /\ \A entries, nx, xx, ch : Alike(handle_geoadd(s, t, k, entries, nx, xx, ch),
                                           handle_geoadd(e, t, k, entries, nx, xx, ch), t)
         /\ \A members : Alike(handle_zrem(s, t, k, members), handle_zrem(e, t, k, members), t)
         /\ Alike(handle_zcard(s, t, k), handle_zcard(e, t, k), t)
         /\ \A m : Alike(handle_zscore(s, t, k, m), handle_zscore(e, t, k, m), t)
         /\ \A m : Alike(handle_zrank(s, t, k, m), handle_zrank(e, t, k, m), t)
         /\ \A i, j : Alike(handle_zrange(s, t, k, i, j), handle_zrange(e, t, k, i, j), t)
<1> DEFINE a == Reap(s, t, k)
<1>0. Twin(e, e, t) /\ Leaves(s, t, e) /\ Leaves(e, t, e)
  BY Zenon, TwinSelf
<1>1. Reap(e, t, k) = e /\ key_type(e, t, k) = key_type(s, t, k) /\ e.sorted_sets = s.sorted_sets
  BY TwinMaps, TwinLooks
<1>2. Twin(e, a, t) /\ Leaves(a, t, e)
  BY Zenon, ReapTwin, TwinSelf
<1>3. a.sorted_sets = e.sorted_sets
  <2>1. a.sorted_sets = s.sorted_sets
    BY Zenon, StoresApart
  <2> QED BY Zenon, <1>1, <2>1
<1>4. SetAt(e, k) = SetAt(s, k) /\ (wrong_sorted_set_type(e, t, k) <=> wrong_sorted_set_type(s, t, k))
  BY Zenon, <1>1 DEF SetAt, wrong_sorted_set_type
<1> HIDE DEF a
<1>5. \A Z : Leaves(WithSets(a, Z), t, WithSets(e, Z)) /\ Leaves(WithSets(e, Z), t, WithSets(e, Z))
  BY Zenon, <1>0, <1>2, Commutes
<1>6. \A out : /\ Alike(Result(s, out), Result(e, out), t)
               /\ Alike(Result(a, out), Result(e, out), t)
               /\ \A Z : Alike(Result(WithSets(a, Z), out), Result(WithSets(e, Z), out), t)
               /\ \A z : Alike(Result(StoreSet(a, k, z), out), Result(StoreSet(e, k, z), out), t)
  BY Zenon, <1>0, <1>2, <1>3, <1>5, ResultAlike DEF StoreSet
<1>7. \A entries : Alike(handle_zadd(s, t, k, entries), handle_zadd(e, t, k, entries), t)
  BY Zenon, <1>1, <1>4, <1>6 DEF handle_zadd, a
<1>8. ASSUME NEW entries, NEW nx, NEW xx, NEW ch
      PROVE  Alike(handle_geoadd(s, t, k, entries, nx, xx, ch),
                   handle_geoadd(e, t, k, entries, nx, xx, ch), t)
  <2> DEFINE r == Geoadd(SetAt(s, k), entries, nx, xx, ch)
             out == Integer(r.added)
             h(x, y) == IF nx /\ xx THEN Result(x, Error("syntax error"))
                        ELSE IF wrong_sorted_set_type(s, t, k) THEN Result(y, WrongType)
                        ELSE IF xx /\ k \notin DOMAIN s.sorted_sets THEN Result(y, Integer(0))
                        ELSE Result(StoreSet(y, k, r.set), out)
  <2>1. /\ handle_geoadd(s, t, k, entries, nx, xx, ch) = h(s, a)
        /\ handle_geoadd(e, t, k, entries, nx, xx, ch) = h(e, e)
    BY Zenon, <1>1, <1>4 DEF handle_geoadd, a
  <2> HIDE DEF r, out
  <2>2. Alike(h(s, a), h(e, e), t)
    BY Zenon, <1>6
  <2> QED BY Zenon, <2>1, <2>2
<1>9. \A members : Alike(handle_zrem(s, t, k, members), handle_zrem(e, t, k, members), t)
  BY Zenon, <1>1, <1>3, <1>4, <1>6 DEF handle_zrem, a
<1>10. /\ Alike(handle_zcard(s, t, k), handle_zcard(e, t, k), t)
       /\ \A m : Alike(handle_zscore(s, t, k, m), handle_zscore(e, t, k, m), t)
       /\ \A m : Alike(handle_zrank(s, t, k, m), handle_zrank(e, t, k, m), t)
       /\ \A i, j : Alike(handle_zrange(s, t, k, i, j), handle_zrange(e, t, k, i, j), t)
  BY Zenon, <1>1, <1>4, <1>6 DEF handle_zcard, handle_zscore, handle_zrank, handle_zrange, a
<1> QED BY Zenon, <1>7, <1>8, <1>9, <1>10

(* The commands on strings that look at their key. *)
LEMMA StringsAlike ==
  ASSUME NEW s, NEW t, NEW e, Twin(e, s, t), NEW k
  PROVE  /\ Alike(handle_strlen(s, t, k), handle_strlen(e, t, k), t)
         /\ Alike(handle_type(s, t, k), handle_type(e, t, k), t)
         /\ \A offset, bit : Alike(handle_setbit(s, t, k, offset, bit), handle_setbit(e, t, k, offset, bit), t)
         /\ \A offset : Alike(handle_getbit(s, t, k, offset), handle_getbit(e, t, k, offset), t)
         /\ \A i, j, unit : Alike(handle_bitcount(s, t, k, i, j, unit), handle_bitcount(e, t, k, i, j, unit), t)
         /\ \A pattern : Alike(handle_keys(s, t, pattern), handle_keys(e, t, pattern), t)
<1> DEFINE a == Reap(s, t, k)
<1>0. Twin(e, e, t) /\ Leaves(s, t, e) /\ Leaves(e, t, e) /\ ~Expired(e, t, k)
  BY Zenon, TwinSelf
<1>1. Reap(e, t, k) = e /\ key_type(e, t, k) = key_type(s, t, k)
  BY TwinLooks
<1>2. Twin(e, a, t) /\ Leaves(a, t, e) /\ ~Expired(a, t, k)
  BY Zenon, ReapTwin, TwinSelf
<1> HIDE DEF a
<1>3. /\ k \in DOMAIN e.Storage <=> k \in DOMAIN a.Storage
      /\ k \in DOMAIN a.Storage => e.Storage[k] = a.Storage[k]
      /\ StringAt(e, k) = StringAt(a, k)
  BY <1>2, TwinStrings
<1>4. wrong_string_type(e, t, k) <=> wrong_string_type(s, t, k)
  BY Zenon, <1>1 DEF wrong_string_type
<1>5. \A v : /\ Leaves(StoreString(a, k, v), t, StoreString(e, k, v))
             /\ Leaves(StoreString(e, k, v), t, StoreString(e, k, v))
  BY Zenon, <1>0, <1>2, Commutes
<1>6. \A out : /\ Alike(Result(s, out), Result(e, out), t)
               /\ Alike(Result(a, out), Result(e, out), t)
               /\ \A v : Alike(Result(StoreString(a, k, v), out), Result(StoreString(e, k, v), out), t)
  BY Zenon, <1>0, <1>2, <1>5, ResultAlike
<1>7. Alike(handle_strlen(s, t, k), handle_strlen(e, t, k), t)
  BY Zenon, <1>1, <1>3, <1>4, <1>6 DEF handle_strlen, a
<1>8. Alike(handle_type(s, t, k), handle_type(e, t, k), t)
  BY Zenon, <1>1, <1>6 DEF handle_type, a
<1>9. \A offset, bit : Alike(handle_setbit(s, t, k, offset, bit), handle_setbit(e, t, k, offset, bit), t)
  BY Zenon, <1>1, <1>3, <1>4, <1>6 DEF handle_setbit, a
<1>10. \A offset : Alike(handle_getbit(s, t, k, offset), handle_getbit(e, t, k, offset), t)
  BY Zenon, <1>1, <1>3, <1>4, <1>6 DEF handle_getbit, a
<1>11. \A i, j, unit : Alike(handle_bitcount(s, t, k, i, j, unit), handle_bitcount(e, t, k, i, j, unit), t)
  BY Zenon, <1>1, <1>3, <1>4, <1>6 DEF handle_bitcount, a
<1>12. \A pattern : Alike(handle_keys(s, t, pattern), handle_keys(e, t, pattern), t)
  <2>1. \A pattern : handle_keys(s, t, pattern) = handle_keys(e, t, pattern)
    BY Zenon, <1>0 DEF handle_keys, Leaves
  <2> QED BY Zenon, <2>1 DEF Alike, SameReply
<1> QED BY Zenon, <1>7, <1>8, <1>9, <1>10, <1>11, <1>12

(* SET, and GET and INCR, which dispatch_command has looked at the key for. *)
LEMMA ValuesAlike ==
  ASSUME NEW s, NEW t, NEW e, Twin(e, s, t), NEW k
  PROVE  /\ \A v : \A option \in SetOptions :
              Alike(handle_set(s, t, k, v, option), handle_set(e, t, k, v, option), t)
         /\ ~Expired(s, t, k) => /\ Alike(handle_get(s, t, k), handle_get(e, t, k), t)
                                 /\ Alike(handle_incr(s, k), handle_incr(e, k), t)
<1>0. Twin(e, e, t) /\ Leaves(s, t, e) /\ Leaves(e, t, e) /\ ~Expired(e, t, k) /\ t \in Int
  BY Zenon, TwinSelf DEF Twin
<1>1. /\ Reap(e, t, k) = e
      /\ ~Expired(s, t, k) =>
           /\ k \in DOMAIN e.Storage <=> k \in DOMAIN s.Storage
           /\ k \in DOMAIN s.Storage => e.Storage[k] = s.Storage[k]
  BY TwinLooks, TwinStrings
<1>2. \A out : Alike(Result(s, out), Result(e, out), t)
  BY Zenon, <1>0, ResultAlike
<1>3. ASSUME NEW v, NEW option \in SetOptions
      PROVE  Alike(handle_set(s, t, k, v, option), handle_set(e, t, k, v, option), t)
  <2> DEFINE x == t + option.duration
  <2>1. /\ Leaves(Assign(s, k, v, Erase(s.Expirations, k)), t, Assign(e, k, v, Erase(e.Expirations, k)))
        /\ Leaves(Assign(e, k, v, Erase(e.Expirations, k)), t, Assign(e, k, v, Erase(e.Expirations, k)))
    BY Zenon, <1>0, Commutes
  <2>2. option.duration \in Int /\ x \in Int /\ (~(option.duration <= 0) => t < x)
    BY <1>0 DEF SetOptions
  <2>3. CASE option.form = "none"
    <3>1. \A out : Alike(Result(Assign(s, k, v, Erase(s.Expirations, k)), out),
                         Result(Assign(e, k, v, Erase(e.Expirations, k)), out), t)
      BY Zenon, <2>1, ResultAlike
    <3> QED BY Zenon, <2>3, <3>1 DEF handle_set
  <2>4. CASE option.form # "none" /\ (option.duration <= 0 \/ option.form # "PX")
    BY Zenon, <1>2, <2>4 DEF handle_set
  <2>5. CASE option.form # "none" /\ ~(option.duration <= 0) /\ option.form = "PX"
    <3>1. t < x
      BY Zenon, <2>2, <2>5
    <3>2. /\ handle_set(s, t, k, v, option) = Result(Assign(s, k, v, Put(s.Expirations, k, x)), Ok)
          /\ handle_set(e, t, k, v, option) = Result(Assign(e, k, v, Put(e.Expirations, k, x)), Ok)
      BY Zenon, <2>5 DEF handle_set
    <3> HIDE DEF x
    <3>3. /\ Leaves(Assign(s, k, v, Put(s.Expirations, k, x)), t, Assign(e, k, v, Put(e.Expirations, k, x)))
          /\ Leaves(Assign(e, k, v, Put(e.Expirations, k, x)), t, Assign(e, k, v, Put(e.Expirations, k, x)))
      BY Zenon, <1>0, <2>2, <3>1, Commutes
    <3> QED BY Zenon, <3>2, <3>3, ResultAlike
  <2> QED BY Zenon, <2>3, <2>4, <2>5
<1>4. ASSUME ~Expired(s, t, k) PROVE Alike(handle_get(s, t, k), handle_get(e, t, k), t)
  <2>1. Reap(s, t, k) = s
    BY Zenon, <1>4 DEF Reap
  <2> QED BY Zenon, <1>0, <1>1, <1>2, <1>4, <2>1 DEF handle_get, peek
<1>5. ASSUME ~Expired(s, t, k) PROVE Alike(handle_incr(s, k), handle_incr(e, k), t)
  <2>1. \A v : /\ Leaves(StoreString(s, k, v), t, StoreString(e, k, v))
               /\ Leaves(StoreString(e, k, v), t, StoreString(e, k, v))
    BY Zenon, <1>0, <1>5, Commutes
  <2>2. \A v, out : Alike(Result(StoreString(s, k, v), out), Result(StoreString(e, k, v), out), t)
    BY Zenon, <2>1, ResultAlike
  <2> QED BY Zenon, <1>1, <1>2, <1>5, <2>2 DEF handle_incr
<1> QED BY Zenon, <1>3, <1>4, <1>5

(* BITOP, which looks at its sources one after the other, and at its       *)
(* destination not at all.                                                 *)
LEMMA BitopAlike ==
  ASSUME NEW s, NEW t, NEW e, Twin(e, s, t),
         NEW op, NEW dest, NEW sources \in Seq(Keys)
  PROVE  Alike(handle_bitop(s, t, op, dest, sources), handle_bitop(e, t, op, dest, sources), t)
<1> DEFINE wrong(x) == {j \in DOMAIN sources :
                          wrong_string_type(Looked(x, t, sources, j - 1), t, sources[j])}
           first(x) == CHOOSE j \in wrong(x) : \A i \in wrong(x) : j <= i
           a == Looked(s, t, sources, Len(sources))
           result(x) == BitOp(op, [j \in DOMAIN sources |-> StringAt(x, sources[j])])
           S(x) == IF result(x) = <<>> THEN Erase(x.Storage, dest) ELSE Put(x.Storage, dest, result(x))
           final(x) == StoreOf(S(x), Erase(x.Expirations, dest), Erase(x.DynamicVector, dest),
                               Erase(x.Streams, dest), Erase(x.sorted_sets, dest))
           h(x, y) == IF op \notin BitOps \/ (op = "NOT" /\ Len(sources) # 1)
                      THEN Result(x, Error("syntax error"))
                      ELSE IF wrong(x) # {} THEN Result(Looked(x, t, sources, first(x)), WrongType)
                      ELSE Result(final(y), Integer(Len(result(y))))
<1>1. Twin(e, e, t) /\ Leaves(s, t, e) /\ Leaves(e, t, e)
  BY Zenon, TwinSelf
<1>2. \A n : Looked(e, t, sources, n) = e
  BY Zenon, TwinSelf DEF Looked
<1>3. \A n : Twin(e, Looked(s, t, sources, n), t) /\ Leaves(Looked(s, t, sources, n), t, e)
  BY Zenon, LooksTwin, TwinSelf DEF Looked
<1>4. \A n, k : key_type(Looked(s, t, sources, n), t, k) = key_type(e, t, k)
  BY <1>3, TwinLooks
<1>5. wrong(e) = wrong(s)
  BY <1>2, <1>4 DEF wrong_string_type
<1>6. \A j \in DOMAIN sources : ~Expired(a, t, sources[j])
  <2> DEFINE K == {sources[j] : j \in 1 .. Len(sources)}
  <2>1. \A j \in DOMAIN sources : sources[j] \in K
    BY DEF K
  <2>2. a = ReapSet(s, t, K)
    BY Zenon DEF Looked
  <2> HIDE DEF K, a
  <2>3. \A k \in K : ~Expired(ReapSet(s, t, K), t, k)
    BY Zenon, LooksTwin
  <2> QED BY Zenon, <2>1, <2>2, <2>3
<1>7. handle_bitop(s, t, op, dest, sources) = h(s, a)
  BY Zenon DEF handle_bitop
<1>8. handle_bitop(e, t, op, dest, sources) = h(e, e)
  <2> DEFINE b == Looked(e, t, sources, Len(sources))
  <2>1. handle_bitop(e, t, op, dest, sources) = h(e, b)
    BY Zenon DEF handle_bitop
  <2>2. b = e
    BY Zenon, <1>2
  <2> HIDE DEF b, h
  <2> QED BY Zenon, <2>1, <2>2
<1>9. Twin(e, a, t)
  BY Zenon, <1>3
<1> HIDE DEF a
<1>10. /\ a.DynamicVector = e.DynamicVector /\ a.Streams = e.Streams /\ a.sorted_sets = e.sorted_sets
       /\ \A j \in DOMAIN sources : StringAt(a, sources[j]) = StringAt(e, sources[j])
  BY <1>6, <1>9, TwinMaps, TwinStrings
<1>11. result(a) = result(e)
  <2>1. [j \in DOMAIN sources |-> StringAt(a, sources[j])] = [j \in DOMAIN sources |-> StringAt(e, sources[j])]
    BY <1>10
  <2> QED BY Zenon, <2>1
<1> HIDE DEF wrong, result
<1>12. Leaves(final(a), t, final(e)) /\ Leaves(final(e), t, final(e))
  <2>1. CASE result(a) = <<>>
    <3>1. \A L, X, Z :
            /\ Leaves(StoreOf(Erase(a.Storage, dest), Erase(a.Expirations, dest), L, X, Z), t,
                      StoreOf(Erase(e.Storage, dest), Erase(e.Expirations, dest), L, X, Z))
            /\ Leaves(StoreOf(Erase(e.Storage, dest), Erase(e.Expirations, dest), L, X, Z), t,
                      StoreOf(Erase(e.Storage, dest), Erase(e.Expirations, dest), L, X, Z))
      BY Zenon, <1>1, <1>9, Commutes
    <3>2. /\ final(a) = StoreOf(Erase(a.Storage, dest), Erase(a.Expirations, dest),
                                Erase(e.DynamicVector, dest), Erase(e.Streams, dest),
                                Erase(e.sorted_sets, dest))
          /\ final(e) = StoreOf(Erase(e.Storage, dest), Erase(e.Expirations, dest),
                                Erase(e.DynamicVector, dest), Erase(e.Streams, dest),
                                Erase(e.sorted_sets, dest))
      BY Zenon, <1>10, <1>11, <2>1
    <3> HIDE DEF final
    <3> QED BY Zenon, <3>1, <3>2
  <2>2. CASE result(a) # <<>>
    <3>1. /\ final(a) = Assign(a, dest, result(a), Erase(a.Expirations, dest))
          /\ final(e) = Assign(e, dest, result(a), Erase(e.Expirations, dest))
      BY Zenon, <1>11, <2>2 DEF Assign
    <3>2. \A v : /\ Leaves(Assign(a, dest, v, Erase(a.Expirations, dest)), t,
                           Assign(e, dest, v, Erase(e.Expirations, dest)))
                 /\ Leaves(Assign(e, dest, v, Erase(e.Expirations, dest)), t,
                           Assign(e, dest, v, Erase(e.Expirations, dest)))
      BY Zenon, <1>1, <1>9, Commutes
    <3> HIDE DEF final
    <3> QED BY Zenon, <3>1, <3>2
  <2> QED BY Zenon, <2>1, <2>2
<1> HIDE DEF final
<1>13. \A out : /\ Alike(Result(s, out), Result(e, out), t)
                /\ \A n : Alike(Result(Looked(s, t, sources, n), out), Result(e, out), t)
                /\ Alike(Result(final(a), out), Result(final(e), out), t)
  BY Zenon, <1>1, <1>3, <1>12, ResultAlike
<1>14. Alike(h(s, a), h(e, e), t)
  BY Zenon, <1>2, <1>5, <1>11, <1>13
<1> QED BY Zenon, <1>7, <1>8, <1>14

(* The keys a command names. *)
LEMMA RequestFields ==
  ASSUME NEW c \in AllRequests
  PROVE  /\ c.op = "SET" => c.option \in SetOptions
         /\ c.op = "BITOP" => c.sources \in Seq(Keys)
BY DEF AllRequests, SetRequests, KeyRequests, BitRequests, ListRequests, StreamRequests,
       SortedSetRequests

(* A handler that its command is passed to without a check. *)
LEMMA HandleAlike ==
  ASSUME NEW s, NEW t, NEW e, Twin(e, s, t),
         NEW c \in AllRequests, NEW wall,
         c.op \in {"GET", "INCR"} => ~Expired(s, t, c.key)
  PROVE  Alike(Handle(c, s, t, wall), Handle(c, e, t, wall), t)
<1>1. \A k : /\ \A elements : /\ Alike(handle_rpush(s, k, elements), handle_rpush(e, k, elements), t)
                              /\ Alike(handle_lpush(s, k, elements), handle_lpush(e, k, elements), t)
             /\ Alike(handle_llen(s, k), handle_llen(e, k), t)
             /\ Alike(handle_lpop(s, k), handle_lpop(e, k), t)
             /\ \A n : Alike(handle_lpop_count(s, k, n), handle_lpop_count(e, k, n), t)
             /\ \A i, j : Alike(handle_lrange(s, k, i, j), handle_lrange(e, k, i, j), t)
  BY ZenonT(30), ListsAlike
<1>2. \A keys : Alike(handle_blpop(s, keys), handle_blpop(e, keys), t)
  BY Zenon, ListsAlike
<1>3. CASE c.op \in {"RPUSH", "LPUSH", "LLEN", "LPOP", "LPOPCOUNT", "LRANGE", "BLPOP"}
  BY SMTT(30), <1>1, <1>2, <1>3, ListHandler
<1>4. \A k : /\ \A id : Alike(handle_xadd(s, k, id, wall), handle_xadd(e, k, id, wall), t)
             /\ \A from, to, n : Alike(handle_xrange(s, k, from, to, n), handle_xrange(e, k, from, to, n), t)
             /\ \A reads, n, b : Alike(handle_xread(s, reads, n, b), handle_xread(e, reads, n, b), t)
  BY Zenon, StreamsAlike
<1>5. CASE c.op \in {"XADD", "XRANGE", "XREAD"}
  BY SMTT(30), <1>4, <1>5, StreamHandler
<1>6. \A k : /\ \A entries : Alike(handle_zadd(s, t, k, entries), handle_zadd(e, t, k, entries), t)
             /\ \A entries, nx, xx, ch : Alike(handle_geoadd(s, t, k, entries, nx, xx, ch),
                                               handle_geoadd(e, t, k, entries, nx, xx, ch), t)
             /\ \A members : Alike(handle_zrem(s, t, k, members), handle_zrem(e, t, k, members), t)
             /\ Alike(handle_zcard(s, t, k), handle_zcard(e, t, k), t)
             /\ \A m : Alike(handle_zscore(s, t, k, m), handle_zscore(e, t, k, m), t)
             /\ \A m : Alike(handle_zrank(s, t, k, m), handle_zrank(e, t, k, m), t)
             /\ \A i, j : Alike(handle_zrange(s, t, k, i, j), handle_zrange(e, t, k, i, j), t)
  BY Zenon, SetsAlike
<1>7. CASE c.op \in {"ZADD", "GEOADD", "ZREM", "ZCARD", "ZSCORE", "ZRANK", "ZRANGE"}
  <2>1. CASE c.op \in {"ZADD", "GEOADD", "ZREM"}
    BY <1>6, <2>1, SetWriter
  <2>2. CASE c.op \in {"ZCARD", "ZSCORE", "ZRANK", "ZRANGE"}
    BY <1>6, <2>2, SetReader
  <2> QED BY Zenon, <1>7, <2>1, <2>2
<1>8. \A k : /\ Alike(handle_strlen(s, t, k), handle_strlen(e, t, k), t)
             /\ Alike(handle_type(s, t, k), handle_type(e, t, k), t)
             /\ \A offset, bit : Alike(handle_setbit(s, t, k, offset, bit), handle_setbit(e, t, k, offset, bit), t)
             /\ \A offset : Alike(handle_getbit(s, t, k, offset), handle_getbit(e, t, k, offset), t)
             /\ \A i, j, unit : Alike(handle_bitcount(s, t, k, i, j, unit), handle_bitcount(e, t, k, i, j, unit), t)
             /\ \A pattern : Alike(handle_keys(s, t, pattern), handle_keys(e, t, pattern), t)
  BY Zenon, StringsAlike
<1>9. CASE c.op \in {"STRLEN", "TYPE", "SETBIT", "GETBIT", "BITCOUNT", "KEYS"}
  <2>1. CASE c.op \in {"STRLEN", "TYPE", "KEYS"}
    BY <1>8, <2>1, StringHandler, KeyHandler
  <2>2. CASE c.op \in {"SETBIT", "GETBIT", "BITCOUNT"}
    BY <1>8, <2>2, BitHandler
  <2> QED BY Zenon, <1>9, <2>1, <2>2
<1>10. CASE c.op = "SET"
  <2>1. Alike(handle_set(s, t, c.key, c.value, c.option), handle_set(e, t, c.key, c.value, c.option), t)
    BY Zenon, <1>10, RequestFields, ValuesAlike
  <2> QED BY SMTT(30), <1>10, <2>1, StringHandler
<1>11. CASE c.op \in {"GET", "INCR"}
  <2>1. Alike(handle_get(s, t, c.key), handle_get(e, t, c.key), t) /\ Alike(handle_incr(s, c.key), handle_incr(e, c.key), t)
    BY Zenon, <1>11, ValuesAlike
  <2> QED BY SMTT(30), <1>11, <2>1, StringHandler
<1>12. CASE c.op = "BITOP"
  <2>1. Alike(handle_bitop(s, t, c.operation, c.dest, c.sources), handle_bitop(e, t, c.operation, c.dest, c.sources), t)
    BY Zenon, <1>12, RequestFields, BitopAlike
  <2> QED BY SMTT(30), <1>12, <2>1, BitHandler
<1> QED BY Zenon, <1>3, <1>5, <1>7, <1>9, <1>10, <1>11, <1>12, CommandOps

(* So with the check of dispatch_command, which looks at the key. *)
LEMMA DispatchAlike ==
  ASSUME NEW s, NEW t, NEW e, Twin(e, s, t),
         NEW c \in AllRequests, NEW wall
  PROVE  Alike(dispatch_command(c, s, t, wall), dispatch_command(c, e, t, wall), t)
<1> DEFINE a == Reap(s, t, c.key)
<1>0. Leaves(e, t, e)
  BY Zenon, TwinSelf
<1>1. Reap(e, t, c.key) = e /\ key_type(e, t, c.key) = key_type(s, t, c.key)
  BY TwinLooks
<1>2. Twin(e, a, t) /\ Leaves(a, t, e) /\ ~Expired(a, t, c.key)
  BY Zenon, ReapTwin, TwinSelf
<1> HIDE DEF a
<1>3. CASE c.op \notin incompatible_with_sorted_set
  <2>1. c.op \notin {"GET", "INCR"}
    BY Zenon, <1>3 DEF incompatible_with_sorted_set
  <2>2. Alike(Handle(c, s, t, wall), Handle(c, e, t, wall), t)
    BY Zenon, <2>1, HandleAlike
  <2> QED BY Zenon, <1>3, <2>2 DEF dispatch_command
<1>4. CASE c.op \in incompatible_with_sorted_set /\ key_type(s, t, c.key) = "zset"
  <2>1. Alike(Result(a, WrongType), Result(e, WrongType), t)
    BY Zenon, <1>0, <1>2, ResultAlike
  <2> QED BY Zenon, <1>1, <1>4, <2>1 DEF dispatch_command, a
<1>5. CASE c.op \in incompatible_with_sorted_set /\ key_type(s, t, c.key) # "zset"
  <2>1. Alike(Handle(c, a, t, wall), Handle(c, e, t, wall), t)
    BY Zenon, <1>2, HandleAlike
  <2> QED BY Zenon, <1>1, <1>5, <2>1 DEF dispatch_command, a
<1> QED BY Zenon, <1>3, <1>4, <1>5

(* As long as no expired string hides a value, lazy expiry cannot be told  *)
(* from expiry at the deadline (store.cpp:86).                             *)
THEOREM ExpiryIsUnseen == Spec => []LazyExpiryIsInvisible
<1>1. Inv => LazyExpiryIsInvisible
  <2> SUFFICES ASSUME Inv, \A k \in Keys : ~Overlaid(k), NEW c \in Requests, NEW wall \in Walls
               PROVE  Alike(dispatch_command(c, store, now, wall),
                            dispatch_command(c, ReapAll(store, now), now, wall), now)
    BY Zenon DEF LazyExpiryIsInvisible, Alike
  <2>1. Good(store) /\ now \in Int /\ c \in AllRequests
    BY StoreAssumption DEF Inv
  <2>2. Bare(store, now)
    <3>1. \A k : Expired(store, now, k) => k \in Keys
      BY Zenon, <2>1, GoodMaps DEF Expired
    <3> QED BY Zenon, <3>1 DEF Overlaid, Bare
  <2>3. Twin(ReapAll(store, now), store, now)
    BY Zenon, <2>1, <2>2 DEF Twin
  <2> QED BY Zenon, <2>1, <2>3, DispatchAlike
<1> QED BY <1>1, Invariance, PTL

===============================================================================
