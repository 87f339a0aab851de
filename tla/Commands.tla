------------------------------- MODULE Commands -------------------------------
(***************************************************************************)
(* The commands on data: dispatch_command of src/command/command.cpp over  *)
(* the handlers of src/store/.                                             *)
(*                                                                         *)
(* A request c is a record: c.op is the command in upper case, the other   *)
(* fields are its arguments after parsing.                                 *)
(***************************************************************************)
EXTENDS StringCommands, ListCommands, StreamCommands, SortedSetCommands

(* What the maps of a store hold. *)
IsSortedSet(z) ==
  /\ z = [scores |-> z.scores, ordered |-> z.ordered]
  /\ IsMap(z.scores, Members, Scores)
  /\ z.ordered \subseteq Scores \X Members

StreamValues ==
  [tree : SUBSET {encode_id(id) : id \in StreamID}, has_max_id : BOOLEAN, max_id : StreamID]

IsStore(s) ==
  /\ s = StoreOf(s.Storage, s.Expirations, s.DynamicVector, s.Streams, s.sorted_sets)
  /\ IsMap(s.Storage, Keys, String)
  /\ IsMap(s.Expirations, Keys, Int)
  /\ IsMap(s.DynamicVector, Keys, Seq(Elements))
  /\ IsMap(s.Streams, Keys, StreamValues)
  /\ \A k \in DOMAIN s.sorted_sets : k \in Keys /\ IsSortedSet(s.sorted_sets[k])

(* The arguments each command takes. *)
SetOptions  == [form : {"none", "PX", "other"}, duration : Int]
SetRequests == [op : {"SET"}, key : Keys, value : String, option : SetOptions]
KeyRequests == [op : {"GET", "STRLEN", "INCR", "TYPE", "LLEN", "LPOP", "ZCARD"}, key : Keys]
BitRequests ==
  [op : {"SETBIT"}, key : Keys, offset : Nat, bit : Bit]
  \cup [op : {"GETBIT"}, key : Keys, offset : Nat]
  \cup [op : {"BITCOUNT"}, key : Keys, start : Int, end : Int, unit : {"BYTE", "BIT"}]
  \cup [op : {"BITOP"}, operation : BitOps \cup {"other"}, dest : Keys,
        sources : Seq(Keys) \ {<<>>}]
ListRequests ==
  [op : {"RPUSH", "LPUSH"}, key : Keys, elements : Seq(Elements) \ {<<>>}]
  \cup [op : {"LPOPCOUNT"}, key : Keys, count : Int]
  \cup [op : {"LRANGE"}, key : Keys, start : Int, stop : Int]
  \cup [op : {"BLPOP"}, keys : Seq(Keys) \ {<<>>}, timeout : Nat]
StreamRequests ==
  [op : {"XADD"}, key : Keys, id : IdTexts]
  \cup [op : {"XRANGE"}, key : Keys, from : Bounds, to : Bounds, count : Int]
  \cup [op : {"XREAD"}, count : Nat, blocking : BOOLEAN, timeout : Nat,
        reads : Seq([key : Keys, from : Bounds \cup [form : {"top"}]]) \ {<<>>}]
SortedSetRequests ==
  [op : {"ZADD"}, key : Keys, entries : Seq(Scores \X Members) \ {<<>>}]
  \cup [op : {"GEOADD"}, key : Keys, entries : Seq(Scores \X Members) \ {<<>>},
        nx : BOOLEAN, xx : BOOLEAN, ch : BOOLEAN]
  \cup [op : {"ZREM"}, key : Keys, members : Seq(Members) \ {<<>>}]
  \cup [op : {"ZSCORE", "ZRANK"}, key : Keys, member : Members]
  \cup [op : {"ZRANGE"}, key : Keys, start : Int, stop : Int]
AllRequests ==
  SetRequests \cup KeyRequests \cup BitRequests \cup ListRequests \cup StreamRequests
  \cup SortedSetRequests \cup [op : {"KEYS"}, pattern : SUBSET Keys]

-------------------------------------------------------------------------------

(* Mutant of incompatible_with_sorted_set: without XADD. *)
IncompatibleWithoutXadd ==
  {"GET", "INCR", "RPUSH", "LPUSH", "LLEN", "LRANGE", "LPOP", "LPOPCOUNT", "XRANGE"}

(* The commands dispatch_command refuses for a sorted set before it calls  *)
(* their handler.  The check reaps the key.                                *)
incompatible_with_sorted_set ==
  {"GET", "INCR", "RPUSH", "LPUSH", "LLEN", "LRANGE", "LPOP", "LPOPCOUNT", "XADD", "XRANGE"}

(* The handler a command is passed to. *)
Handle(c, s, t, wall) ==
  CASE c.op = "SET"       -> handle_set(s, t, c.key, c.value, c.option)
    [] c.op = "GET"       -> handle_get(s, t, c.key)
    [] c.op = "STRLEN"    -> handle_strlen(s, t, c.key)
    [] c.op = "INCR"      -> handle_incr(s, c.key)
    [] c.op = "SETBIT"    -> handle_setbit(s, t, c.key, c.offset, c.bit)
    [] c.op = "GETBIT"    -> handle_getbit(s, t, c.key, c.offset)
    [] c.op = "BITCOUNT"  -> handle_bitcount(s, t, c.key, c.start, c.end, c.unit)
    [] c.op = "BITOP"     -> handle_bitop(s, t, c.operation, c.dest, c.sources)
    [] c.op = "RPUSH"     -> handle_rpush(s, c.key, c.elements)
    [] c.op = "LPUSH"     -> handle_lpush(s, c.key, c.elements)
    [] c.op = "LLEN"      -> handle_llen(s, c.key)
    [] c.op = "LRANGE"    -> handle_lrange(s, c.key, c.start, c.stop)
    [] c.op = "LPOP"      -> handle_lpop(s, c.key)
    [] c.op = "LPOPCOUNT" -> handle_lpop_count(s, c.key, c.count)
    [] c.op = "BLPOP"     -> handle_blpop(s, c.keys)
    [] c.op = "TYPE"      -> handle_type(s, t, c.key)
    [] c.op = "KEYS"      -> handle_keys(s, t, c.pattern)
    [] c.op = "XADD"      -> handle_xadd(s, c.key, c.id, wall)
    [] c.op = "XRANGE"    -> handle_xrange(s, c.key, c.from, c.to, c.count)
    [] c.op = "XREAD"     -> handle_xread(s, c.reads, c.count, c.blocking)
    [] c.op = "ZADD"      -> handle_zadd(s, t, c.key, c.entries)
    [] c.op = "GEOADD"    -> handle_geoadd(s, t, c.key, c.entries, c.nx, c.xx, c.ch)
    [] c.op = "ZREM"      -> handle_zrem(s, t, c.key, c.members)
    [] c.op = "ZCARD"     -> handle_zcard(s, t, c.key)
    [] c.op = "ZSCORE"    -> handle_zscore(s, t, c.key, c.member)
    [] c.op = "ZRANK"     -> handle_zrank(s, t, c.key, c.member)
    [] c.op = "ZRANGE"    -> handle_zrange(s, t, c.key, c.start, c.stop)

dispatch_command(c, s, t, wall) ==
  IF c.op \notin incompatible_with_sorted_set THEN Handle(c, s, t, wall)
  ELSE IF key_type(s, t, c.key) = "zset" THEN Result(Reap(s, t, c.key), WrongType)
  ELSE Handle(c, Reap(s, t, c.key), t, wall)

(* Mutant of is_write_command: BITOP is left out. *)
WritesWithoutBitop(op) ==
  op \in {"SET", "INCR", "RPUSH", "LPUSH", "LPOP", "LPOPCOUNT", "XADD", "ZADD", "ZREM",
          "GEOADD", "SETBIT"}

(* The commands of is_write_command (command.cpp:20) that exist. *)
is_write_command(op) ==
  op \in {"SET", "INCR", "RPUSH", "LPUSH", "LPOP", "LPOPCOUNT", "XADD", "ZADD", "ZREM",
          "GEOADD", "SETBIT", "BITOP"}

(* Whether the server appends something to the log and sends it to the     *)
(* replicas: a write that did not fail, or the LPOP of a BLPOP that popped. *)
IsPropagated(c, out) ==
  \/ is_write_command(c.op) /\ ~IsError(out)
  \/ c.op = "BLPOP" /\ out.kind = "array"

===============================================================================
