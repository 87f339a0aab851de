---------------------------- MODULE StreamCommands ----------------------------
(***************************************************************************)
(* The commands on streams (src/store/streams.cpp), around the operators   *)
(* of StreamIds.  Like the commands on lists they look at no other map,    *)
(* except that XREAD refuses a sorted set.                                 *)
(***************************************************************************)
EXTENDS Keyspace

StreamAt(s, key) == IF key \in DOMAIN s.Streams THEN s.Streams[key] ELSE EmptyStream

(* Mutant of handle_xadd: the stream stays when its first entry is refused. *)
XaddLeavingStream(s, key, id, wall) ==
  LET r == insert(StreamAt(s, key), id, wall)
  IN  Result(WithStreams(s, Put(s.Streams, key, r.stream)),
             IF r.result = "Ok" THEN Bulk(r.id) ELSE Error(r.result))

(* The stream is created first; it is erased again when its first entry is *)
(* refused.                                                                *)
handle_xadd(s, key, id, wall) ==
  LET created == key \notin DOMAIN s.Streams
      r       == insert(StreamAt(s, key), id, wall)
      entered == Put(s.Streams, key, r.stream)
  IN  IF r.result = "Ok" THEN Result(WithStreams(s, entered), Bulk(r.id))
      ELSE Result(WithStreams(s, IF created THEN Erase(entered, key) ELSE entered),
                  Error(r.result))

(* count is 0 for XRANGE without COUNT, negative for a COUNT that is not   *)
(* positive.                                                               *)
handle_xrange(s, key, from, to, count) ==
  LET start == parse_range_start(from)
      end   == parse_range_end(to)
  IN  IF ~start.ok \/ ~end.ok THEN Result(s, Error("InvalidID"))
      ELSE IF count < 0 THEN Result(s, Array(<<>>))
      ELSE Result(s, Array(get_range(StreamAt(s, key), start.id, end.id, count)))

(* The entries of a key after an ID. *)
EntriesAfter(s, key, id, count) ==
  LET start == advance_id(id)
  IN  IF start.ok
      THEN get_range(StreamAt(s, key), start.id, ID(MaxWord, MaxWord), count)
      ELSE <<>>

(* $ stands for the top of the stream at this moment, 0-0 if there is no   *)
(* stream.                                                                 *)
ReadFrom(s, read) ==
  IF read.from.form = "top" THEN Parsed(TRUE, StreamAt(s, read.key).max_id)
                            ELSE parse_read_id(read.from)

(* reads: the keys XREAD names, each with the ID to read after.  The reply *)
(* has the entries of every key that has any.                              *)
handle_xread(s, reads, count, blocking) ==
  LET id(i)      == ReadFrom(s, reads[i])
      entries(i) == EntriesAfter(s, reads[i].key, id(i).id, count)
      zset(i)    == reads[i].key \in DOMAIN s.sorted_sets
      bad        == {i \in DOMAIN reads : zset(i) \/ ~id(i).ok}
      first      == CHOOSE i \in bad : \A j \in bad : i <= j
      found      == {i \in DOMAIN reads : entries(i) # <<>>}
  IN  Result(s, IF bad # {} THEN IF zset(first) THEN WrongType ELSE Error("InvalidID")
                ELSE IF found # {} THEN Reply("streams", [i \in found |-> entries(i)])
                ELSE IF blocking THEN Blocked ELSE NullArray)

===============================================================================
