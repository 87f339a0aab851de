----------------------------- MODULE StreamReader -----------------------------
(***************************************************************************)
(* One stream that producers XADD to, and a consumer that follows it the   *)
(* way XREAD is meant to be used: it asks for what comes after the last ID *)
(* it was given, a few entries at a time, and remembers the last ID of the *)
(* answer.                                                                 *)
(***************************************************************************)
EXTENDS StreamIds

CONSTANTS Texts,      \* the ID arguments producers use
          Walls,      \* readings of the system clock
          Counts,     \* COUNT arguments, 0 for none
          MaxEntries  \* bound on the length of the stream

ASSUME ReaderAssumption ==
  /\ Texts \subseteq IdTexts /\ Walls \subseteq Word
  /\ Counts \subseteq Nat /\ MaxEntries \in Nat

VARIABLES stream,   \* the Stream object
          added,    \* history: the IDs XADD answered, in that order
          cursor,   \* the ID the consumer asks to read after
          got       \* the IDs the consumer has been given

vars == <<stream, added, cursor, got>>

Init ==
  /\ stream = EmptyStream
  /\ added = <<>> /\ got = <<>>
  /\ cursor = ID(0, 0)

Xadd(text, wall) ==
  LET r == insert(stream, text, wall)
  IN  /\ Len(added) < MaxEntries
      /\ stream' = r.stream
      /\ added' = IF r.result = "Ok" THEN Append(added, r.id) ELSE added
      /\ UNCHANGED <<cursor, got>>

(* try_xread for one key. *)
try_xread(s, id, count) ==
  LET start == advance_id(id)
  IN  IF start.ok THEN get_range(s, start.id, ID(MaxWord, MaxWord), count) ELSE <<>>

Xread(count) ==
  LET entries == try_xread(stream, cursor, count)
  IN  /\ entries # <<>>
      /\ got' = got \o entries
      /\ cursor' = entries[Len(entries)]
      /\ UNCHANGED <<stream, added>>

Next ==
  \/ \E text \in Texts, wall \in Walls : Xadd(text, wall)
  \/ \E count \in Counts : Xread(count)

(* The consumer keeps asking. *)
Spec == Init /\ [][Next]_vars /\ WF_vars(\E count \in Counts : Xread(count))

-------------------------------------------------------------------------------

(* max_id_, which XADD compares with and XREAD's $ stands for, is the      *)
(* greatest key of the tree in the tree's own order, and the tree holds    *)
(* exactly the IDs XADD has answered (stream.cpp:251-268).                 *)
MaxIdIsTop ==
  /\ stream.tree = {encode_id(added[i]) : i \in DOMAIN added}
  /\ stream.has_max_id = (added # <<>>)
  /\ stream.has_max_id =>
       \A k \in stream.tree : k = encode_id(stream.max_id)
                              \/ KeyLess(k, encode_id(stream.max_id))

(* The consumer has been given the entries in the order they were added,   *)
(* none lost and none twice, whatever the clock did and however COUNT cut  *)
(* the answers: advance_id (stream.cpp:116) steps over the end of a        *)
(* millisecond, and no XADD ever slips in behind the cursor.               *)
NoEntryLostOrRepeated == Len(got) <= Len(added) /\ got = SubSeq(added, 1, Len(got))

(* XRANGE over any two bounds answers the entries between them in the      *)
(* order of their IDs, at most COUNT of them; a bound without a sequence   *)
(* part takes in its whole millisecond (stream.cpp:103-142, 298-354).      *)
RangeIsExact ==
  \A from, to \in Bounds, count \in Counts :
    LET start  == parse_range_start(from)
        end    == parse_range_end(to)
        within(id) ==
          /\ CASE from.form = "ms" -> id.ms >= from.ms
               [] from.form = "full" -> ~IdLess(id, from.id) [] OTHER -> TRUE
          /\ CASE to.form = "ms" -> id.ms <= to.ms
               [] to.form = "full" -> ~IdLess(to.id, id) [] OTHER -> TRUE
    IN  start.ok /\ end.ok =>
          \E p \in 0 .. Len(added) : \E n \in 0 .. Len(added) - p :
            /\ \A i \in DOMAIN added : within(added[i]) <=> i \in p + 1 .. p + n
            /\ get_range(stream, start.id, end.id, count) =
                 SubSeq(added, p + 1, p + (IF count # 0 /\ count < n THEN count ELSE n))

(* Everything added is eventually delivered, and stays delivered: a         *)
(* consumer that keeps calling XREAD (streams.cpp:136) is never stuck below *)
(* an entry, at the end of a millisecond included.                          *)
ReaderCatchesUp == <>[](got = added)

===============================================================================
