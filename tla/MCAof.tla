--------------------------------- MODULE MCAof ---------------------------------
(* Instances of Aof: one key, bytes of one bit, words of one binary digit.    *)
EXTENDS Aof

CONSTANTS k1, a

Zero == [b \in BitPos |-> 0]
One  == [b \in BitPos |-> 1]

MCToText(n) == CASE n = 0 -> <<Zero>> [] n = 1 -> <<One>> [] n = -1 -> <<One, One>>

MCStoi(v) ==
  CASE v = <<Zero>>      -> [ok |-> TRUE, n |-> 0]
    [] v = <<One>>       -> [ok |-> TRUE, n |-> 1]
    [] v = <<One, One>>  -> [ok |-> TRUE, n |-> -1]
    [] OTHER             -> [ok |-> FALSE, n |-> 0]

MCIntMin == -1

Explicit(ms, seq) == [form |-> "explicit", id |-> ID(ms, seq)]

XaddRequest(id) == [op |-> "XADD", key |-> k1, id |-> id]

SetRequest(duration) ==
  [op |-> "SET", key |-> k1, value |-> <<One>>, option |-> [form |-> "PX", duration |-> duration]]

(* Writes that fail on the types of one another; a BLPOP, which is logged as   *)
(* the LPOP it comes to; and writes that a log does not preserve, before       *)
(* others that depend on them.                                                 *)
WriteRequests ==
  [op : {"MULTI", "EXEC"}] \cup [op : {"WATCH"}, keys : {<<k1>>}]
  \cup {XaddRequest([form |-> "auto"]), XaddRequest(Explicit(1, 0)), SetRequest(1)}
  \cup [op : {"RPUSH"}, key : {k1}, elements : {<<a>>}]
  \cup [op : {"BLPOP"}, keys : {<<k1>>}, timeout : {0}]

(* Generated and explicit stream IDs. *)
GeneratedIds ==
  [op : {"MULTI", "EXEC"}] \cup {XaddRequest([form |-> "auto"]), XaddRequest(Explicit(1, 0))}

===============================================================================
