-------------------------------- MODULE MCStore --------------------------------
(* Instances of Store: bytes of one bit, words of one binary digit.          *)
EXTENDS Store

CONSTANTS k1, k2, a

Zero == [b \in BitPos |-> 0]
One  == [b \in BitPos |-> 1]

(* Numbers as text: -1 takes two bytes; one text reads as 1 with something  *)
(* after it, one as 2, which does not fit; the others are no number.        *)
MCToText(n) == CASE n = 0 -> <<Zero>> [] n = 1 -> <<One>> [] n = -1 -> <<One, One>>

MCStoi(v) ==
  CASE v = <<Zero>>      -> [ok |-> TRUE, n |-> 0]
    [] v = <<One>>       -> [ok |-> TRUE, n |-> 1]
    [] v = <<One, Zero>> -> [ok |-> TRUE, n |-> 1]
    [] v = <<One, One>>  -> [ok |-> TRUE, n |-> -1]
    [] v = <<Zero, One>> -> [ok |-> TRUE, n |-> 2]
    [] OTHER             -> [ok |-> FALSE, n |-> 0]

MCIntMin == -1

NoOption == [form |-> "none", duration |-> 0]

SetAll(values, durations) ==
  [op : {"SET"}, key : Keys, value : values,
   option : {NoOption} \cup [form : {"PX"}, duration : durations]
            \cup {[form |-> "other", duration |-> 1]}]

Reads ==
  [op : {"GET", "STRLEN", "TYPE", "LLEN", "ZCARD"}, key : Keys]
  \cup [op : {"GETBIT"}, key : Keys, offset : {0, 1}]
  \cup [op : {"BITCOUNT"}, key : Keys, start : {0, -1}, end : {0, -1}, unit : {"BYTE", "BIT"}]
  \cup [op : {"LRANGE", "ZRANGE"}, key : Keys, start : {0, -1}, stop : {0, -1}]
  \cup [op : {"XRANGE"}, key : Keys, from : [form : {"min"}] \cup [form : {"ms"}, ms : {1}],
        to : [form : {"max"}] \cup [form : {"ms"}, ms : {0}], count : {0, 1}]
  \cup [op : {"XREAD"}, count : {0}, blocking : BOOLEAN, timeout : {0},
        reads : {<<[key |-> k1, from |-> f]>> : f \in [form : {"top"}] \cup [form : {"ms"}, ms : {0}]}]
  \cup [op : {"ZSCORE", "ZRANK"}, key : Keys, member : Members]
  \cup [op : {"KEYS"}, pattern : {Keys}]

(* Every command on one key. *)
OneKeyRequests ==
  Reads
  \cup SetAll({<<>>, <<One>>, <<Zero, One>>}, {0, 1, 2})
  \cup [op : {"INCR", "LPOP"}, key : Keys]
  \cup [op : {"SETBIT"}, key : Keys, offset : {0, 1, 2}, bit : Bit]
  \cup [op : {"BITOP"}, operation : {"NOT", "AND", "other"}, dest : Keys,
        sources : {<<k1>>, <<k1, k1>>}]
  \cup [op : {"RPUSH", "LPUSH"}, key : Keys, elements : {<<a>>, <<a, a>>}]
  \cup [op : {"LPOPCOUNT"}, key : Keys, count : {-1, 0, 2}]
  \cup [op : {"BLPOP"}, keys : {<<k1>>}, timeout : {0}]
  \cup [op : {"XADD"}, key : Keys, id : IdTexts]
  \cup [op : {"ZADD"}, key : Keys, entries : {<<e>> : e \in Scores \X Members}
                                             \cup {<<<<1, 1>>, <<2, 1>>>>}]
  \cup [op : {"GEOADD"}, key : Keys, entries : {<<<<1, 1>>, <<2, 2>>>>},
        nx : BOOLEAN, xx : BOOLEAN, ch : {FALSE}]
  \cup [op : {"ZREM"}, key : Keys, members : {<<1>>, <<1, 2>>}]

(* The commands that name two keys, and one to make a key of each type. *)
TwoKeyRequests ==
  [op : {"GET", "TYPE", "INCR", "LPOP"}, key : Keys]
  \cup SetAll({<<One>>}, {1})
  \cup [op : {"BITOP"}, operation : {"NOT", "XOR"}, dest : Keys,
        sources : {<<k1>>, <<k1, k2>>, <<k2, k1>>}]
  \cup [op : {"RPUSH"}, key : Keys, elements : {<<a>>}]
  \cup [op : {"BLPOP"}, keys : {<<k1, k2>>, <<k2, k1>>}, timeout : {0}]
  \cup [op : {"XADD"}, key : Keys, id : {[form |-> "explicit", id |-> ID(1, 1)]}]
  \cup [op : {"XREAD"}, count : {0}, blocking : {TRUE}, timeout : {0},
        reads : {<<[key |-> k1, from |-> f], [key |-> k2, from |-> f]>> :
                   f \in [form : {"top"}] \cup [form : {"ms"}, ms : {1}]}]
  \cup [op : {"ZADD"}, key : Keys, entries : {<<<<1, 1>>>>}]
  \cup [op : {"ZREM"}, key : Keys, members : {<<1>>}]
  \cup [op : {"KEYS"}, pattern : SUBSET Keys]

NoRdb == {<<>>}

(* One entry with a deadline, one that is over, one key listed twice. *)
SomeRdb ==
  LET entry(v, d, l) == [key |-> k1, value |-> v, dated |-> d, left |-> l]
  IN  {<<>>, <<entry(<<One>>, TRUE, 0)>>,
       <<entry(<<One>>, TRUE, 1), entry(<<Zero, One>>, FALSE, 0)>>}

===============================================================================
