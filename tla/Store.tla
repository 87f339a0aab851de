--------------------------------- MODULE Store ---------------------------------
(***************************************************************************)
(* The data of the server under the commands of Commands.  The event loop  *)
(* runs one command at a time, so a command is one step.                   *)
(***************************************************************************)
EXTENDS Commands

CONSTANTS Requests,    \* the requests clients send
          RdbFiles,    \* what the RDB file may hold, each a sequence of entries
          Walls,       \* readings of the system clock (XADD *)
          MaxTime,     \* bound on the steady clock
          MaxListLen   \* bound on the length of a list

VARIABLES store, now

vars == <<store, now>>

ASSUME StoreAssumption ==
  /\ Requests \subseteq AllRequests
  /\ RdbFiles \subseteq Seq(RdbEntries)
  /\ Walls \subseteq Word
  /\ MaxTime \in Nat /\ MaxListLen \in Nat

-------------------------------------------------------------------------------

(* At startup the entries of the RDB file are loaded. *)
Init ==
  /\ now = 0
  /\ \E entries \in RdbFiles : store = load_entries(entries, 0)

Tick == now < MaxTime /\ now' = now + 1 /\ UNCHANGED store

Execute(c) ==
  /\ \E wall \in Walls : store' = dispatch_command(c, store, now, wall).st
  /\ UNCHANGED now

Run(op) == \E c \in Requests : c.op = op /\ Execute(c)

Push(op) ==
  \E c \in Requests :
    /\ c.op = op
    /\ Len(ListAt(store, c.key)) + Len(c.elements) <= MaxListLen
    /\ Execute(c)

Next ==
  \/ Tick
  \/ Run("SET") \/ Run("GET") \/ Run("STRLEN") \/ Run("INCR")
  \/ Run("SETBIT") \/ Run("GETBIT") \/ Run("BITCOUNT") \/ Run("BITOP")
  \/ Push("RPUSH") \/ Push("LPUSH") \/ Run("LLEN") \/ Run("LRANGE")
  \/ Run("LPOP") \/ Run("LPOPCOUNT") \/ Run("BLPOP")
  \/ Run("XADD") \/ Run("XRANGE") \/ Run("XREAD")
  \/ Run("ZADD") \/ Run("GEOADD") \/ Run("ZREM")
  \/ Run("ZCARD") \/ Run("ZSCORE") \/ Run("ZRANK") \/ Run("ZRANGE")
  \/ Run("TYPE") \/ Run("KEYS")

Spec == Init /\ [][Next]_vars

-------------------------------------------------------------------------------
(* Properties *)

(* The maps of the store hold values of their own type. *)
TypeOK == IsStore(store) /\ now \in Nat

(* A deadline belongs to a string: reaping a key (store.cpp:86) erases a   *)
(* string that is there, and a string created later never inherits the     *)
(* deadline of an earlier one.                                             *)
DeadlinesBelongToStrings == DOMAIN store.Expirations \subseteq DOMAIN store.Storage

(* The two indexes of a sorted set agree (store.hpp:34): ordered holds     *)
(* exactly the pair of each member with the score in scores, so no member  *)
(* is ranked twice or missing from a range after its score changes.        *)
IndexesAgree ==
  \A k \in DOMAIN store.sorted_sets :
    LET z == store.sorted_sets[k]
    IN  z.ordered = {<<z.scores[m], m>> : m \in DOMAIN z.scores}

(* A key never holds an empty list, stream or sorted set, so a key that    *)
(* TYPE, KEYS and the type checks see has something in it: the last pop or *)
(* removal and a refused first XADD (streams.cpp:60) erase the key.        *)
NothingEmpty ==
  /\ \A k \in DOMAIN store.DynamicVector : store.DynamicVector[k] # <<>>
  /\ \A k \in DOMAIN store.sorted_sets : DOMAIN store.sorted_sets[k].scores # {}
  /\ \A k \in DOMAIN store.Streams :
       store.Streams[k].has_max_id /\ encode_id(store.Streams[k].max_id) \in store.Streams[k].tree

(* A command that is neither logged nor sent to the replicas (server.cpp:  *)
(* 653) changes nothing a client can see: it removes expired strings at    *)
(* most.  Otherwise the log and the replicas would diverge from the data.  *)
UnpropagatedLeavesNoTrace ==
  \A c \in Requests, wall \in Walls :
    LET r == dispatch_command(c, store, now, wall)
    IN  ~IsPropagated(c, r.out) => ReapAll(r.st, now) = ReapAll(store, now)

(* A key whose expired string is still in Storage and that another map     *)
(* holds too: RPUSH, LPUSH and XADD do not mind a string.                  *)
Overlaid(k) ==
  /\ Expired(store, now, k)
  /\ k \in DOMAIN store.DynamicVector \cup DOMAIN store.Streams \cup DOMAIN store.sorted_sets

(* Lazy expiry cannot be told from expiry at the deadline: every command   *)
(* answers, and leaves behind, what it would if every expired string had   *)
(* been removed before it, although the commands look at deadlines in      *)
(* different places (is_expired, key_type, the check of dispatch_command)  *)
(* and some (BLPOP, XREAD, the destination of BITOP) do not look at all.   *)
(* Overlaid keys are left out: the first look at one calls it "none".      *)
LazyExpiryIsInvisible ==
  (\A k \in Keys : ~Overlaid(k)) =>
    \A c \in Requests, wall \in Walls :
      LET lazy  == dispatch_command(c, store, now, wall)
          eager == dispatch_command(c, ReapAll(store, now), now, wall)
      IN  SameReply(lazy.out, eager.out) /\ ReapAll(lazy.st, now) = ReapAll(eager.st, now)

(* A sorted set never shares its key with a value of another type: the     *)
(* sorted-set commands reject every key of another type, and every other   *)
(* command rejects the key of a sorted set.                                *)
TypesApart ==
  DOMAIN store.sorted_sets
    \cap (DOMAIN store.Storage \cup DOMAIN store.DynamicVector \cup DOMAIN store.Streams) = {}

(* Only an overlaid key can break that.  The checks are spread over        *)
(* dispatch_command (INCR, RPUSH, XADD ...), wrong_string_type (SETBIT),   *)
(* wrong_sorted_set_type (ZADD, GEOADD) and the erasures of SET and BITOP; *)
(* as long as no expired string hides a value, they keep types apart.      *)
OnlyOverlaysMixTypes ==
  [][TypesApart /\ (\A k \in Keys : ~Overlaid(k)) => TypesApart']_vars

===============================================================================
