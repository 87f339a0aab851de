-------------------------------- MODULE Session --------------------------------
(***************************************************************************)
(* What a connection adds to the commands on data: handle_command of       *)
(* src/command/command.cpp with its transactions, the subscriptions of     *)
(* src/pubsub/pubsub.cpp, the default user of src/auth/auth.cpp and the    *)
(* handlers of src/replication/replication.cpp.                            *)
(*                                                                         *)
(* db is the rest of class Store around the data: who subscribes to what,  *)
(* as pairs <<channel, fd>>; the messages waiting to be delivered, as      *)
(* pairs <<fd, message>>; the default user; the replication offset.        *)
(* A password stands for its hash.                                         *)
(***************************************************************************)
EXTENDS Commands

User(enabled, nopass, passwords) ==
  [enabled |-> enabled, nopass |-> nopass, passwords |-> passwords]

NewDb(data) ==
  [data |-> data, subscribers |-> {}, pending_messages |-> <<>>,
   user |-> User(TRUE, TRUE, {}), repl_offset |-> 0]

default_user_auto_auth(db) == db.user.enabled /\ db.user.nopass

(* ClientState, command.hpp:11. *)
NewClient(fd, authenticated) ==
  [fd |-> fd, authenticated |-> authenticated, subscriptions |-> {},
   close_after_reply |-> FALSE, in_multi |-> FALSE, queued |-> <<>>, watched |-> <<>>,
   repl_offset |-> 0]

(* What a command comes to: the new db and client, the reply and the       *)
(* commands left in pending_propagations_.                                 *)
Outcome(db, client, out, queued) ==
  [db |-> db, client |-> client, out |-> out, propagations |-> queued]

Answer(db, client, out) == Outcome(db, client, out, <<>>)

RuleForms == {"on", "off", "nopass", "resetpass", "add", "remove", "other"}

(* What clients and replicas send besides the commands on data. *)
SessionRequests ==
  [op : {"QUIT", "RESET", "MULTI", "EXEC", "DISCARD", "UNWATCH", "PING", "REPLCONF", "PSYNC"}]
  \cup [op : {"WATCH"}, keys : Seq(Keys) \ {<<>>}]
  \cup [op : {"SUBSCRIBE"}, channels : Seq(STRING) \ {<<>>}]
  \cup [op : {"UNSUBSCRIBE"}, channels : Seq(STRING)]
  \cup [op : {"PUBLISH"}, channel : STRING, message : STRING]
  \cup [op : {"SETUSER"}, rules : Seq([form : RuleForms, password : STRING])]
  \cup [op : {"AUTH"}, name : STRING, password : STRING]
  \cup [op : {"WAIT"}, numreplicas : Int, timeout : Int]
  \cup [op : {"ACK"}, offset : Int]

-------------------------------------------------------------------------------
(* pubsub.cpp *)

Subscriptions(client, channels) == [client EXCEPT !.subscriptions = channels]

handle_subscribe(db, client, channels) ==
  LET named == {channels[i] : i \in DOMAIN channels}
  IN  Answer([db EXCEPT !.subscribers = @ \cup (named \X {client.fd})],
             Subscriptions(client, client.subscriptions \cup named),
             Reply("subscribe", channels))

(* UNSUBSCRIBE without a channel leaves all the channels of the client. *)
handle_unsubscribe(db, client, channels) ==
  LET named == IF channels = <<>> THEN client.subscriptions
               ELSE {channels[i] : i \in DOMAIN channels}
  IN  Answer([db EXCEPT !.subscribers = @ \ (named \X {client.fd})],
             Subscriptions(client, client.subscriptions \ named),
             Reply("unsubscribe", channels))

(* A message is queued for each subscriber, in the order of their fds. *)
handle_publish(db, client, channel, message) ==
  LET to    == {pair[2] : pair \in {p \in db.subscribers : p[1] = channel}}
      rank(fd) == Cardinality({x \in to : x <= fd})
      order == [i \in 1 .. Cardinality(to) |-> CHOOSE fd \in to : rank(fd) = i]
  IN  Answer([db EXCEPT !.pending_messages =
                @ \o [i \in DOMAIN order |-> <<order[i], message>>]],
             client, Integer(Cardinality(to)))

remove_subscriber(db, fd) ==
  [db EXCEPT !.subscribers = {pair \in @ : pair[2] # fd}]

-------------------------------------------------------------------------------
(* auth.cpp *)

(* One rule of ACL SETUSER. *)
Apply(user, rule) ==
  CASE rule.form = "on"        -> [user EXCEPT !.enabled = TRUE]
    [] rule.form = "off"       -> [user EXCEPT !.enabled = FALSE]
    [] rule.form = "nopass"    -> User(user.enabled, TRUE, {})
    [] rule.form = "resetpass" -> User(user.enabled, FALSE, {})
    [] rule.form = "add"       -> User(user.enabled, FALSE, user.passwords \cup {rule.password})
    [] rule.form = "remove"    -> [user EXCEPT !.passwords = @ \ {rule.password}]

(* A rule that is refused ends the command, and none of them counts. *)
handle_setuser(db, client, rules) ==
  LET user[i \in 0 .. Len(rules)] ==
        IF i = 0 THEN db.user ELSE Apply(user[i - 1], rules[i])
  IN  IF \E i \in DOMAIN rules : rules[i].form = "other"
      THEN Answer(db, client, Error("unsupported ACL rule"))
      ELSE Answer([db EXCEPT !.user = user[Len(rules)]], client, Ok)

(* name: the user name AUTH was given, or "none". *)
handle_auth(db, client, name, password) ==
  LET matched == db.user.nopass \/ password \in db.user.passwords
  IN  IF name = "none" /\ db.user.nopass
      THEN Answer(db, client, Error("no password configured"))
      ELSE IF ~db.user.enabled \/ name \notin {"none", "default"} \/ ~matched
      THEN Answer(db, client, Error("WRONGPASS"))
      ELSE Answer(db, [client EXCEPT !.authenticated = TRUE], Ok)

-------------------------------------------------------------------------------
(* command.cpp *)

(* A command on data came to r.  BLPOP leaves the LPOP it amounts to in    *)
(* pending_propagations_.                                                  *)
OnData(c, db, client, r) ==
  Outcome([db EXCEPT !.data = r.st], client, r.out,
          IF c.op = "BLPOP" /\ r.out.kind = "array"
          THEN <<[op |-> "LPOP", key |-> r.out.value[1]]>> ELSE <<>>)

Dispatch(c, db, client, t, wall) ==
  CASE c.op = "SUBSCRIBE"   -> handle_subscribe(db, client, c.channels)
    [] c.op = "UNSUBSCRIBE" -> handle_unsubscribe(db, client, c.channels)
    [] c.op = "PUBLISH"     -> handle_publish(db, client, c.channel, c.message)
    [] c.op = "SETUSER"     -> handle_setuser(db, client, c.rules)
    [] c.op = "AUTH"        -> handle_auth(db, client, c.name, c.password)
    [] c.op = "PING"        -> Answer(db, client, Reply("simple", "PONG"))
    [] c.op = "REPLCONF"    -> Answer(db, client, Ok)
    [] c.op = "PSYNC"       -> Answer(db, client, Reply("fullresync", db.repl_offset))
    [] c.op = "WAIT"        -> Answer(db, client, Blocked)
    [] OTHER                -> OnData(c, db, client, dispatch_command(c, db.data, t, wall))

(* The client out of its transaction, as DISCARD, EXEC and RESET leave it. *)
Unqueued(client) == [client EXCEPT !.in_multi = FALSE, !.queued = <<>>, !.watched = <<>>]

Changed(watch, data, t) == ~SameReply(peek(data, t, watch.key).out, watch.snapshot)

(* The data after EXEC has compared the snapshots up to the first that     *)
(* differs; each comparison reaps its key.                                 *)
Compared(db, watched, t) ==
  LET seen == {i \in DOMAIN watched : \A j \in 1 .. i - 1 : ~Changed(watched[j], db.data, t)}
  IN  [db EXCEPT !.data = ReapSet(@, t, {watched[i].key : i \in seen})]

(* What EXEC makes of the outcome r of a queued command: a command that    *)
(* would block answers nothing, a write that did not fail is to be         *)
(* propagated.                                                             *)
ExecuteQueued(before, c, r) ==
  LET out  == IF r.out.kind = "blocked" THEN NullArray ELSE r.out
      more == IF is_write_command(c.op) /\ ~IsError(out) THEN <<c>> ELSE <<>>
  IN  Outcome(r.db, r.client, Array(Append(before.out.value, out)),
              before.propagations \o r.propagations \o more)

Exec(db, client, t, wall) ==
  LET start == Outcome(Compared(db, client.watched, t), Unqueued(client), Array(<<>>), <<>>)
      after[i \in 0 .. Len(client.queued)] ==
        IF i = 0 THEN start
        ELSE LET b == after[i - 1]
                 c == client.queued[i]
             IN  ExecuteQueued(b, c, Dispatch(c, b.db, b.client, t, wall))
  IN  IF \E i \in DOMAIN client.watched : Changed(client.watched[i], db.data, t)
      THEN Answer(start.db, start.client, NullArray)
      ELSE after[Len(client.queued)]

(* WATCH snapshots the string of each key. *)
Watch(db, client, keys, t) ==
  Answer([db EXCEPT !.data = ReapSet(@, t, {keys[i] : i \in DOMAIN keys})],
         [client EXCEPT !.watched =
            @ \o [i \in DOMAIN keys |-> [key |-> keys[i],
                                         snapshot |-> peek(db.data, t, keys[i]).out]]],
         Ok)

(* Mutant of Reset: the store still delivers to the client. *)
ResetSubscribed(db, client, op) ==
  Answer(db,
         [Subscriptions(Unqueued(client), {}) EXCEPT
            !.authenticated = default_user_auto_auth(db), !.close_after_reply = op = "QUIT"],
         Reply("simple", op))

(* QUIT and RESET. *)
Reset(db, client, op) ==
  Answer(remove_subscriber(db, client.fd),
         [Subscriptions(Unqueued(client), {}) EXCEPT
            !.authenticated = default_user_auto_auth(db), !.close_after_reply = op = "QUIT"],
         Reply("simple", op))

AllowedWhenSubscribed == {"SUBSCRIBE", "UNSUBSCRIBE", "PING", "QUIT", "RESET"}

handle_command(c, db, client, t, wall) ==
  IF /\ ~client.authenticated /\ ~default_user_auto_auth(db)
     /\ c.op \notin {"AUTH", "QUIT", "RESET"}
  THEN Answer(db, client, Error("NOAUTH"))
  ELSE IF client.subscriptions # {} /\ c.op \notin AllowedWhenSubscribed
  THEN Answer(db, client, Error("subscribed mode"))
  ELSE CASE c.op \in {"QUIT", "RESET"} -> Reset(db, client, c.op)
         [] c.op = "MULTI" -> IF client.in_multi THEN Answer(db, client, Error("nested"))
                              ELSE Answer(db, [client EXCEPT !.in_multi = TRUE], Ok)
         [] c.op = "WATCH" -> IF client.in_multi THEN Answer(db, client, Error("in MULTI"))
                              ELSE Watch(db, client, c.keys, t)
         [] c.op = "UNWATCH" -> Answer(db, [client EXCEPT !.watched = <<>>], Ok)
         [] c.op = "DISCARD" -> IF client.in_multi THEN Answer(db, Unqueued(client), Ok)
                                ELSE Answer(db, client, Error("without MULTI"))
         [] c.op = "EXEC" -> IF client.in_multi THEN Exec(db, client, t, wall)
                             ELSE Answer(db, client, Error("without MULTI"))
         [] OTHER -> IF client.in_multi
                     THEN Answer(db, [client EXCEPT !.queued = Append(@, c)],
                                 Reply("simple", "QUEUED"))
                     ELSE Dispatch(c, db, client, t, wall)

===============================================================================
