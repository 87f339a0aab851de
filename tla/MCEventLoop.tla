------------------------------ MODULE MCEventLoop ------------------------------
(* Workloads for the runs of EventLoop. *)
EXTENDS EventLoop

(* Strings stay out of these runs; INCR has the texts of three numbers. *)
MCToText(n) == [i \in 1 .. n + 2 |-> ZeroByte]
MCStoi(v) == IF Len(v) \in 1 .. 3 THEN [ok |-> TRUE, n |-> Len(v) - 2] ELSE [ok |-> FALSE, n |-> 0]
MCIntMin == -1

Op(op) == [op |-> op]
Subscribe   == [op |-> "SUBSCRIBE", channels |-> <<"c">>]
Unsubscribe == [op |-> "UNSUBSCRIBE", channels |-> <<>>]
Publish     == [op |-> "PUBLISH", channel |-> "c", message |-> "m"]

PubsubRequests == {Subscribe, Unsubscribe, Publish, Op("QUIT"), Op("RESET"), Op("MULTI"), Op("EXEC")}
MessageRequests == {Subscribe, Publish}

Blpop(t) == [op |-> "BLPOP", keys |-> <<"k">>, timeout |-> t]
Rpush(key) == [op |-> "RPUSH", key |-> key, elements |-> <<"e">>]
Xadd     == [op |-> "XADD", key |-> "s", id |-> [form |-> "auto"]]
Xread    == [op |-> "XREAD", count |-> 0, blocking |-> TRUE, timeout |-> 0,
             reads |-> <<[key |-> "s", from |-> [form |-> "top"]]>>]

(* A timeout of 3 is greater than INT_MAX. *)
BlockingRequests == {Blpop(0), Blpop(1), Blpop(2), Blpop(3), Rpush("k")}

SetUser(rules) == [op |-> "SETUSER", rules |-> rules]
Rule(form) == [form |-> form, password |-> "p"]
Auth(name, password) == [op |-> "AUTH", name |-> name, password |-> password]

(* Rules that lock connections out and let them in, and refused ones. *)
AuthRequests ==
  {SetUser(<<Rule("nopass")>>), SetUser(<<Rule("add")>>), SetUser(<<Rule("nopass"), Rule("other")>>),
   Auth("none", "p"), Auth("default", "q")}

Wait(n, t) == [op |-> "WAIT", numreplicas |-> n, timeout |-> t]
(* A replica that is locked out cannot acknowledge. *)
ReplicaRequests ==
  AuthRequests \cup {Op("PSYNC"), Wait(1, 0), Wait(1, 1), Xadd, Xread}
  \cup {[op |-> "ACK", offset |-> n] : n \in 1 .. 2}

Workload(fds, stall, slots, requests) ==
  [fds |-> fds, stall |-> stall, slots |-> slots, requests |-> requests,
   accepts |-> slots, waiters |-> 0, writes |-> 0, queued |-> 0, time |-> 0]

(* Connections that come and go, with a peer that may stall and without,       *)
(* waiters, and replicas.                                                      *)
MCWorkloads ==
  { [Workload({4, 5, 6, 7}, {4}, 4, PubsubRequests) EXCEPT !.queued = 1],
    [Workload({4, 5}, {}, 3, PubsubRequests) EXCEPT !.queued = 1],
    [Workload({4, 5}, {}, 3, BlockingRequests) EXCEPT
       !.accepts = 2, !.waiters = 3, !.writes = 3, !.queued = 1, !.time = 2],
    [Workload({4, 5}, {4}, 3, ReplicaRequests) EXCEPT
       !.accepts = 2, !.waiters = 2, !.writes = 2, !.time = 1] }

(* Subscribers whose replies cannot be sent. *)
StrayWorkloads == {Workload({4, 5}, {4, 5}, 3, MessageRequests)}

==============================================================================
