------------------------------- MODULE EventLoop -------------------------------
(***************************************************************************)
(* Server::run of src/server/server.cpp on a primary: poll, accept, the    *)
(* commands of the ready connections, the waiters that BLPOP, XREAD and    *)
(* WAIT leave behind, replicas and the delivery of published messages.     *)
(* The log is in Aof.                                                      *)
(*                                                                         *)
(* The state of run() is one record: db (Session), clients by fd, the      *)
(* pollfd slots after that of the listening socket (-1 is a closed one),   *)
(* waiters and replicas by fd.  One iteration of the loop is a Poll, any   *)
(* Accepts, any number of commands of each ready slot in the order of the  *)
(* slots, and EndIteration.  The kernel hands out the lowest free fd.      *)
(*                                                                         *)
(* Replication offsets count bytes in the code and commands here.          *)
(***************************************************************************)
EXTENDS Session

CONSTANTS Walls,       \* readings of the system clock
          INT_MAX,     \* the greatest timeout poll takes
          Workloads    \* what the clients may be up to, see below

ASSUME LoopAssumption ==
  /\ INT_MAX \in Nat
  /\ \A w \in Workloads :
       /\ w.fds \subseteq Nat /\ w.stall \subseteq w.fds /\ w.slots \in Nat \ {0}
       /\ {w.accepts, w.waiters, w.writes, w.queued, w.time} \subseteq Nat
       /\ w.requests \subseteq AllRequests \cup SessionRequests

VARIABLES
  workload,  \* what the clients are up to
  run,       \* the state of run()
  phase,     \* "poll", "accept" or "slots"
  todo,      \* the slots poll reported that are not done with yet
  called,    \* when poll was called
  wake,      \* when poll returns at the latest; -1 is never
  now,       \* the steady clock
  deaf,      \* the fds whose peer is gone or reads no more: sending may fail
  accepted,  \* the number of connections accepted so far
  orphans,   \* history: the pending messages whose recipient has closed since
  strayed    \* history: an orphan was sent to another connection

vars == <<workload, run, phase, todo, called, wake, now, deaf, accepted, orphans, strayed>>

Fds        == workload.fds       \* numbers the kernel may give to connections
MayStall   == workload.stall     \* those whose peer may go away or stop reading
MAX_FDS    == workload.slots     \* the size of the array of slots
Requests   == workload.requests  \* what clients send
MaxAccepts == workload.accepts   \* bound on the number of connections accepted
MaxWaiters == workload.waiters   \* bound on the number of waiters
MaxWrites  == workload.writes    \* bound on the replication offset
MaxQueued  == workload.queued    \* bound on the commands of a transaction
MaxTime    == workload.time      \* bound on the steady clock

-------------------------------------------------------------------------------
(* Parts of run(); sv is its state.  In one step, every send to an fd in   *)
(* lost fails and every other send succeeds.                               *)

Open(sv) == {sv.fds[i] : i \in DOMAIN sv.fds} \ {-1}

(* What is kept by fd, without the closed ones. *)
Without(f, closed) == [fd \in DOMAIN f \ closed |-> f[fd]]

(* The elements at some of the positions, in their order. *)
Kept(seq, positions) ==
  LET kept[i \in 0 .. Len(seq)] ==
        IF i = 0 THEN <<>>
        ELSE IF i \in positions THEN Append(kept[i - 1], seq[i]) ELSE kept[i - 1]
  IN  kept[Len(seq)]

WithoutWaiters(waiters, closed) ==
  Kept(waiters, {i \in DOMAIN waiters : waiters[i].fd \notin closed})

(* Mutant of close_clients: the store still delivers to them. *)
CloseSubscribed(sv, closed) ==
  [sv EXCEPT !.clients  = Without(@, closed),
             !.fds      = [i \in DOMAIN @ |-> IF @[i] \in closed THEN -1 ELSE @[i]],
             !.waiters  = WithoutWaiters(@, closed),
             !.replicas = Without(@, closed)]

(* close_client, for a set of connections. *)
close_clients(sv, closed) ==
  [db       |-> [sv.db EXCEPT !.subscribers = {pair \in @ : pair[2] \notin closed}],
   clients  |-> Without(sv.clients, closed),
   fds      |-> [i \in DOMAIN sv.fds |-> IF sv.fds[i] \in closed THEN -1 ELSE sv.fds[i]],
   waiters  |-> WithoutWaiters(sv.waiters, closed),
   replicas |-> Without(sv.replicas, closed)]

(* deliver_messages: a recipient that cannot be sent to is closed. *)
Recipients(sv) ==
  {sv.db.pending_messages[i][1] : i \in DOMAIN sv.db.pending_messages} \cap Open(sv)

deliver_messages(sv, lost) ==
  [close_clients(sv, Recipients(sv) \cap lost) EXCEPT !.db.pending_messages = <<>>]

(* A replica that cannot be sent to is dropped; its connection stays. *)
send_to_replicas(sv, lost) ==
  [sv EXCEPT !.db.repl_offset = @ + 1,
             !.replicas = Without(@, lost)]

(* Propagating n commands on behalf of the client of fd. *)
Propagate(sv, fd, n, lost) ==
  LET after[i \in 0 .. n] == IF i = 0 THEN sv ELSE send_to_replicas(after[i - 1], lost)
  IN  IF n = 0 THEN sv
      ELSE [after[n] EXCEPT !.clients[fd].repl_offset = after[n].db.repl_offset]

count_acked(sv, target) == Cardinality({fd \in DOMAIN sv.replicas : sv.replicas[fd] >= target})

(* The waiter for a command that blocks, with the IDs XREAD resolved. *)
WaiterOf(sv, fd, c, t) ==
  LET wait == c.op = "WAIT"
  IN  [fd       |-> fd,
       kind     |-> CASE c.op = "BLPOP" -> "List" [] c.op = "XREAD" -> "Stream" [] wait -> "Wait",
       keys     |-> CASE c.op = "BLPOP" -> c.keys
                      [] c.op = "XREAD" -> [i \in DOMAIN c.reads |-> c.reads[i].key]
                      [] wait -> <<>>,
       ids      |-> IF c.op = "XREAD"
                    THEN [i \in DOMAIN c.reads |-> ReadFrom(sv.db.data, c.reads[i]).id] ELSE <<>>,
       count    |-> CASE c.op = "BLPOP" -> 0 [] c.op = "XREAD" -> c.count
                      [] wait -> IF c.numreplicas > 0 THEN c.numreplicas ELSE 0,
       deadline |-> IF c.timeout > 0 THEN t + c.timeout ELSE -1,
       target   |-> IF wait THEN sv.clients[fd].repl_offset ELSE 0]

(* Whether serve_waiters has an answer for a waiter. *)
Servable(sv, w) ==
  CASE w.kind = "Wait"   -> count_acked(sv, w.target) >= w.count
    [] w.kind = "List"   -> Ready(sv.db.data, w.keys) # {}
    [] w.kind = "Stream" -> \E i \in DOMAIN w.keys :
                              EntriesAfter(sv.db.data, w.keys[i], w.ids[i], w.count) # <<>>

Pop(sv, w, lost) ==
  Propagate([sv EXCEPT !.db.data = try_blpop(@, w.keys).st], w.fd, 1, lost)

(* Mutant of serve_waiters: the last comes first. *)
ServeLastFirst(sv, lost) ==
  LET n == Len(sv.waiters)
      after[i \in 0 .. n] ==
        IF i = 0 THEN [sv EXCEPT !.waiters = <<>>]
        ELSE LET b == after[i - 1]
                 w == sv.waiters[n + 1 - i]
             IN  IF ~Servable(b, w) THEN [b EXCEPT !.waiters = <<w>> \o @]
                 ELSE IF w.kind = "List" THEN Pop(b, w, lost) ELSE b
  IN  after[n]

(* Mutant of serve_waiters: only the first waiter is looked at. *)
ServeOne(sv, lost) ==
  IF sv.waiters = <<>> \/ ~Servable(sv, Head(sv.waiters)) THEN sv
  ELSE LET rest == [sv EXCEPT !.waiters = Tail(@)]
       IN  IF Head(sv.waiters).kind = "List" THEN Pop(rest, Head(sv.waiters), lost) ELSE rest

(* serve_waiters: in the order they came; a failed send is not noticed. *)
serve_waiters(sv, lost) ==
  LET after[i \in 0 .. Len(sv.waiters)] ==
        IF i = 0 THEN [sv EXCEPT !.waiters = <<>>]
        ELSE LET b == after[i - 1]
                 w == sv.waiters[i]
             IN  IF ~Servable(b, w) THEN [b EXCEPT !.waiters = Append(@, w)]
                 ELSE IF w.kind = "List" THEN Pop(b, w, lost) ELSE b
  IN  after[Len(sv.waiters)]

expire_waiters(sv, t) ==
  LET waits == {i \in DOMAIN sv.waiters : sv.waiters[i].deadline = -1 \/ t < sv.waiters[i].deadline}
  IN  [sv EXCEPT !.waiters = Kept(@, waits)]

(* Mutant of compact: the slot that fills the gap is not looked at. *)
CompactOnce(slots) ==
  LET after[k \in 0 .. Len(slots)] ==
        IF k = 0 THEN [fds |-> slots, i |-> 1]
        ELSE LET b == after[k - 1]
                 n == Len(b.fds)
             IN  IF b.i > n THEN b
                 ELSE IF b.fds[b.i] # -1 THEN [b EXCEPT !.i = @ + 1]
                 ELSE [fds |-> SubSeq([b.fds EXCEPT ![b.i] = b.fds[n]], 1, n - 1), i |-> b.i + 1]
  IN  after[Len(slots)].fds

(* Closed slots are filled from the end; k is the number of rounds. *)
compact(slots) ==
  LET after[k \in 0 .. Len(slots)] ==
        IF k = 0 THEN [fds |-> slots, i |-> 1]
        ELSE LET b == after[k - 1]
                 n == Len(b.fds)
             IN  IF b.i > n THEN b
                 ELSE IF b.fds[b.i] # -1 THEN [b EXCEPT !.i = @ + 1]
                 ELSE [b EXCEPT !.fds = SubSeq([b.fds EXCEPT ![b.i] = b.fds[n]], 1, n - 1)]
  IN  after[Len(slots)].fds

(* The conversion to int. *)
ToInt(n) == ((n + INT_MAX + 1) % (2 * (INT_MAX + 1))) - (INT_MAX + 1)

(* Mutant of next_timeout: the deadline of the last waiter. *)
TimeoutOfLast(waiters, t) ==
  LET after[i \in 0 .. Len(waiters)] ==
        IF i = 0 THEN -1
        ELSE IF waiters[i].deadline = -1 THEN after[i - 1]
        ELSE ToInt(IF waiters[i].deadline < t THEN 0 ELSE waiters[i].deadline - t)
  IN  after[Len(waiters)]

(* next_timeout, without a log. *)
next_timeout(waiters, t) ==
  LET remaining(w) == IF w.deadline < t THEN 0 ELSE w.deadline - t
      after[i \in 0 .. Len(waiters)] ==
        IF i = 0 THEN -1
        ELSE LET b == after[i - 1]
                 w == waiters[i]
             IN  IF w.deadline # -1 /\ (b < 0 \/ remaining(w) < b) THEN ToInt(remaining(w)) ELSE b
  IN  after[Len(waiters)]

-------------------------------------------------------------------------------

Init ==
  /\ workload \in Workloads
  /\ run = [db |-> NewDb(EmptyStore), clients |-> [fd \in {} |-> NewClient(fd, TRUE)],
            fds |-> <<>>, waiters |-> <<>>, replicas |-> [fd \in {} |-> 0]]
  /\ phase = "poll" /\ todo = {} /\ called = 0 /\ wake = -1 /\ now = 0 /\ deaf = {}
  /\ accepted = 0 /\ orphans = {} /\ strayed = FALSE

(* History: after a step that leaves sv, with the given fds closed on the  *)
(* way and the messages sent or not.                                       *)
Orphans(pending, closed) == orphans \cup {i \in DOMAIN pending : pending[i][1] \in closed}

(* The peer is gone, or reads no more. *)
GoDeaf(fd) ==
  /\ fd \in Open(run) \ deaf
  /\ deaf' = deaf \cup {fd}
  /\ UNCHANGED <<run, phase, todo, called, wake, now, accepted, orphans, strayed>>

(* Time passes in poll, up to its timeout. *)
Tick ==
  /\ phase = "poll" /\ wake # now /\ now < MaxTime
  /\ now' = now + 1
  /\ UNCHANGED <<run, phase, todo, called, wake, deaf, accepted, orphans, strayed>>

(* poll returns with some of the slots ready, maybe none: connections may  *)
(* be waiting to be accepted.                                              *)
Poll ==
  /\ phase = "poll"
  /\ phase' = "accept" /\ called' = now
  /\ todo' \in SUBSET DOMAIN run.fds
  /\ UNCHANGED <<run, wake, now, deaf, accepted, orphans, strayed>>

(* Mutant of HasRoom: the slot of the listening socket is forgotten. *)
HasRoomForOneMore == Len(run.fds) # MAX_FDS

(* nfds, which counts the listening socket, has not reached MAX_FDS. *)
HasRoom == Len(run.fds) + 1 # MAX_FDS

(* The slot of the listening socket is 0, so that it comes first. *)
Accept ==
  LET free == Fds \ Open(run)
      fd   == CHOOSE f \in free : \A g \in free : f <= g
  IN  /\ phase = "accept" /\ accepted < MaxAccepts /\ free # {}
      /\ accepted' = accepted + 1
      /\ IF HasRoom
         THEN /\ run' = [run EXCEPT
                   !.fds = Append(@, fd),
                   !.clients = Put(@, fd, NewClient(fd, default_user_auto_auth(run.db)))]
              /\ deaf' = deaf \ {fd}
         ELSE UNCHANGED <<run, deaf>>
      /\ UNCHANGED <<phase, todo, called, wake, now, orphans, strayed>>

EndAccept ==
  /\ phase = "accept"
  /\ phase' = "slots"
  /\ UNCHANGED <<run, todo, called, wake, now, deaf, accepted, orphans, strayed>>

(* The slot the loop is at, and its connection. *)
Slot == CHOOSE i \in todo : \A j \in todo : i <= j
Fd == run.fds[Slot]

(* No more input, or the connection was closed in this iteration. *)
EndSlot ==
  /\ phase = "slots" /\ todo # {}
  /\ todo' = todo \ {Slot}
  /\ UNCHANGED <<run, phase, called, wake, now, deaf, accepted, orphans, strayed>>

(* End of input, a failed recv, a protocol error, or poll reports an error. *)
Hangup ==
  /\ phase = "slots" /\ todo # {} /\ Fd # -1
  /\ run' = close_clients(run, {Fd})
  /\ orphans' = Orphans(run.db.pending_messages, {Fd})
  /\ todo' = todo \ {Slot}
  /\ UNCHANGED <<phase, called, wake, now, deaf, accepted, strayed>>

IsAck(c) ==
  /\ c.op = "ACK"
  /\ run.clients[Fd].authenticated \/ default_user_auto_auth(run.db)
  /\ run.clients[Fd].subscriptions = {}

(* REPLCONF ACK has no reply. *)
Ack(c) ==
  /\ phase = "slots" /\ todo # {} /\ Fd # -1 /\ IsAck(c)
  /\ run' = [run EXCEPT !.replicas = IF Fd \in DOMAIN @ THEN [@ EXCEPT ![Fd] = c.offset] ELSE @]
  /\ UNCHANGED <<phase, todo, called, wake, now, deaf, accepted, orphans, strayed>>

(* After handle_command: a replica is registered and writes propagated. *)
Propagated(c, r, lost) ==
  LET was_in_multi == run.clients[Fd].in_multi
      handled == [run EXCEPT !.db = r.db, !.clients[Fd] = r.client]
      synced  == IF /\ c.op = "PSYNC" /\ ~was_in_multi /\ ~IsError(r.out)
                    /\ Fd \notin DOMAIN run.replicas
                 THEN [handled EXCEPT !.replicas = Put(@, Fd, r.db.repl_offset)] ELSE handled
      own     == IF ~was_in_multi /\ is_write_command(c.op) /\ ~IsError(r.out) THEN 1 ELSE 0
  IN  Propagate(synced, Fd, own + Len(r.propagations), lost)

(* Whether WAIT is answered at once. *)
Suffices(sv, w) == DOMAIN sv.replicas = {} \/ count_acked(sv, w.target) >= w.count

(* The state with a waiter for a command that blocked; WAIT asks the       *)
(* replicas for their offsets first.                                       *)
Block(sv, w, lost) ==
  [(IF w.kind = "Wait" THEN send_to_replicas(sv, lost) ELSE sv) EXCEPT
     !.waiters = Append(@, w)]

(* A command other than REPLCONF ACK.  If the reply cannot be sent, the    *)
(* connection is closed and the messages are left undelivered (:725);      *)
(* the replies of WAIT are sent unchecked.                                 *)
Command(c) ==
  /\ phase = "slots" /\ todo # {} /\ Fd # -1 /\ ~IsAck(c)
  /\ \E wall \in Walls, lost \in SUBSET deaf :
     \E r \in {handle_command(c, run.db, run.clients[Fd], now, wall)} :
     \E sv \in {Propagated(c, r, lost)} :
       LET w        == WaiterOf(sv, Fd, c, now)
           blocks   == r.out.kind = "blocked" /\ ~(c.op = "WAIT" /\ Suffices(sv, w))
           answered == IF blocks THEN Block(sv, w, lost) ELSE sv
           drop     == r.out.kind # "blocked" /\ Fd \in lost
           sent     == deliver_messages(answered, lost)
           close    == IF Fd \in Open(sent) /\ sent.clients[Fd].close_after_reply THEN {Fd} ELSE {}
           pending  == answered.db.pending_messages
       IN  /\ Len(r.client.queued) <= MaxQueued /\ Len(answered.waiters) <= MaxWaiters
           /\ answered.db.repl_offset <= MaxWrites
           /\ run' = IF drop THEN close_clients(answered, {Fd}) ELSE close_clients(sent, close)
           /\ todo' = IF Fd \notin Open(run') THEN todo \ {Slot} ELSE todo
           /\ orphans' = IF drop THEN Orphans(pending, {Fd}) ELSE {}
           /\ strayed' = (strayed \/ (~drop /\ \E i \in orphans : pending[i][1] \in Open(sent)))
  /\ UNCHANGED <<phase, called, wake, now, deaf, accepted>>

(* serve_waiters, expire_waiters, the compaction of the slots, and the     *)
(* timeout of the next poll.                                               *)
EndIteration ==
  /\ phase = "slots" /\ todo = {}
  /\ \E lost \in SUBSET deaf :
       LET served == expire_waiters(serve_waiters(run, lost), now)
           timeout == next_timeout(served.waiters, now)
       IN  /\ run' = [served EXCEPT !.fds = compact(@)]
           /\ wake' = IF timeout < 0 THEN -1 ELSE now + timeout
  /\ phase' = "poll" /\ called' = now
  /\ UNCHANGED <<todo, now, deaf, accepted, orphans, strayed>>

Step ==
  \/ \E fd \in MayStall : GoDeaf(fd)
  \/ Tick \/ Poll \/ Accept \/ EndAccept \/ EndSlot \/ Hangup
  \/ \E c \in Requests : Ack(c) \/ Command(c)
  \/ EndIteration

Next == Step /\ UNCHANGED workload

Spec == Init /\ [][Next]_vars

-------------------------------------------------------------------------------

WaiterFds == {run.waiters[i].fd : i \in DOMAIN run.waiters}

(* Every slot is a connection or closed, and poll waits on slots of the    *)
(* array only: what the variables of run() may hold.                       *)
TypeOK ==
  /\ run.fds \in Seq(Fds \cup {-1}) /\ Len(run.fds) < MAX_FDS
  /\ DOMAIN run.clients \subseteq Fds
  /\ \A fd \in DOMAIN run.clients : run.clients[fd].fd = fd
  /\ DOMAIN run.replicas \subseteq Fds
  /\ \A i \in DOMAIN run.waiters : run.waiters[i].kind \in {"List", "Stream", "Wait"}
  /\ run.db.repl_offset \in Nat
  /\ phase \in {"poll", "accept", "slots"} /\ todo \subseteq DOMAIN run.fds
  /\ wake \in Nat \cup {-1} /\ called \in 0 .. now /\ deaf \subseteq Fds

(* A connection that is given the number of a closed one inherits nothing. *)
(* Clients, waiters, replicas and subscriptions are those of connections   *)
(* that are open: close_client (server.cpp:283) forgets them.  It does not *)
(* forget messages queued for the fd.  These are all sent with the reply   *)
(* to the command that queued them (server.cpp:732), so that none is left  *)
(* as long as no peer goes away or stops reading; one that does may leave  *)
(* messages behind (MessagesReachTheirSubscribers).                        *)
NothingOutlivesItsConnection ==
  /\ DOMAIN run.clients = Open(run)
  /\ WaiterFds \cup DOMAIN run.replicas \subseteq Open(run)
  /\ {pair[2] : pair \in run.db.subscribers} \subseteq Open(run)
  /\ MayStall = {} => run.db.pending_messages = <<>>

(* When poll is called the slots are the open connections, each once, in   *)
(* whatever order connections came and went (server.cpp:779-786).          *)
SlotsAreTheConnections ==
  /\ phase = "poll" => \A i \in DOMAIN run.fds : run.fds[i] # -1
  /\ \A i, j \in DOMAIN run.fds : run.fds[i] = run.fds[j] /\ run.fds[i] # -1 => i = j

(* The channels a client is told it listens to are those the store         *)
(* delivers to it, and no client listens while its commands are queued     *)
(* (pubsub.cpp, command.cpp:206-248).                                      *)
SubscriptionsAgree ==
  \A fd \in DOMAIN run.clients :
    LET client == run.clients[fd]
    IN  /\ client.subscriptions = {pair[1] : pair \in {p \in run.db.subscribers : p[2] = fd}}
        /\ ~(client.in_multi /\ client.subscriptions # {})

(* When the server goes to sleep nobody waits for something that is there: *)
(* an element pushed, an entry added or an offset acknowledged in an       *)
(* iteration is handed out before it ends (server.cpp:776).                *)
NobodyWaitsForWhatIsThere ==
  phase = "poll" => \A i \in DOMAIN run.waiters : ~Servable(run, run.waiters[i])

(* The server does not sleep past a deadline: the timeout of poll is that  *)
(* of the first waiter to expire (server.cpp:400).  Only a deadline        *)
(* farther away than an int holds may be missed, and it makes the server   *)
(* miss no other.                                                          *)
NoDeadlineIsSleptThrough ==
  phase = "poll" =>
    \A i \in DOMAIN run.waiters :
      LET deadline == run.waiters[i].deadline
      IN  deadline = -1 \/ deadline - called > INT_MAX \/ now <= deadline

(* The clients that wait for the same lists for good, in their order. *)
WaitingFor(sv, keys) ==
  LET waits(w) == w.kind = "List" /\ w.keys = keys /\ w.deadline = -1
  IN  Kept(sv.waiters, {i \in DOMAIN sv.waiters : waits(sv.waiters[i])})

(* Those that wait for the same lists are served in the order they came:   *)
(* an iteration serves the first of them and leaves the others.            *)
LongestWaiterFirst ==
  [][phase = "slots" /\ phase' = "poll" =>
       \A i \in DOMAIN run.waiters :
         LET before == WaitingFor(run, run.waiters[i].keys)
             after  == WaitingFor(run', run.waiters[i].keys)
         IN  after = SubSeq(before, Len(before) - Len(after) + 1, Len(before))]_vars

(* A message reaches nobody but the connections that were subscribed when  *)
(* it was published (README.md: "PUBLISH queues messages for connected     *)
(* subscribers").                                                          *)
MessagesReachTheirSubscribers == ~strayed

===============================================================================
