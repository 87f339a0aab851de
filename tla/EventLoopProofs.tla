---------------------------- MODULE EventLoopProofs ----------------------------
(***************************************************************************)
(* What the loop of Server::run keeps true, for any number of connections, *)
(* any requests and any timing: the properties of EventLoop.               *)
(***************************************************************************)
EXTENDS EventLoopLemmas

-------------------------------------------------------------------------------
(* A command: server.cpp:601-742. *)

(* The slot the loop is at has a connection. *)
LEMMA SlotIsOpen ==
  ASSUME NEW F, Sound(run, F), todo \subseteq DOMAIN run.fds, todo # {}
  PROVE  Slot \in todo /\ (Fd # -1 => Fd \in Conns(run.fds))
<1>1. run.fds \in Seq(F \cup {-1})
  BY Zenon DEF Sound, SlotsOk
<1>2. todo \in SUBSET Nat
  BY <1>1
<1>3. \E i \in todo : \A j \in todo : i <= j
  BY Zenon, <1>2, LeastExists
<1>4. Slot \in todo
  BY Zenon, <1>3 DEF Slot
<1> QED BY Zenon, <1>4 DEF Fd, Conns

(* What the command did to the store and to its connection, the replica it *)
(* made and the writes to be propagated.                                   *)
LEMMA PropagatedSound ==
  ASSUME NEW F, Sound(run, F), Fd \in Conns(run.fds), NEW c, NEW r,
         Settled(r, run.db, run.clients[Fd]), IsSeq(r.propagations), NEW lost
  PROVE  Sound(Propagated(c, r, lost), F) /\ Propagated(c, r, lost).fds = run.fds
<1> DEFINE x       == [run.clients EXCEPT ![Fd] = r.client]
           mid     == WithDb(run, r.db)
           handled == WithClients(mid, x)
           more    == Put(handled.replicas, Fd, r.db.repl_offset)
           registers == /\ c.op = "PSYNC" /\ ~run.clients[Fd].in_multi /\ ~IsError(r.out)
                        /\ Fd \notin DOMAIN run.replicas
           synced  == IF registers THEN WithReplicas(handled, more) ELSE handled
           own     == IF ~run.clients[Fd].in_multi /\ is_write_command(c.op) /\ ~IsError(r.out)
                      THEN 1 ELSE 0
           n       == own + Len(r.propagations)
<1>1. /\ IsLoop(run) /\ DbOk(run.db) /\ ClientOk(run.db, run.clients[Fd], Fd)
      /\ DOMAIN run.replicas \subseteq Conns(run.fds)
  BY Zenon DEF Sound, ClientsOk
<1>2. DbOk(r.db) /\ ClientOk(r.db, r.client, Fd)
      /\ \A g : g # Fd => Listens(r.db.subscribers, g) = Listens(run.db.subscribers, g)
  BY Zenon, <1>1 DEF Settled, Follows, Agrees, DbOk, ClientOk
<1>3. Sound(handled, F)
  BY Zenon, <1>2, ClientSound
<1>4. Propagated(c, r, lost) = Propagate(synced, Fd, n, lost)
  BY Zenon DEF Propagated, WithClients, WithDb, WithReplicas
<1>5. IsLoop(mid) /\ mid.fds = run.fds /\ mid.replicas = run.replicas
  BY Zenon, <1>1, WithDbSets
<1> HIDE DEF x, mid
<1>6. IsLoop(handled) /\ handled.fds = run.fds /\ handled.replicas = run.replicas
  BY ZenonT(60), <1>5, WithClientsSets
<1> HIDE DEF handled, registers, own
<1>7. DOMAIN more \subseteq Conns(handled.fds)
  BY Zenon, <1>1, <1>6 DEF Put
<1> HIDE DEF more
<1>8. Sound(synced, F) /\ synced.fds = run.fds
  <2>1. Sound(WithReplicas(handled, more), F)
    BY Zenon, <1>3, <1>7, ReplicasSound
  <2>2. WithReplicas(handled, more).fds = run.fds
    BY ZenonT(60), <1>6, WithReplicasSets
  <2> QED BY Zenon, <1>3, <1>6, <2>1, <2>2
<1> HIDE DEF synced
<1>9. n \in Nat
  <2>1. Len(r.propagations) \in Nat
    BY Zenon, SeqFacts
  <2>2. own \in Nat
    BY Zenon DEF own
  <2> QED BY <2>1, <2>2
<1> HIDE DEF n
<1>10. Fd \in Conns(synced.fds)
  BY Zenon, <1>8
<1>11. Sound(Propagate(synced, Fd, n, lost), F) /\ Lighter(Propagate(synced, Fd, n, lost), synced)
  BY Zenon, <1>8, <1>9, <1>10, PropagateSound
<1> QED BY Zenon, <1>4, <1>8, <1>11 DEF Lighter

(* The waiter of a command that blocks. *)
LEMMA WaiterIsWaiter ==
  ASSUME NEW c \in AllRequests \cup SessionRequests, c.op \in {"BLPOP", "XREAD", "WAIT"},
         NEW sv, NEW fd, NEW t \in Nat
  PROVE  IsWaiter(WaiterOf(sv, fd, c, t)) /\ WaiterOf(sv, fd, c, t).fd = fd
<1> DEFINE w == WaiterOf(sv, fd, c, t)
<1>1. w.fd = fd /\ w.deadline = IF c.timeout > 0 THEN t + c.timeout ELSE -1
  BY Zenon DEF WaiterOf
<1>2. c.timeout \in Int
  BY Zenon, BlockingRequests
<1>3. w.deadline \in Nat \cup {-1}
  BY <1>1, <1>2
<1>4. CASE c.op = "BLPOP"
  <2>1. w.kind = "List" /\ w.keys = c.keys
    BY Zenon, <1>4 DEF WaiterOf
  <2>2. IsSeq(c.keys)
    BY Zenon, <1>4, BlockingRequests
  <2> HIDE DEF w
  <2>3. IsWaiter(w)
    BY Zenon, <1>3, <2>1, <2>2 DEF IsWaiter
  <2> QED BY Zenon, <1>1, <2>3 DEF w
<1>5. CASE c.op = "XREAD"
  <2>1. w.kind = "Stream"
    BY Zenon, <1>5 DEF WaiterOf
  <2> HIDE DEF w
  <2>2. IsWaiter(w)
    BY Zenon, <1>3, <2>1 DEF IsWaiter
  <2> QED BY Zenon, <1>1, <2>2 DEF w
<1>6. CASE c.op = "WAIT"
  <2>1. w.kind = "Wait" /\ w.count = IF c.numreplicas > 0 THEN c.numreplicas ELSE 0
    BY Zenon, <1>6 DEF WaiterOf
  <2>2. c.numreplicas \in Int
    BY Zenon, <1>6, BlockingRequests
  <2> HIDE DEF w
  <2>3. IsWaiter(w)
    BY <1>3, <2>1, <2>2 DEF IsWaiter
  <2> QED BY Zenon, <1>1, <2>3 DEF w
<1> QED BY Zenon, <1>4, <1>5, <1>6

(* It is put last. *)
LEMMA BlockSound ==
  ASSUME NEW F, NEW sv, Sound(sv, F), NEW w, IsWaiter(w), w.fd \in Conns(sv.fds), NEW lost
  PROVE  Sound(Block(sv, w, lost), F) /\ Block(sv, w, lost).fds = sv.fds
<1> DEFINE b   == IF w.kind = "Wait" THEN send_to_replicas(sv, lost) ELSE sv
           x   == Append(b.waiters, w)
           new == WithWaiters(b, x)
<1>1. Sound(b, F) /\ b.fds = sv.fds
  <2>1. Sound(send_to_replicas(sv, lost), F) /\ send_to_replicas(sv, lost).fds = sv.fds
    BY Zenon, SendSound DEF Lighter
  <2> QED BY Zenon, <2>1
<1>2. Block(sv, w, lost) = new
  BY Zenon DEF Block, WithWaiters
<1> HIDE DEF b
<1>3. IsLoop(b) /\ WaitersOk(b.waiters, Conns(b.fds))
  BY Zenon, <1>1 DEF Sound
<1>4. PICK T : b.waiters \in Seq(T)
  BY Zenon, <1>3 DEF WaitersOk, IsSeq
<1>5. /\ DOMAIN x = DOMAIN b.waiters \cup {Len(b.waiters) + 1}
      /\ \A j \in DOMAIN b.waiters : x[j] = b.waiters[j]
      /\ x[Len(b.waiters) + 1] = w
  BY <1>4
<1>6. IsSeq(x)
  BY Zenon, <1>3, SeqFacts DEF WaitersOk
<1> HIDE DEF x
<1>7. \A j \in DOMAIN x : IsWaiter(x[j]) /\ x[j].fd \in Conns(b.fds)
  <2>1. ASSUME NEW j \in DOMAIN b.waiters PROVE IsWaiter(x[j]) /\ x[j].fd \in Conns(b.fds)
    BY Zenon, <1>3, <1>5 DEF WaitersOk
  <2>2. IsWaiter(x[Len(b.waiters) + 1]) /\ x[Len(b.waiters) + 1].fd \in Conns(b.fds)
    BY Zenon, <1>1, <1>5
  <2> QED BY Zenon, <1>5, <2>1, <2>2
<1>8. WaitersOk(x, Conns(b.fds))
  BY Zenon, <1>6, <1>7 DEF WaitersOk
<1>9. Sound(new, F)
  BY Zenon, <1>1, <1>8, WaitersSound
<1>10. new.fds = b.fds
  BY Zenon, <1>3, WithWaitersSets
<1> QED BY Zenon, <1>1, <1>2, <1>9, <1>10

(* The state after a command, whichever way it goes. *)
LEMMA CommandSound ==
  ASSUME NEW F, Sound(run, F), todo \subseteq DOMAIN run.fds, now \in Nat,
         NEW c \in AllRequests \cup SessionRequests, Command(c)
  PROVE  /\ Sound(run', F) /\ DOMAIN run'.fds = DOMAIN run.fds /\ Len(run'.fds) = Len(run.fds)
         /\ todo' \subseteq todo
         /\ deaf = {} => run'.db.pending_messages = <<>>
<1>1. phase = "slots" /\ todo # {} /\ Fd # -1 /\ ~IsAck(c)
  BY Zenon DEF Command
<1>2. Fd \in Conns(run.fds)
  BY Zenon, <1>1, SlotIsOpen
<1> DEFINE Then(r, sv, lost) ==
             LET w        == WaiterOf(sv, Fd, c, now)
                 blocks   == r.out.kind = "blocked" /\ ~(c.op = "WAIT" /\ Suffices(sv, w))
                 answered == IF blocks THEN Block(sv, w, lost) ELSE sv
                 drop     == r.out.kind # "blocked" /\ Fd \in lost
                 sent     == deliver_messages(answered, lost)
                 close    == IF Fd \in Open(sent) /\ sent.clients[Fd].close_after_reply THEN {Fd} ELSE {}
                 pending  == answered.db.pending_messages
             IN  /\ Len(r.client.queued) <= MaxQueued /\ Len(answered.waiters) <= MaxWaiters
                 /\ answered.db.repl_offset <= MaxWrites
                 /\ run' = IF drop THEN close_clients(answered, {Fd}) ELSE close_clients(sent, close)
                 /\ todo' = IF Fd \notin Open(run') THEN todo \ {Slot} ELSE todo
                 /\ orphans' = IF drop THEN Orphans(pending, {Fd}) ELSE {}
                 /\ strayed' = (strayed \/ (~drop /\ \E i \in orphans : pending[i][1] \in Open(sent)))
<1>3. PICK wall \in Walls, lost \in SUBSET deaf :
        \E r \in {handle_command(c, run.db, run.clients[Fd], now, wall)} :
        \E sv \in {Propagated(c, r, lost)} : Then(r, sv, lost)
  BY Zenon DEF Command
<1> DEFINE client   == run.clients[Fd]
           r        == handle_command(c, run.db, client, now, wall)
           sv       == Propagated(c, r, lost)
           w        == WaiterOf(sv, Fd, c, now)
           blocks   == r.out.kind = "blocked" /\ ~(c.op = "WAIT" /\ Suffices(sv, w))
           answered == IF blocks THEN Block(sv, w, lost) ELSE sv
           sent     == deliver_messages(answered, lost)
<1>4. /\ \E closed : \/ deaf # {} /\ run' = close_clients(answered, closed)
                     \/ run' = close_clients(sent, closed)
      /\ todo' \subseteq todo
  <2> HIDE DEF Then
  <2>1. Then(r, sv, lost)
    BY Zenon, <1>3
  <2> USE DEF Then
  <2> HIDE DEF r, sv
  <2> DEFINE drop  == r.out.kind # "blocked" /\ Fd \in lost
             close == IF Fd \in Open(sent) /\ sent.clients[Fd].close_after_reply THEN {Fd} ELSE {}
  <2>2. run' = IF drop THEN close_clients(answered, {Fd}) ELSE close_clients(sent, close)
    BY Zenon, <2>1
  <2>3. todo' = IF Fd \notin Open(run') THEN todo \ {Slot} ELSE todo
    BY Zenon, <2>1
  <2>4. drop => deaf # {}
    BY Zenon
  <2> HIDE DEF drop, close, answered, sent
  <2> QED BY Zenon, <2>2, <2>3, <2>4
<1>5. PICK closed : \/ deaf # {} /\ run' = close_clients(answered, closed)
                    \/ run' = close_clients(sent, closed)
  BY Zenon, <1>4
<1> HIDE DEF Then
<1>6. ClientOk(run.db, client, Fd)
  BY Zenon, <1>2 DEF Sound, ClientsOk
<1>7. IsClient(client) /\ Agrees(run.db, client) /\ (client.in_multi => client.subscriptions = {})
  BY Zenon, <1>6 DEF ClientOk, Agrees
<1>8. Settled(r, run.db, client)
  <2> HIDE DEF client
  <2> QED BY Zenon, <1>7, HandleFollows
<1>9. IsSeq(r.propagations)
  <2> HIDE DEF client
  <2> QED BY Zenon, <1>7, HandleAnswers DEF Answers
<1>10. ASSUME c.op = "ACK" PROVE r.out.kind # "blocked"
  <2>1. \/ ~client.authenticated /\ ~default_user_auto_auth(run.db)
        \/ client.subscriptions # {}
    BY Zenon, <1>1, <1>10 DEF IsAck
  <2>2. c.op \notin {"AUTH", "QUIT", "RESET"} /\ c.op \notin AllowedWhenSubscribed
    BY Zenon, <1>10 DEF AllowedWhenSubscribed
  <2> HIDE DEF client
  <2>3. \E text : r = Answer(run.db, client, Error(text))
    BY Zenon, <2>1, <2>2 DEF handle_command
  <2>4. \A text : Answer(run.db, client, Error(text)).out.kind # "blocked"
    BY Zenon DEF Answer, Outcome, Error, Reply
  <2> HIDE DEF r
  <2> QED BY Zenon, <2>3, <2>4
<1>11. ASSUME r.out.kind = "blocked" PROVE c.op \in {"BLPOP", "XREAD", "WAIT"}
  <2>1. c.op # "ACK"
    BY Zenon, <1>10, <1>11
  <2> HIDE DEF client
  <2> QED BY Zenon, <1>7, <1>11, <2>1, HandleBlocks
<1> HIDE DEF r
<1>12. Sound(sv, F) /\ sv.fds = run.fds
  <2>1. Settled(r, run.db, run.clients[Fd])
    BY Zenon, <1>8
  <2> QED BY <1>2, <1>9, <2>1, PropagatedSound
<1> HIDE DEF sv
<1>13. Sound(answered, F) /\ answered.fds = run.fds
  <2>1. ASSUME blocks PROVE Sound(Block(sv, w, lost), F) /\ Block(sv, w, lost).fds = run.fds
    <3>1. IsWaiter(w) /\ w.fd = Fd
      BY <1>11, <2>1, WaiterIsWaiter
    <3> HIDE DEF w
    <3>2. w.fd \in Conns(sv.fds)
      BY Zenon, <1>2, <1>12, <3>1
    <3> QED BY <1>12, <3>1, <3>2, BlockSound
  <2> HIDE DEF blocks, w
  <2> QED BY Zenon, <1>12, <2>1
<1> HIDE DEF answered
<1>14. Sound(sent, F) /\ DOMAIN sent.fds = DOMAIN run.fds /\ Len(sent.fds) = Len(run.fds)
       /\ sent.db.pending_messages = <<>>
  BY <1>13, DeliverSound
<1> HIDE DEF sent
<1>15. \A b : Sound(b, F) /\ DOMAIN b.fds = DOMAIN run.fds /\ Len(b.fds) = Len(run.fds) =>
         /\ Sound(close_clients(b, closed), F)
         /\ DOMAIN close_clients(b, closed).fds = DOMAIN run.fds
         /\ Len(close_clients(b, closed).fds) = Len(run.fds)
         /\ close_clients(b, closed).db.pending_messages = b.db.pending_messages
  BY CloseSound
<1> QED BY Zenon, <1>4, <1>5, <1>13, <1>14, <1>15

-------------------------------------------------------------------------------
(* The inductive invariant. *)

(* What holds when poll is called, and while it waits. *)
Asleep ==
  /\ \A i \in DOMAIN run.fds : run.fds[i] # -1
  /\ \A i \in DOMAIN run.waiters : ~Servable(run, run.waiters[i])
  /\ wake = -1 \/ now <= wake
  /\ \A i \in DOMAIN run.waiters :
       LET deadline == run.waiters[i].deadline
       IN  deadline = -1 \/ deadline - called > INT_MAX \/ (wake # -1 /\ wake <= deadline)

IInv ==
  /\ workload \in Workloads
  /\ Sound(run, Fds) /\ Len(run.fds) < MAX_FDS
  /\ phase \in {"poll", "accept", "slots"} /\ todo \subseteq DOMAIN run.fds
  /\ now \in Nat /\ called \in 0 .. now /\ wake \in Nat \cup {-1} /\ deaf \subseteq Fds
  /\ phase = "poll" => Asleep

(* The server starts without connections. *)
LEMMA InitIInv == Init => IInv
<1> SUFFICES ASSUME Init PROVE IInv
  BY Zenon
<1> DEFINE db == NewDb(EmptyStore)
<1>1. /\ workload \in Workloads
      /\ run = Loop(db, [fd \in {} |-> NewClient(fd, TRUE)], <<>>, <<>>, [fd \in {} |-> 0])
      /\ phase = "poll" /\ todo = {} /\ called = 0 /\ wake = -1 /\ now = 0 /\ deaf = {}
  BY Zenon DEF Init, Loop
<1>2. /\ IsLoop(run) /\ run.db = db /\ run.clients = [fd \in {} |-> NewClient(fd, TRUE)]
      /\ run.fds = <<>> /\ run.waiters = <<>> /\ run.replicas = [fd \in {} |-> 0]
  BY <1>1, LoopFields
<1>3. DbOk(db) /\ db.subscribers = {}
  <2>1. db = Db(EmptyStore, {}, <<>>, User(TRUE, TRUE, {}), 0)
    BY Zenon DEF NewDb, Db
  <2>2. IsDb(db)
    BY Zenon, <2>1 DEF IsDb
  <2>3. db.subscribers = {} /\ db.repl_offset = 0
    BY <2>1 DEF Db
  <2>4. Paired({})
    BY Zenon DEF Paired
  <2> QED BY <2>2, <2>3, <2>4 DEF DbOk
<1>4. /\ DOMAIN <<>> = {} /\ <<>> \in Seq(Fds \cup {-1}) /\ Len(<<>>) = 0 /\ Conns(<<>>) = {}
  BY DEF Conns
<1>5. SlotsOk(<<>>, Fds) /\ WaitersOk(<<>>, {})
  BY Zenon, <1>4, SeqFacts DEF SlotsOk, WaitersOk
<1>6. ClientsOk(db, [fd \in {} |-> NewClient(fd, TRUE)], {})
  BY Zenon, <1>3 DEF ClientsOk
<1>7. DOMAIN [fd \in {} |-> 0] \subseteq {}
  BY Zenon
<1>8. Sound(run, Fds)
  BY Zenon, <1>2, <1>3, <1>4, <1>5, <1>6, <1>7 DEF Sound
<1>9. Len(run.fds) < MAX_FDS
  BY <1>1, <1>2, <1>4, LoopAssumption DEF MAX_FDS
<1>10. Asleep
  BY Zenon, <1>1, <1>2, <1>4 DEF Asleep
<1> QED BY <1>1, <1>2, <1>4, <1>8, <1>9, <1>10 DEF IInv

(* What a step has to show. *)
LEMMA Preserved ==
  ASSUME workload \in Workloads, workload' = workload,
         Sound(run', Fds), Len(run'.fds) < MAX_FDS,
         phase' \in {"poll", "accept", "slots"}, todo' \subseteq DOMAIN run'.fds,
         now' \in Nat, called' \in 0 .. now', wake' \in Nat \cup {-1}, deaf' \subseteq Fds,
         phase' = "poll" => Asleep'
  PROVE  IInv'
<1>1. Fds' = Fds /\ MAX_FDS' = MAX_FDS
  BY Zenon DEF Fds, MAX_FDS
<1> QED BY Zenon, <1>1 DEF IInv

(* Nothing that Asleep speaks of changes. *)
LEMMA StillAsleep ==
  ASSUME IInv, UNCHANGED <<run, phase, called, wake, now>>
  PROVE  phase' = "poll" => Asleep'
BY Zenon DEF IInv, Asleep

(* A client stops reading. *)
LEMMA StallKeepsIInv ==
  ASSUME IInv, workload' = workload, NEW fd \in MayStall, GoDeaf(fd)
  PROVE  IInv'
<1>1. deaf' = deaf \cup {fd} /\ UNCHANGED <<run, phase, todo, called, wake, now>>
  BY Zenon DEF GoDeaf
<1>2. fd \in Fds
  BY Zenon, LoopAssumption DEF MayStall, Fds, IInv
<1>3. phase' = "poll" => Asleep'
  BY Zenon, <1>1, StillAsleep
<1> QED BY Zenon, <1>1, <1>2, <1>3, Preserved DEF IInv

(* Time passes while poll sleeps. *)
LEMMA TickKeepsIInv ==
  ASSUME IInv, workload' = workload, Tick
  PROVE  IInv'
<1>1. /\ phase = "poll" /\ wake # now /\ now' = now + 1
      /\ UNCHANGED <<run, phase, todo, called, wake, deaf>>
  BY Zenon DEF Tick
<1>2. now \in Nat /\ called \in 0 .. now /\ wake \in Nat \cup {-1} /\ (wake = -1 \/ now <= wake)
  BY Zenon, <1>1 DEF IInv, Asleep
<1>3. now' \in Nat /\ called' \in 0 .. now' /\ (wake' = -1 \/ now' <= wake')
  BY <1>1, <1>2
<1>4. Asleep'
  BY Zenon, <1>1, <1>3 DEF IInv, Asleep
<1> QED BY Zenon, <1>1, <1>3, <1>4, Preserved DEF IInv

(* poll returns (server.cpp:427). *)
LEMMA PollKeepsIInv ==
  ASSUME IInv, workload' = workload, Poll
  PROVE  IInv'
<1>1. /\ phase' = "accept" /\ called' = now /\ todo' \subseteq DOMAIN run.fds
      /\ UNCHANGED <<run, wake, now, deaf>>
  BY Zenon DEF Poll
<1>2. now \in Nat
  BY Zenon DEF IInv
<1>3. called' \in 0 .. now'
  BY <1>1, <1>2
<1>4. phase' # "poll"
  BY Zenon, <1>1
<1> QED BY Zenon, <1>1, <1>3, <1>4, Preserved DEF IInv

(* The slots after a connection was accepted. *)
LEMMA AppendedSlot ==
  ASSUME NEW F, -1 \notin F, NEW fds, SlotsOk(fds, F), NEW fd \in F \ Conns(fds)
  PROVE  LET new == Append(fds, fd)
         IN  /\ SlotsOk(new, F) /\ Conns(new) = Conns(fds) \cup {fd} /\ Len(new) = Len(fds) + 1
             /\ DOMAIN fds \subseteq DOMAIN new
<1> DEFINE new == Append(fds, fd)
           n   == Len(fds) + 1
<1>1. fds \in Seq(F \cup {-1}) /\ fd \in F \cup {-1} /\ fd # -1
  BY Zenon DEF SlotsOk
<1>2. /\ new \in Seq(F \cup {-1}) /\ Len(new) = n /\ DOMAIN new = DOMAIN fds \cup {n}
      /\ new[n] = fd /\ \A i \in DOMAIN fds : new[i] = fds[i]
  BY <1>1
<1> HIDE DEF new, n
<1>3. \A i \in DOMAIN fds : fds[i] # fd
  BY Zenon, <1>1 DEF Conns
<1>4. \A i, j \in DOMAIN new : new[i] = new[j] /\ new[i] # -1 => i = j
  BY Zenon, <1>2, <1>3 DEF SlotsOk
<1>5. \A x : x \in Conns(new) <=> x \in Conns(fds) \cup {fd}
  <2>1. ASSUME NEW x \in Conns(new) PROVE x \in Conns(fds) \cup {fd}
    BY Zenon, <1>2 DEF Conns
  <2>2. ASSUME NEW x \in Conns(fds) PROVE x \in Conns(new)
    BY Zenon, <1>2 DEF Conns
  <2>3. fd \in Conns(new)
    BY Zenon, <1>1, <1>2 DEF Conns
  <2> QED BY Zenon, <2>1, <2>2, <2>3
<1>6. Conns(new) = Conns(fds) \cup {fd}
  BY Zenon, <1>5
<1>7. SlotsOk(new, F)
  BY Zenon, <1>2, <1>4 DEF SlotsOk
<1> QED BY Zenon, <1>2, <1>6, <1>7 DEF new, n

(* A new connection: server.cpp:449-480. *)
LEMMA AcceptSound ==
  ASSUME NEW F, -1 \notin F, NEW sv, Sound(sv, F), NEW fd \in F \ Conns(sv.fds), NEW a
  PROVE  Sound(WithClients(WithFds(sv, Append(sv.fds, fd)), Put(sv.clients, fd, NewClient(fd, a))), F)
<1> DEFINE cl    == NewClient(fd, a)
           slots == Append(sv.fds, fd)
           x     == Put(sv.clients, fd, cl)
           mid   == WithFds(sv, slots)
           new   == WithClients(mid, x)
           open  == Conns(sv.fds)
<1>1. /\ IsLoop(sv) /\ DbOk(sv.db) /\ SlotsOk(sv.fds, F) /\ ClientsOk(sv.db, sv.clients, open)
      /\ WaitersOk(sv.waiters, open) /\ DOMAIN sv.replicas \subseteq open
  BY Zenon DEF Sound
<1>2. SlotsOk(slots, F) /\ Conns(slots) = open \cup {fd}
  BY <1>1, AppendedSlot
<1>3. ClientOk(sv.db, cl, fd)
  <2>1. cl = Client(fd, a, {}, FALSE, FALSE, <<>>, <<>>, 0)
    BY Zenon DEF NewClient, Client
  <2>2. IsClient(cl)
    BY Zenon, <2>1, SeqFacts DEF IsClient
  <2>3. cl.fd = fd /\ cl.subscriptions = {} /\ cl.in_multi = FALSE
    BY Zenon DEF NewClient
  <2>4. Listens(sv.db.subscribers, fd) = {}
    BY Zenon, <1>1 DEF ClientsOk, Listens
  <2> HIDE DEF cl
  <2> QED BY Zenon, <1>1, <2>2, <2>3, <2>4 DEF ClientOk, Agrees, DbOk
<1> HIDE DEF cl
<1>4. DOMAIN x = open \cup {fd} /\ x[fd] = cl /\ \A g \in open : x[g] = sv.clients[g]
  <2>1. DOMAIN sv.clients = open
    BY Zenon, <1>1 DEF ClientsOk
  <2>2. fd \notin open
    BY Zenon
  <2> HIDE DEF open
  <2> QED BY Zenon, <2>1, <2>2 DEF Put
<1> HIDE DEF x
<1>5. ClientsOk(sv.db, x, open \cup {fd})
  BY Zenon, <1>1, <1>3, <1>4 DEF ClientsOk
<1>6. WaitersOk(sv.waiters, open \cup {fd})
  BY Zenon, <1>1 DEF WaitersOk
<1> HIDE DEF slots
<1>7. /\ IsLoop(mid) /\ mid.fds = slots /\ mid.db = sv.db /\ mid.waiters = sv.waiters
      /\ mid.replicas = sv.replicas
  BY ZenonT(60), <1>1, WithFdsSets
<1> HIDE DEF mid
<1>8. /\ IsLoop(new) /\ new.clients = x /\ new.fds = slots /\ new.db = sv.db
      /\ new.waiters = sv.waiters /\ new.replicas = sv.replicas
  BY <1>7, WithClientsSets
<1> HIDE DEF new
<1>9. Sound(new, F)
  BY Zenon, <1>1, <1>2, <1>5, <1>6, <1>8 DEF Sound
<1> QED BY Zenon, <1>9 DEF new, mid, x, slots, cl

(* The numbers of connections are not that of a free slot. *)
LEMMA FdsAreNumbers ==
  ASSUME workload \in Workloads
  PROVE  Fds \subseteq Nat /\ -1 \notin Fds /\ Requests \subseteq AllRequests \cup SessionRequests
<1>1. Fds \subseteq Nat /\ Requests \subseteq AllRequests \cup SessionRequests
  BY Zenon, LoopAssumption DEF Fds, Requests
<1>2. -1 \notin Nat
  OBVIOUS
<1> QED BY Zenon, <1>1, <1>2

(* A connection is accepted and gets the lowest free fd. *)
LEMMA AcceptKeepsIInv ==
  ASSUME IInv, workload' = workload, Accept
  PROVE  IInv'
<1> DEFINE free == Fds \ Open(run)
           fd   == CHOOSE f \in free : \A g \in free : f <= g
           new  == WithClients(WithFds(run, Append(run.fds, fd)),
                     Put(run.clients, fd, NewClient(fd, default_user_auto_auth(run.db))))
<1>1. /\ phase = "accept" /\ free # {} /\ UNCHANGED <<phase, todo, called, wake, now>>
      /\ \/ HasRoom /\ deaf' = deaf \ {fd}
            /\ run' = [run EXCEPT !.fds = Append(@, fd),
                         !.clients = Put(@, fd, NewClient(fd, default_user_auto_auth(run.db)))]
         \/ run' = run /\ deaf' = deaf
  BY Zenon DEF Accept
<1>2. workload \in Workloads /\ Sound(run, Fds) /\ Len(run.fds) < MAX_FDS /\ deaf \subseteq Fds
      /\ todo \subseteq DOMAIN run.fds
  BY Zenon DEF IInv
<1>3. Fds \subseteq Nat /\ -1 \notin Fds
  BY Zenon, <1>2, FdsAreNumbers
<1>4. phase' # "poll"
  BY Zenon, <1>1
<1>5. CASE run' = run /\ deaf' = deaf
  BY Zenon, <1>1, <1>4, <1>5, Preserved DEF IInv
<1>6. CASE HasRoom /\ deaf' = deaf \ {fd} /\ run' = new
  <2>1. free \in SUBSET Nat
    BY Zenon, <1>3
  <2>2. fd \in free
    <3>1. \E f \in free : \A g \in free : f <= g
      <4> HIDE DEF free
      <4> QED BY Zenon, <1>1, <2>1, LeastExists
    <3> QED BY Zenon, <3>1
  <2>3. fd \in Fds \ Conns(run.fds)
    BY Zenon, <2>2 DEF Open, Conns
  <2> HIDE DEF fd
  <2>4. Sound(new, Fds)
    BY Zenon, <1>2, <1>3, <2>3, AcceptSound
  <2>5. IsLoop(run) /\ SlotsOk(run.fds, Fds)
    BY Zenon, <1>2 DEF Sound
  <2>6. new.fds = Append(run.fds, fd)
    <3> DEFINE mid == WithFds(run, Append(run.fds, fd))
    <3>1. IsLoop(mid) /\ mid.fds = Append(run.fds, fd)
      BY ZenonT(60), <2>5, WithFdsSets
    <3> HIDE DEF mid
    <3>2. new.fds = mid.fds
      BY Zenon, <3>1, WithClientsSets DEF mid
    <3> QED BY Zenon, <3>1, <3>2
  <2>7. Len(new.fds) = Len(run.fds) + 1 /\ DOMAIN run.fds \subseteq DOMAIN new.fds
    <3>1. Len(Append(run.fds, fd)) = Len(run.fds) + 1 /\ DOMAIN run.fds \subseteq DOMAIN Append(run.fds, fd)
      BY Zenon, <1>3, <2>3, <2>5, AppendedSlot
    <3> QED BY Zenon, <2>6, <3>1
  <2> HIDE DEF new
  <2>8. Len(run'.fds) < MAX_FDS
    <3>1. Len(run.fds) + 1 # MAX_FDS
      BY Zenon, <1>6 DEF HasRoom
    <3>2. Len(run.fds) \in Nat
      BY <2>5 DEF SlotsOk
    <3>3. MAX_FDS \in Nat
      BY Zenon, <1>2, LoopAssumption DEF MAX_FDS
    <3> HIDE DEF MAX_FDS
    <3> QED BY <1>2, <1>6, <2>7, <3>1, <3>2, <3>3
  <2>9. Sound(run', Fds) /\ todo' \subseteq DOMAIN run'.fds /\ deaf' \subseteq Fds
    BY Zenon, <1>1, <1>2, <1>6, <2>4, <2>7
  <2> QED BY Zenon, <1>1, <1>4, <2>8, <2>9, Preserved DEF IInv
<1>7. [run EXCEPT !.fds = Append(@, fd),
         !.clients = Put(@, fd, NewClient(fd, default_user_auto_auth(run.db)))] = new
  <2> HIDE DEF fd
  <2>1. IsLoop(run)
    BY Zenon, <1>2 DEF Sound
  <2>2. PICK d, c, f, w, r : run = Loop(d, c, f, w, r)
    BY Zenon, <2>1 DEF IsLoop
  <2> QED BY Zenon, <2>2 DEF Loop, WithFds, WithClients
<1> HIDE DEF new
<1> QED BY Zenon, <1>1, <1>5, <1>6, <1>7

(* No more connections: the slots are next. *)
LEMMA EndAcceptKeepsIInv ==
  ASSUME IInv, workload' = workload, EndAccept
  PROVE  IInv'
<1>1. phase' = "slots" /\ UNCHANGED <<run, todo, called, wake, now, deaf>>
  BY Zenon DEF EndAccept
<1>2. phase' # "poll"
  BY Zenon, <1>1
<1> QED BY Zenon, <1>1, <1>2, Preserved DEF IInv

(* A slot has no more input, or its connection was closed. *)
LEMMA EndSlotKeepsIInv ==
  ASSUME IInv, workload' = workload, EndSlot
  PROVE  IInv'
<1>1. phase = "slots" /\ todo' = todo \ {Slot} /\ UNCHANGED <<run, phase, called, wake, now, deaf>>
  BY Zenon DEF EndSlot
<1>2. phase' # "poll"
  BY Zenon, <1>1
<1>3. todo' \subseteq DOMAIN run'.fds
  BY Zenon, <1>1 DEF IInv
<1> QED BY Zenon, <1>1, <1>2, <1>3, Preserved DEF IInv

(* A connection that ended is closed. *)
LEMMA HangupKeepsIInv ==
  ASSUME IInv, workload' = workload, Hangup
  PROVE  IInv'
<1>1. /\ phase = "slots" /\ run' = close_clients(run, {Fd}) /\ todo' = todo \ {Slot}
      /\ UNCHANGED <<phase, called, wake, now, deaf>>
  BY Zenon DEF Hangup
<1>2. phase' # "poll"
  BY Zenon, <1>1
<1>3. Sound(run', Fds) /\ DOMAIN run'.fds = DOMAIN run.fds /\ Len(run'.fds) = Len(run.fds)
  BY Zenon, <1>1, CloseSound DEF IInv
<1>4. todo' \subseteq DOMAIN run'.fds /\ Len(run'.fds) < MAX_FDS
  BY Zenon, <1>1, <1>3 DEF IInv
<1> QED BY Zenon, <1>1, <1>2, <1>3, <1>4, Preserved DEF IInv

(* A replica acknowledges. *)
LEMMA AckKeepsIInv ==
  ASSUME IInv, workload' = workload, NEW c \in Requests, Ack(c)
  PROVE  IInv'
<1> DEFINE x == IF Fd \in DOMAIN run.replicas THEN [run.replicas EXCEPT ![Fd] = c.offset] ELSE run.replicas
<1>1. /\ phase = "slots" /\ run' = WithReplicas(run, x)
      /\ UNCHANGED <<phase, todo, called, wake, now, deaf>>
  BY Zenon DEF Ack, WithReplicas
<1>2. phase' # "poll"
  BY Zenon, <1>1
<1>3. DOMAIN x = DOMAIN run.replicas
  BY Zenon
<1> HIDE DEF x
<1>4. IsLoop(run) /\ Sound(run, Fds) /\ DOMAIN x \subseteq Conns(run.fds)
  BY Zenon, <1>3 DEF IInv, Sound
<1>5. Sound(run', Fds)
  BY Zenon, <1>1, <1>4, ReplicasSound
<1>6. run'.fds = run.fds
  BY Zenon, <1>1, <1>4, WithReplicasSets
<1> QED BY Zenon, <1>1, <1>2, <1>5, <1>6, Preserved DEF IInv

(* A command is handled. *)
LEMMA CommandKeepsIInv ==
  ASSUME IInv, workload' = workload, NEW c \in Requests, Command(c)
  PROVE  IInv'
<1>1. phase = "slots" /\ UNCHANGED <<phase, called, wake, now, deaf>>
  BY Zenon DEF Command
<1>2. phase' # "poll"
  BY Zenon, <1>1
<1>3. c \in AllRequests \cup SessionRequests
  BY Zenon, FdsAreNumbers DEF IInv
<1>4. /\ Sound(run', Fds) /\ DOMAIN run'.fds = DOMAIN run.fds /\ Len(run'.fds) = Len(run.fds)
      /\ todo' \subseteq todo
  BY Zenon, <1>3, CommandSound DEF IInv
<1>5. todo' \subseteq DOMAIN run'.fds /\ Len(run'.fds) < MAX_FDS
  BY Zenon, <1>4 DEF IInv
<1> QED BY Zenon, <1>1, <1>2, <1>4, <1>5, Preserved DEF IInv

(* Slots may be moved. *)
LEMMA SlotsSound ==
  ASSUME NEW F, NEW sv, Sound(sv, F), NEW x, SlotsOk(x, F), Conns(x) = Conns(sv.fds)
  PROVE  Sound(WithFds(sv, x), F)
<1> DEFINE new == WithFds(sv, x)
<1>1. IsLoop(sv)
  BY Zenon DEF Sound
<1>2. /\ IsLoop(new) /\ new.fds = x /\ new.db = sv.db /\ new.clients = sv.clients
      /\ new.waiters = sv.waiters /\ new.replicas = sv.replicas
  BY ZenonT(60), <1>1, WithFdsSets
<1> HIDE DEF new
<1>3. Sound(new, F)
  BY Zenon, <1>2 DEF Sound
<1> QED BY Zenon, <1>3 DEF new

(* The end of an iteration: server.cpp:776-787. *)
LEMMA EndIterationKeepsIInv ==
  ASSUME Counting, IInv, workload' = workload, EndIteration
  PROVE  IInv'
<1>1. PICK lost \in SUBSET deaf :
        LET served == expire_waiters(serve_waiters(run, lost), now)
            timeout == next_timeout(served.waiters, now)
        IN  /\ run' = [served EXCEPT !.fds = compact(@)]
            /\ wake' = IF timeout < 0 THEN -1 ELSE now + timeout
  BY Zenon DEF EndIteration
<1>2. phase' = "poll" /\ called' = now /\ todo = {} /\ UNCHANGED <<todo, now, deaf>>
  BY Zenon DEF EndIteration
<1> DEFINE sv      == serve_waiters(run, lost)
           served  == expire_waiters(sv, now)
           timeout == next_timeout(served.waiters, now)
           slots   == compact(served.fds)
<1>3. run' = WithFds(served, slots) /\ wake' = IF timeout < 0 THEN -1 ELSE now + timeout
  BY Zenon, <1>1 DEF WithFds
<1>4. /\ workload \in Workloads /\ Sound(run, Fds) /\ Len(run.fds) < MAX_FDS
      /\ now \in Nat /\ deaf \subseteq Fds
  BY Zenon DEF IInv
<1>5. Fds \subseteq Nat
  BY Zenon, <1>4, FdsAreNumbers
<1>6. Served(sv, run, Fds)
  BY Zenon, <1>4, ServeServes
<1> HIDE DEF sv
<1>7. /\ Served(served, run, Fds)
      /\ \A j \in DOMAIN served.waiters :
           served.waiters[j].deadline = -1 \/ now < served.waiters[j].deadline
  BY Zenon, <1>4, <1>6, ExpireServes
<1> HIDE DEF served
<1>8. /\ Sound(served, Fds) /\ served.fds = run.fds /\ IsLoop(served)
      /\ WaitersOk(served.waiters, Conns(served.fds)) /\ SlotsOk(served.fds, Fds)
      /\ \A j \in DOMAIN served.waiters : ~Servable(served, served.waiters[j])
  BY Zenon, <1>7 DEF Served, Sound
<1>9. IsSeq(served.waiters) /\ \A i \in DOMAIN served.waiters : served.waiters[i].deadline \in Nat \cup {-1}
  BY Zenon, <1>8 DEF WaitersOk, IsWaiter
<1>10. timeout \in Int /\ \A i \in DOMAIN served.waiters : InTime(timeout, served.waiters[i], now)
  BY Zenon, <1>4, <1>9, TimeoutInTime
<1> HIDE DEF timeout
<1>11. /\ SlotsOk(slots, Fds) /\ Conns(slots) = Conns(served.fds) /\ Len(slots) <= Len(served.fds)
       /\ \A j \in DOMAIN slots : slots[j] # -1
  BY Zenon, <1>5, <1>8, CompactSlots
<1> HIDE DEF slots
<1>12. Sound(run', Fds)
  BY Zenon, <1>3, <1>8, <1>11, SlotsSound
<1>13. /\ run'.fds = slots /\ run'.waiters = served.waiters /\ run'.db = served.db
       /\ run'.replicas = served.replicas
  BY <1>3, <1>8, WithFdsSets
<1>14. Len(run'.fds) < MAX_FDS
  <2>1. Len(slots) \in Nat /\ Len(run.fds) \in Nat
    BY <1>8, <1>11 DEF SlotsOk
  <2>2. MAX_FDS \in Nat
    BY Zenon, <1>4, LoopAssumption DEF MAX_FDS
  <2> HIDE DEF MAX_FDS
  <2> QED BY <1>4, <1>8, <1>11, <1>13, <2>1, <2>2
<1>15. wake' \in Nat \cup {-1} /\ called' \in 0 .. now' /\ (wake' = -1 \/ now' <= wake')
  BY <1>2, <1>3, <1>4, <1>10
<1>16. Asleep'
  <2>1. \A i \in DOMAIN run'.fds : run'.fds[i] # -1
    BY Zenon, <1>11, <1>13
  <2>2. \A i \in DOMAIN run'.waiters : ~Servable(run', run'.waiters[i])
    <3>1. \A w : Servable(run', w) <=> Servable(served, w)
      BY Zenon, <1>13, SameServable
    <3> QED BY Zenon, <1>8, <1>13, <3>1
  <2>3. ASSUME NEW i \in DOMAIN run'.waiters
        PROVE  LET deadline == run'.waiters[i].deadline
               IN  deadline = -1 \/ deadline - called' > INT_MAX \/ (wake' # -1 /\ wake' <= deadline)
    <3> DEFINE w == served.waiters[i]
    <3>1. /\ InTime(timeout, w, now) /\ w.deadline \in Nat \cup {-1} /\ run'.waiters[i] = w
          /\ w.deadline = -1 \/ now < w.deadline
      BY Zenon, <1>7, <1>9, <1>10, <1>13
    <3> HIDE DEF w
    <3>2. CASE w.deadline # -1 /\ w.deadline - now <= INT_MAX
      <4>1. Remaining(w, now) = w.deadline - now
        BY <1>4, <3>1, <3>2 DEF Remaining
      <4>2. 0 <= timeout /\ timeout <= w.deadline - now
        BY Zenon, <3>1, <3>2, <4>1 DEF InTime
      <4>3. wake' # -1 /\ wake' <= w.deadline
        BY <1>3, <1>4, <1>10, <3>1, <3>2, <4>2
      <4> QED BY Zenon, <3>1, <4>3
    <3>3. CASE ~(w.deadline # -1 /\ w.deadline - now <= INT_MAX)
      BY <1>2, <1>4, <3>1, <3>3, LoopAssumption
    <3> QED BY Zenon, <3>2, <3>3
  <2> QED BY Zenon, <1>15, <2>1, <2>2, <2>3 DEF Asleep
<1>17. todo' \subseteq DOMAIN run'.fds /\ phase' \in {"poll", "accept", "slots"} /\ now' \in Nat /\ deaf' \subseteq Fds
  BY Zenon, <1>2, <1>4
<1> QED BY Zenon, <1>4, <1>12, <1>14, <1>15, <1>16, <1>17, Preserved

(* Every step of the loop keeps the invariant. *)
LEMMA StepKeepsIInv ==
  ASSUME Counting, IInv, [Next]_vars
  PROVE  IInv'
<1>1. CASE UNCHANGED vars
  <2>1. UNCHANGED <<workload, run, phase, todo, called, wake, now, deaf>>
    BY Zenon, <1>1 DEF vars
  <2>2. phase' = "poll" => Asleep'
    BY Zenon, <2>1, StillAsleep
  <2> QED BY Zenon, <2>1, <2>2, Preserved DEF IInv
<1>2. CASE Next
  <2>1. workload' = workload /\ Step
    BY Zenon, <1>2 DEF Next
  <2> QED BY Zenon, <2>1, StallKeepsIInv, TickKeepsIInv, PollKeepsIInv, AcceptKeepsIInv,
             EndAcceptKeepsIInv, EndSlotKeepsIInv, HangupKeepsIInv, AckKeepsIInv,
             CommandKeepsIInv, EndIterationKeepsIInv DEF Step
<1> QED BY Zenon, <1>1, <1>2

(* No message is left behind where every peer reads. *)
Drained == MayStall = {} => deaf = {} /\ run.db.pending_messages = <<>>

(* serve_waiters and the compaction leave the messages alone. *)
LEMMA EndIterationQueues ==
  ASSUME Counting, IInv, EndIteration
  PROVE  run'.db.pending_messages = run.db.pending_messages
<1>1. PICK lost : run' = [expire_waiters(serve_waiters(run, lost), now) EXCEPT !.fds = compact(@)]
  BY Zenon DEF EndIteration
<1> DEFINE sv     == serve_waiters(run, lost)
           served == expire_waiters(sv, now)
           slots  == compact(served.fds)
<1>2. run' = WithFds(served, slots)
  BY Zenon, <1>1 DEF WithFds
<1>3. Sound(run, Fds) /\ now \in Nat
  BY Zenon DEF IInv
<1>4. Served(sv, run, Fds)
  BY Zenon, <1>3, ServeServes
<1> HIDE DEF sv
<1>5. Served(served, run, Fds)
  BY Zenon, <1>3, <1>4, ExpireServes
<1> HIDE DEF served, slots
<1>6. IsLoop(served) /\ served.db.pending_messages = run.db.pending_messages
  BY Zenon, <1>5 DEF Served, Sound
<1>7. run'.db = served.db
  BY Zenon, <1>2, <1>6, WithFdsSets
<1> QED BY Zenon, <1>6, <1>7

(* A connection comes without messages. *)
LEMMA AcceptQueues ==
  ASSUME IInv, Accept
  PROVE  run'.db = run.db /\ deaf' \subseteq deaf
<1>1. IsLoop(run)
  BY Zenon DEF IInv, Sound
<1>2. PICK d, c, f, w, r : run = Loop(d, c, f, w, r)
  BY Zenon, <1>1 DEF IsLoop
<1> QED BY Zenon, <1>2 DEF Accept, Loop

(* An acknowledgement concerns the replicas. *)
LEMMA AckQueues ==
  ASSUME IInv, NEW c, Ack(c)
  PROVE  run'.db = run.db /\ deaf' = deaf
<1>1. IsLoop(run)
  BY Zenon DEF IInv, Sound
<1>2. PICK d, e, f, w, r : run = Loop(d, e, f, w, r)
  BY Zenon, <1>1 DEF IsLoop
<1> QED BY Zenon, <1>2 DEF Ack, Loop

(* Every step of the loop keeps it so. *)
LEMMA StepKeepsDrained ==
  ASSUME Counting, IInv, Drained, [Next]_vars
  PROVE  Drained'
<1> DEFINE Q(sv) == sv.db.pending_messages
<1> SUFFICES ASSUME MayStall' = {} PROVE deaf' = {} /\ Q(run') = <<>>
  BY Zenon DEF Drained
<1>1. CASE UNCHANGED vars
  <2>1. MayStall' = MayStall /\ run' = run /\ deaf' = deaf
    BY Zenon, <1>1 DEF vars, MayStall
  <2> QED BY Zenon, <2>1 DEF Drained
<1>2. CASE Next
  <2>1. workload' = workload /\ Step
    BY Zenon, <1>2 DEF Next
  <2>2. MayStall = {} /\ deaf = {} /\ Q(run) = <<>>
    BY Zenon, <2>1 DEF Drained, MayStall
  <2>3. CASE Tick \/ Poll \/ EndAccept \/ EndSlot
    <3>1. run' = run /\ deaf' = deaf
      BY Zenon, <2>3 DEF Tick, Poll, EndAccept, EndSlot
    <3> QED BY Zenon, <2>2, <3>1
  <2>4. CASE Accept
    BY Zenon, <2>2, <2>4, AcceptQueues
  <2>5. CASE Hangup
    <3>1. run' = close_clients(run, {Fd}) /\ deaf' = deaf
      BY Zenon, <2>5 DEF Hangup
    <3>2. Q(run') = Q(run)
      BY Zenon, <3>1, CloseSound DEF IInv
    <3> QED BY Zenon, <2>2, <3>1, <3>2
  <2>6. ASSUME NEW c \in Requests, Ack(c) PROVE deaf' = {} /\ Q(run') = <<>>
    BY Zenon, <2>2, <2>6, AckQueues
  <2>7. ASSUME NEW c \in Requests, Command(c) PROVE deaf' = {} /\ Q(run') = <<>>
    <3>1. c \in AllRequests \cup SessionRequests
      BY Zenon, FdsAreNumbers DEF IInv
    <3>2. deaf = {} => Q(run') = <<>>
      BY Zenon, <2>7, <3>1, CommandSound DEF IInv
    <3>3. deaf' = deaf
      BY Zenon, <2>7 DEF Command
    <3> QED BY Zenon, <2>2, <3>2, <3>3
  <2>8. CASE EndIteration
    <3>1. deaf' = deaf
      BY Zenon, <2>8 DEF EndIteration
    <3> QED BY Zenon, <2>2, <2>8, <3>1, EndIterationQueues
  <2> HIDE DEF Q
  <2> QED BY Zenon, <2>1, <2>2, <2>3, <2>4, <2>5, <2>6, <2>7, <2>8 DEF Step
<1> QED BY Zenon, <1>1, <1>2

(* What the invariant says, in the terms of EventLoop. *)
LEMMA IInvImplies ==
  ASSUME IInv
  PROVE  /\ TypeOK /\ (Drained => NothingOutlivesItsConnection) /\ SlotsAreTheConnections
         /\ SubscriptionsAgree /\ NobodyWaitsForWhatIsThere /\ NoDeadlineIsSleptThrough
<1>1. Open(run) = Conns(run.fds)
  BY Zenon DEF Open, Conns
<1>2. /\ DbOk(run.db) /\ SlotsOk(run.fds, Fds) /\ ClientsOk(run.db, run.clients, Open(run))
      /\ WaitersOk(run.waiters, Open(run)) /\ DOMAIN run.replicas \subseteq Open(run)
      /\ workload \in Workloads
  BY Zenon, <1>1 DEF IInv, Sound
<1>3. Open(run) \subseteq Fds
  <2>1. run.fds \in Seq(Fds \cup {-1})
    BY Zenon, <1>2 DEF SlotsOk
  <2>2. \A i \in DOMAIN run.fds : run.fds[i] \in Fds \cup {-1}
    BY <2>1
  <2> QED BY Zenon, <2>2 DEF Open
<1>4. TypeOK
  <2>1. run.fds \in Seq(Fds \cup {-1}) /\ run.db.repl_offset \in Nat
    BY Zenon, <1>2 DEF SlotsOk, DbOk
  <2>2. DOMAIN run.clients \subseteq Fds /\ \A fd \in DOMAIN run.clients : run.clients[fd].fd = fd
    BY Zenon, <1>2, <1>3 DEF ClientsOk, ClientOk
  <2>3. \A i \in DOMAIN run.waiters : run.waiters[i].kind \in {"List", "Stream", "Wait"}
    BY Zenon, <1>2 DEF WaitersOk, IsWaiter
  <2> QED BY Zenon, <1>2, <1>3, <2>1, <2>2, <2>3 DEF TypeOK, IInv
<1>5. Drained => NothingOutlivesItsConnection
  BY Zenon, <1>2 DEF NothingOutlivesItsConnection, WaiterFds, ClientsOk, WaitersOk, Drained
<1>6. SlotsAreTheConnections
  BY Zenon, <1>2 DEF SlotsAreTheConnections, SlotsOk, IInv, Asleep
<1>7. SubscriptionsAgree
  <2> SUFFICES ASSUME NEW fd \in DOMAIN run.clients
               PROVE  LET client == run.clients[fd]
                      IN  /\ client.subscriptions = {pair[1] : pair \in {p \in run.db.subscribers : p[2] = fd}}
                          /\ ~(client.in_multi /\ client.subscriptions # {})
    BY Zenon DEF SubscriptionsAgree
  <2>1. ClientOk(run.db, run.clients[fd], fd)
    BY Zenon, <1>2 DEF ClientsOk
  <2> QED BY Zenon, <2>1 DEF ClientOk, Agrees, Listens
<1>8. NobodyWaitsForWhatIsThere
  BY Zenon DEF NobodyWaitsForWhatIsThere, IInv, Asleep
<1>9. NoDeadlineIsSleptThrough
  <2> SUFFICES ASSUME phase = "poll", NEW i \in DOMAIN run.waiters
               PROVE  LET deadline == run.waiters[i].deadline
                      IN  deadline = -1 \/ deadline - called > INT_MAX \/ now <= deadline
    BY Zenon DEF NoDeadlineIsSleptThrough
  <2> DEFINE dl == run.waiters[i].deadline
  <2>1. dl \in Nat \cup {-1}
    BY Zenon, <1>2 DEF WaitersOk, IsWaiter
  <2>2. /\ now \in Nat /\ wake \in Nat \cup {-1} /\ (wake = -1 \/ now <= wake)
        /\ dl = -1 \/ dl - called > INT_MAX \/ (wake # -1 /\ wake <= dl)
    BY Zenon DEF IInv, Asleep
  <2> HIDE DEF dl
  <2>3. dl = -1 \/ dl - called > INT_MAX \/ now <= dl
    BY <2>1, <2>2
  <2> QED BY Zenon, <2>3 DEF dl
<1> QED BY Zenon, <1>4, <1>5, <1>6, <1>7, <1>8, <1>9

-------------------------------------------------------------------------------
(* Who waits longest is served first. *)

(* Of those in W, who wait for the lists K, the state b keeps the last of  *)
(* those among the waiters so far, pre, and whoever is kept waits in vain. *)
Trails(b, pre, W, K, R) ==
  /\ IsSeq(pre) /\ \A j \in DOMAIN b.waiters : b.waiters[j] \in R
  /\ Ends(Chosen(b.waiters, W), Chosen(pre, W))
  /\ Chosen(b.waiters, W) # <<>> => Ready(b.db.data, K) = {}

(* A round of serve_waiters keeps it so. *)
LEMMA ServeRoundTrails ==
  ASSUME NEW F, NEW sv, NEW b, Served(b, sv, F), NEW pre, NEW W, NEW K, NEW R, Trails(b, pre, W, K, R),
         NEW w \in R, IsWaiter(w), w.fd \in Conns(sv.fds), w \in W => w.kind = "List" /\ w.keys = K,
         NEW lost
  PROVE  Trails(ServeRound(b, w, lost), Append(pre, w), W, K, R)
<1> DEFINE new  == ServeRound(b, w, lost)
           kept == Chosen(b.waiters, W)
           had  == Chosen(pre, W)
           more == Append(pre, w)
<1>1. Sound(b, F) /\ b.fds = sv.fds /\ IsLoop(b) /\ IsSeq(b.waiters)
  BY Zenon DEF Served, Sound, WaitersOk
<1>2. IsSeq(more) /\ Chosen(more, W) = IF w \in W THEN Append(had, w) ELSE had
  BY Zenon, SeqFacts, ChosenAppend DEF Trails
<1>3. Ends(kept, had) /\ (kept # <<>> => Ready(b.db.data, K) = {})
      /\ \A j \in DOMAIN b.waiters : b.waiters[j] \in R
  BY Zenon DEF Trails
<1>4. \A ks : w.kind = "List" /\ w.keys = ks => (Servable(b, w) <=> Ready(b.db.data, ks) # {})
  BY Zenon DEF Servable
<1> HIDE DEF more, had
<1>5. CASE ~Servable(b, w)
  <2> DEFINE x == Append(b.waiters, w)
  <2>1. new = WithWaiters(b, x)
    BY Zenon, <1>5 DEF ServeRound
  <2>2. Chosen(x, W) = IF w \in W THEN Append(kept, w) ELSE kept
    BY Zenon, <1>1, ChosenAppend
  <2>3. \A j \in DOMAIN x : x[j] \in R
    <3>1. PICK T : b.waiters \in Seq(T)
      BY Zenon, <1>1 DEF IsSeq
    <3>2. /\ DOMAIN x = DOMAIN b.waiters \cup {Len(b.waiters) + 1} /\ x[Len(b.waiters) + 1] = w
          /\ \A j \in DOMAIN b.waiters : x[j] = b.waiters[j]
      BY <3>1
    <3> HIDE DEF x
    <3> QED BY Zenon, <1>3, <3>2
  <2> HIDE DEF x, kept
  <2>4. new.waiters = x /\ new.db = b.db
    BY <1>1, <2>1, WithWaitersSets
  <2> HIDE DEF new
  <2>5. CASE w \in W
    <3>1. Ends(Chosen(x, W), Chosen(more, W))
      BY ZenonT(60), <1>2, <1>3, <2>2, <2>5, EndsFacts
    <3>2. Ready(b.db.data, K) = {}
      BY Zenon, <1>4, <1>5, <2>5
    <3>3. Trails(new, more, W, K, R)
      BY Zenon, <1>2, <2>3, <2>4, <3>1, <3>2 DEF Trails
    <3> QED BY Zenon, <3>3 DEF new, more
  <2>6. CASE w \notin W
    <3>1. Chosen(x, W) = kept /\ Chosen(more, W) = had
      BY Zenon, <1>2, <2>2, <2>6
    <3>2. Trails(new, more, W, K, R)
      BY Zenon, <1>2, <1>3, <2>3, <2>4, <3>1 DEF Trails
    <3> QED BY Zenon, <3>2 DEF new, more
  <2> QED BY Zenon, <2>5, <2>6
<1>6. CASE Servable(b, w)
  <2>1. new.waiters = b.waiters /\ Ready(new.db.data, K) \subseteq Ready(b.db.data, K)
    <3>1. CASE w.kind = "List"
      <4>1. new = Pop(b, w, lost)
        BY Zenon, <1>6, <3>1 DEF ServeRound
      <4>2. IsSeq(w.keys) /\ Ready(b.db.data, w.keys) # {} /\ w.fd \in Conns(b.fds)
        BY Zenon, <1>1, <1>4, <1>6, <3>1 DEF IsWaiter
      <4>3. Fewer(new, b) /\ new.waiters = b.waiters
        BY <1>1, <4>1, <4>2, PopSound
      <4> QED BY Zenon, <4>3 DEF Fewer
    <3>2. CASE w.kind # "List"
      <4>1. new = b
        BY Zenon, <1>6, <3>2 DEF ServeRound
      <4> QED BY Zenon, <4>1
    <3> QED BY Zenon, <3>1, <3>2
  <2> HIDE DEF new
  <2>2. Ends(kept, Chosen(more, W))
    <3>1. CASE w \in W
      <4>1. kept = <<>>
        BY Zenon, <1>3, <1>4, <1>6, <3>1
      <4> QED BY <1>2, <1>3, <3>1, <4>1, EndsFacts
    <3>2. CASE w \notin W
      BY Zenon, <1>2, <1>3, <3>2
    <3> QED BY Zenon, <3>1, <3>2
  <2>3. kept # <<>> => Ready(new.db.data, K) = {}
    BY Zenon, <1>3, <2>1
  <2>4. Trails(new, more, W, K, R)
    BY Zenon, <1>2, <1>3, <2>1, <2>2, <2>3 DEF Trails
  <2> QED BY Zenon, <2>4 DEF new, more
<1> QED BY Zenon, <1>5, <1>6

(* The whole loop. *)
LEMMA ServeTrails ==
  ASSUME Counting, NEW F, NEW sv, Sound(sv, F), NEW lost, NEW W, NEW K, NEW R,
         \A i \in DOMAIN sv.waiters : sv.waiters[i] \in R,
         \A w \in W : w.kind = "List" /\ w.keys = K
  PROVE  Trails(serve_waiters(sv, lost), sv.waiters, W, K, R)
<1> DEFINE ws    == sv.waiters
           n     == Len(ws)
           start == WithWaiters(sv, <<>>)
           after == CHOOSE f : f = [i \in 0 .. n |-> IF i = 0 THEN start
                                                     ELSE ServeRound(f[i - 1], ws[i], lost)]
           pre(i) == SubSeq(ws, 1, i)
           S     == {i \in 0 .. n : Served(after[i], sv, F) /\ Trails(after[i], pre(i), W, K, R)}
<1>1. WaitersOk(ws, Conns(sv.fds)) /\ IsLoop(sv) /\ IsSeq(ws)
  BY Zenon DEF Sound, WaitersOk
<1>2. /\ n \in Nat /\ DOMAIN ws = 1 .. n /\ pre(0) = <<>> /\ pre(n) = ws
      /\ \A i \in 0 .. n - 1 : pre(i + 1) = Append(pre(i), ws[i + 1])
  BY Zenon, <1>1, Prefixes
<1>3. after = [i \in 0 .. n |-> IF i = 0 THEN start ELSE ServeRound(after[i - 1], ws[i], lost)]
  <2>1. \E f : Serving(f, n, sv, lost)
    BY Zenon, <1>2, ServeRounds
  <2> QED BY Zenon, <2>1 DEF Serving
<1>4. serve_waiters(sv, lost) = after[n]
  BY Zenon DEF serve_waiters, ServeRound, WithWaiters
<1>5. Served(start, sv, F) /\ Trails(start, <<>>, W, K, R)
  <2>1. DOMAIN <<>> = {} /\ Len(<<>>) = 0 /\ 0 <= 0 /\ 1 .. 0 = {}
    OBVIOUS
  <2>2. WaitersOk(<<>>, Conns(sv.fds))
    BY Zenon, <2>1, SeqFacts DEF WaitersOk
  <2>3. Sound(start, F)
    BY Zenon, <2>2, WaitersSound
  <2>4. start.fds = sv.fds /\ start.waiters = <<>> /\ start.db = sv.db
    BY ZenonT(60), <1>1, WithWaitersSets
  <2> HIDE DEF start
  <2>5. Ends(<<>>, <<>>)
    BY Zenon, <2>1, SeqFacts DEF Ends
  <2>6. Trails(start, <<>>, W, K, R)
    BY Zenon, <2>1, <2>4, <2>5, SeqFacts, ChosenOfNone DEF Trails
  <2> QED BY Zenon, <2>1, <2>3, <2>4, <2>6 DEF Served
<1> HIDE DEF after, n, start, pre
<1>6. 0 \in S
  <2>1. 0 \in 0 .. n
    BY <1>2
  <2> QED BY Zenon, <1>2, <1>3, <1>5, <2>1
<1>7. ASSUME NEW i \in 0 .. n - 1, i \in S PROVE i + 1 \in S
  <2>1. i + 1 \in 0 .. n /\ i + 1 # 0 /\ (i + 1) - 1 = i /\ i + 1 \in DOMAIN ws
    BY <1>2
  <2>2. after[i + 1] = ServeRound(after[i], ws[i + 1], lost) /\ pre(i + 1) = Append(pre(i), ws[i + 1])
    BY Zenon, <1>2, <1>3, <2>1
  <2>3. IsWaiter(ws[i + 1]) /\ ws[i + 1].fd \in Conns(sv.fds) /\ ws[i + 1] \in R
    BY Zenon, <1>1, <2>1 DEF WaitersOk
  <2>4. Served(after[i], sv, F) /\ Trails(after[i], pre(i), W, K, R)
    BY Zenon, <1>7
  <2> HIDE DEF ws
  <2>5. Served(after[i + 1], sv, F)
    BY Zenon, <2>2, <2>3, <2>4, ServeRoundServes
  <2>6. Trails(after[i + 1], pre(i + 1), W, K, R)
    BY Zenon, <2>2, <2>3, <2>4, ServeRoundTrails
  <2> QED BY Zenon, <2>1, <2>5, <2>6
<1>8. n \in S
  <2>1. \A i \in 0 .. n : i \in S
    <3> HIDE DEF S
    <3> QED BY Zenon, <1>2, <1>6, <1>7, UpTo
  <2>2. n \in 0 .. n
    BY <1>2
  <2> QED BY Zenon, <2>1, <2>2
<1>9. Trails(after[n], pre(n), W, K, R)
  BY Zenon, <1>8
<1> QED BY Zenon, <1>2, <1>4, <1>9

(* Those in R that wait for the lists K for good. *)
Patient(R, K) == {w \in R : w.kind = "List" /\ w.keys = K /\ w.deadline = -1}

(* They are the waiters for K, when all waiters are in R. *)
LEMMA WaitingIsChosen ==
  ASSUME NEW sv, NEW R, \A i \in DOMAIN sv.waiters : sv.waiters[i] \in R, NEW K
  PROVE  WaitingFor(sv, K) = Chosen(sv.waiters, Patient(R, K))
<1> DEFINE W == Patient(R, K)
           P == {i \in DOMAIN sv.waiters :
                   sv.waiters[i].kind = "List" /\ sv.waiters[i].keys = K /\ sv.waiters[i].deadline = -1}
           Q == {i \in DOMAIN sv.waiters : sv.waiters[i] \in W}
<1>1. \A i : i \in P <=> i \in Q
  BY Zenon DEF Patient
<1>2. WaitingFor(sv, K) = Kept(sv.waiters, P)
  BY Zenon DEF WaitingFor
<1>3. Chosen(sv.waiters, W) = Kept(sv.waiters, Q)
  BY Zenon DEF Chosen
<1> HIDE DEF P, Q
<1>4. P = Q
  BY Zenon, <1>1
<1> HIDE DEF W
<1>5. WaitingFor(sv, K) = Chosen(sv.waiters, W)
  BY Zenon, <1>2, <1>3, <1>4
<1> QED BY Zenon, <1>5 DEF W

(* An iteration ends: serve_waiters and expire_waiters. *)
LEMMA EndIterationTrails ==
  ASSUME Counting, IInv, EndIteration, NEW K
  PROVE  LET before == WaitingFor(run, K)
             after  == WaitingFor(run', K)
         IN  after = SubSeq(before, Len(before) - Len(after) + 1, Len(before))
<1>1. PICK lost \in SUBSET deaf :
        LET served == expire_waiters(serve_waiters(run, lost), now)
            timeout == next_timeout(served.waiters, now)
        IN  /\ run' = [served EXCEPT !.fds = compact(@)]
            /\ wake' = IF timeout < 0 THEN -1 ELSE now + timeout
  BY Zenon DEF EndIteration
<1> DEFINE sv     == serve_waiters(run, lost)
           waits  == {i \in DOMAIN sv.waiters : sv.waiters[i].deadline = -1 \/ now < sv.waiters[i].deadline}
           kept   == Kept(sv.waiters, waits)
           served == WithWaiters(sv, kept)
           R      == {run.waiters[i] : i \in DOMAIN run.waiters}
           W      == Patient(R, K)
<1>2. run' = WithFds(served, compact(served.fds))
  BY Zenon, <1>1 DEF expire_waiters, WithWaiters, WithFds
<1>3. Sound(run, Fds)
  BY Zenon DEF IInv
<1>4. Served(sv, run, Fds)
  BY Zenon, <1>3, ServeServes
<1>5. \A i \in DOMAIN run.waiters : run.waiters[i] \in R
  BY Zenon
<1>6. \A w \in W : w.kind = "List" /\ w.keys = K /\ w.deadline = -1
  BY Zenon DEF Patient
<1>7. WaitingFor(run, K) = Chosen(run.waiters, W)
  <2> HIDE DEF R
  <2> QED BY Zenon, <1>5, WaitingIsChosen
<1> HIDE DEF W, R
<1>8. Trails(sv, run.waiters, W, K, R)
  BY Zenon, <1>3, <1>5, <1>6, ServeTrails
<1> HIDE DEF sv
<1>9. IsLoop(sv) /\ IsSeq(sv.waiters)
  BY Zenon, <1>4 DEF Served, Sound, WaitersOk
<1>10. Chosen(kept, W) = Chosen(sv.waiters, W)
  <2>1. \A i \in DOMAIN sv.waiters : sv.waiters[i] \in W => i \in waits
    BY Zenon, <1>6
  <2> HIDE DEF waits
  <2> QED BY Zenon, <1>9, <2>1, ChosenOfKept
<1>11. \A j \in DOMAIN kept : kept[j] \in R
  <2> HIDE DEF waits
  <2>1. \A j \in DOMAIN kept : \E i \in DOMAIN sv.waiters : i \in waits /\ kept[j] = sv.waiters[i]
    BY <1>9, KeptElements
  <2> HIDE DEF kept
  <2> QED BY Zenon, <1>8, <2>1 DEF Trails
<1> HIDE DEF kept, waits
<1>12. IsLoop(served) /\ served.waiters = kept
  BY ZenonT(60), <1>9, WithWaitersSets
<1> HIDE DEF served
<1>13. run'.waiters = kept
  BY Zenon, <1>2, <1>12, WithFdsSets
<1>14. WaitingFor(run', K) = Chosen(kept, W)
  <2>1. \A i \in DOMAIN run'.waiters : run'.waiters[i] \in R
    BY Zenon, <1>11, <1>13
  <2>2. WaitingFor(run', K) = Chosen(run'.waiters, W)
    BY Zenon, <2>1, WaitingIsChosen DEF W
  <2> QED BY Zenon, <1>13, <2>2
<1>15. Ends(WaitingFor(run', K), WaitingFor(run, K))
  BY Zenon, <1>7, <1>8, <1>10, <1>14 DEF Trails
<1> QED BY Zenon, <1>15, EndsFacts

(* No other step leaves the slots for poll. *)
LEMMA OnlyEndIterationSleeps ==
  ASSUME [Next]_vars, phase = "slots", phase' = "poll"
  PROVE  EndIteration
<1>1. phase' # phase
  BY Zenon
<1>2. Next
  BY Zenon, <1>1 DEF vars
<1>3. Step
  BY Zenon, <1>2 DEF Next
<1>4. /\ \A fd : GoDeaf(fd) => phase' = phase
      /\ \A c : Ack(c) \/ Command(c) => phase' = phase
      /\ EndSlot \/ Hangup => phase' = phase
      /\ Tick \/ Poll => phase = "poll"
      /\ Accept => phase' = phase
      /\ EndAccept => phase' = "slots"
  BY Zenon DEF GoDeaf, Ack, Command, EndSlot, Hangup, Tick, Poll, Accept, EndAccept
<1>5. ~(Tick \/ Poll) /\ ~EndAccept
  BY Zenon, <1>4
<1> QED BY Zenon, <1>1, <1>3, <1>4, <1>5 DEF Step

-------------------------------------------------------------------------------
(* Finite sets. *)
Sets == INSTANCE FiniteSetTheorems

(* The two names of a notion are one. *)
LEMMA SetsCardinality ==
  \A S : Sets!Cardinality(S) = Cardinality(S) /\ (Sets!IsFiniteSet(S) <=> IsFiniteSet(S))
<1>1. \A S : Sets!Cardinality(S) = Cardinality(S)
  BY Zenon DEF Sets!Cardinality, Cardinality
<1>2. \A S : Sets!IsFiniteSet(S) <=> IsFiniteSet(S)
  BY Zenon DEF Sets!IsFiniteSet, IsFiniteSet
<1> QED BY Zenon, <1>1, <1>2

(* The replicas counted are finitely many, as are the slots. *)
LEMMA CountingHolds == Counting
<1>1. ASSUME NEW S, NEW T, IsFiniteSet(T), S \subseteq T
      PROVE  IsFiniteSet(S) /\ Cardinality(S) \in Nat /\ Cardinality(S) <= Cardinality(T)
  <2>1. Sets!IsFiniteSet(T) /\ S \in SUBSET T
    BY Zenon, <1>1, SetsCardinality
  <2>2. Sets!IsFiniteSet(S) /\ Sets!Cardinality(S) <= Sets!Cardinality(T)
    BY Zenon, <2>1, Sets!FS_Subset
  <2>3. Sets!Cardinality(S) \in Nat
    BY Zenon, <2>2, Sets!FS_CardinalityType
  <2> QED BY Zenon, <2>2, <2>3, SetsCardinality
<1>2. ASSUME NEW fds, IsSeq(fds) PROVE IsFiniteSet(Conns(fds))
  <2> DEFINE R == {fds[i] : i \in DOMAIN fds}
  <2>1. fds \in Seq(R) /\ DOMAIN fds = 1 .. Len(fds)
    <3>1. PICK T : fds \in Seq(T)
      BY Zenon, <1>2 DEF IsSeq
    <3>2. Len(fds) \in Nat /\ DOMAIN fds = 1 .. Len(fds) /\ fds = [i \in 1 .. Len(fds) |-> fds[i]]
      BY <3>1
    <3>3. \A i \in 1 .. Len(fds) : fds[i] \in R
      BY Zenon, <3>2
    <3> HIDE DEF R
    <3> QED BY <3>2, <3>3
  <2>2. IsFiniteSet(R)
    BY Zenon, <2>1 DEF IsFiniteSet
  <2>3. Conns(fds) \subseteq R
    BY Zenon DEF Conns
  <2> QED BY Zenon, <1>1, <2>2, <2>3
<1> QED BY Zenon, <1>1, <1>2 DEF Counting

-------------------------------------------------------------------------------
(* What the loop of Server::run (server.cpp:425-787) keeps true, however   *)
(* connections come, go, stall and talk: the invariant below.              *)
THEOREM Invariance == Spec => []IInv
<1>1. IInv /\ [Next]_vars => IInv'
  BY Zenon, CountingHolds, StepKeepsIInv
<1> QED BY InitIInv, <1>1, PTL DEF Spec

(* The variables of run() hold what they are declared to: the array of     *)
(* slots never overflows, whatever number of connections ask to be         *)
(* accepted (server.cpp:469).                                              *)
THEOREM TypeCorrect == Spec => []TypeOK
<1>1. IInv => TypeOK
  BY Zenon, IInvImplies
<1> QED BY <1>1, Invariance, PTL

(* No client, waiter, replica or subscription is left without its          *)
(* connection: close_client (server.cpp:283) forgets them, whoever stalls. *)
(* Queued messages it leaves alone, and none is left between two commands  *)
(* where every peer reads: deliver_messages sends them all.                *)
THEOREM ClosedIsForgotten == Spec => []NothingOutlivesItsConnection
<1>1. Init => Drained
  <2> SUFFICES ASSUME Init PROVE Drained
    BY Zenon
  <2>1. deaf = {} /\ run.db = NewDb(EmptyStore)
    BY Zenon DEF Init
  <2>2. NewDb(EmptyStore).pending_messages = <<>>
    BY Zenon DEF NewDb
  <2> QED BY Zenon, <2>1, <2>2 DEF Drained
<1>2. IInv /\ Drained /\ [Next]_vars => Drained'
  BY Zenon, CountingHolds, StepKeepsDrained
<1>3. IInv /\ Drained => NothingOutlivesItsConnection
  BY Zenon, IInvImplies
<1> QED BY <1>1, <1>2, <1>3, Invariance, PTL DEF Spec

(* The compaction of the slots (server.cpp:779-786) leaves every open      *)
(* connection one slot and no free slot between them.                      *)
THEOREM CompactionIsExact == Spec => []SlotsAreTheConnections
<1>1. IInv => SlotsAreTheConnections
  BY Zenon, IInvImplies
<1> QED BY <1>1, Invariance, PTL

(* What a client is told it subscribed to is what the store delivers to    *)
(* it, and no subscriber is in MULTI (pubsub.cpp, command.cpp:206-248).    *)
THEOREM StoreKnowsItsSubscribers == Spec => []SubscriptionsAgree
<1>1. IInv => SubscriptionsAgree
  BY Zenon, IInvImplies
<1> QED BY <1>1, Invariance, PTL

(* The server never goes to sleep on a client it could serve               *)
(* (serve_waiters, server.cpp:776).                                        *)
THEOREM SleepsOnlyOnEmpty == Spec => []NobodyWaitsForWhatIsThere
<1>1. IInv => NobodyWaitsForWhatIsThere
  BY Zenon, IInvImplies
<1> QED BY <1>1, Invariance, PTL

(* The timeout handed to poll (next_timeout, server.cpp:400) ends before   *)
(* every deadline an int can express.                                      *)
THEOREM WakesInTime == Spec => []NoDeadlineIsSleptThrough
<1>1. IInv => NoDeadlineIsSleptThrough
  BY Zenon, IInvImplies
<1> QED BY <1>1, Invariance, PTL

(* Of the clients that wait for the same lists for good, an iteration      *)
(* serves those that came first (serve_waiters, server.cpp:336), however   *)
(* many they are and whoever else waits.                                   *)
THEOREM ServedInOrder == Spec => LongestWaiterFirst
<1>1. IInv /\ [Next]_vars =>
        [phase = "slots" /\ phase' = "poll" =>
           \A i \in DOMAIN run.waiters :
             LET before == WaitingFor(run, run.waiters[i].keys)
                 after  == WaitingFor(run', run.waiters[i].keys)
             IN  after = SubSeq(before, Len(before) - Len(after) + 1, Len(before))]_vars
  BY Zenon, CountingHolds, OnlyEndIterationSleeps, EndIterationTrails
<1> QED BY <1>1, Invariance, PTL DEF Spec, LongestWaiterFirst

===============================================================================
