------------------------------ MODULE Replication ------------------------------
(***************************************************************************)
(* A primary, its replicas and the links between them: connect_to_master   *)
(* and the branch for master_fd_ of Server::run (src/server/server.cpp) on *)
(* the replicas; PSYNC, REPLCONF ACK, WAIT and the propagation of writes   *)
(* on the primary (also src/replication/replication.cpp).                  *)
(*                                                                         *)
(* A link is a connection with a queue in each direction.  It may break,   *)
(* which loses the end of both queues; a replica may die at any step and   *)
(* start again; a send of the primary may fail because the replica does    *)
(* not read.  What is written is left out: a command is its position in    *)
(* the stream of propagated commands, and offsets count commands.          *)
(*                                                                         *)
(* The primary is the event loop of EventLoop with one kind of waiter: a   *)
(* handler is one step, and the end of an iteration serves the waiters.    *)
(***************************************************************************)
EXTENDS Integers, Sequences, FiniteSets

CONSTANTS Replicas,    \* servers started with --replicaof
          Clients,     \* clients of the primary
          Counts,      \* the numbers of replicas WAIT asks for
          MaxLinks,    \* bound on the number of links
          MaxStream,   \* bound on the commands propagated, GETACKs included
          MaxBatch,    \* bound on the writes of a transaction
          MaxWaits,    \* bound on the waiters there are at a time
          Scenarios    \* what a behaviour has room for, the first value of budget

(* A budget: the replicas that are ever started, the bounds on the links   *)
(* and on the commands propagated, and how many changes of the password,   *)
(* sends that fail and other faults are still to come.                     *)
Budgets == [replicas : SUBSET Replicas, links : 0 .. MaxLinks, stream : 0 .. MaxStream,
            flips : Nat, stalls : Nat, faults : Nat]

ASSUME ReplicationAssumption ==
  /\ Counts \subseteq Nat /\ MaxLinks \in Nat /\ MaxStream \in Nat /\ MaxBatch \in Nat /\ MaxWaits \in Nat
  /\ Scenarios \subseteq Budgets

Links == 1 .. MaxLinks

VARIABLES
  stream,     \* primary: the commands propagated, each "write" or "getack"; its
              \* length is master_repl_offset_
  clients,    \* primary: clients[fd].authenticated, for the links accepted
  replicas,   \* primary: the offset each replica acknowledged, by link
  offsets,    \* primary: ClientState::repl_offset of the other clients
  waiters,    \* primary: those of WAIT; at is the position of their GETACK
  locked,     \* primary: the default user has a password
  budget,     \* what the behaviour still has room for
  links,      \* the number of links so far
  pending,    \* the links not accepted yet
  ended,      \* the links closed at one end at least, or broken
  down, up,   \* what is under way on each link, to and from the replica
  rep,        \* for each replica: what it does, its link (0 for none) and
              \* replica_offset
  have,       \* history: the position in the stream reached on each link
  joined,     \* history: the position it started from
  applied,    \* history: the positions of the writes executed
  answers     \* history: what the last step answered to WAIT, pairs <<number
              \* of replicas, target offset>>

network == <<links, pending, ended, down, up>>
history == <<have, joined, applied>>
vars    == <<stream, clients, replicas, offsets, waiters, locked, budget, network, rep,
             history, answers>>

(* A fault occurs; or n sends fail, which may be none. *)
Fault     == budget.faults > 0 /\ budget' = [budget EXCEPT !.faults = @ - 1]
Stalls(n) == budget.stalls >= n /\ budget' = [budget EXCEPT !.stalls = @ - n]

Without(f, S) == [x \in DOMAIN f \ S |-> f[x]]
Put(f, x, v)  == [y \in DOMAIN f \cup {x} |-> IF y = x THEN v ELSE f[y]]

-------------------------------------------------------------------------------
(* Links.  What is sent on a link that has ended goes nowhere; what was    *)
(* sent before can still be read.                                          *)

Item(kind, n) == [kind |-> kind, n |-> n]

Sent(queues, c, items) ==
  IF c \in ended THEN queues ELSE [queues EXCEPT ![c] = @ \o items]

-------------------------------------------------------------------------------
(* The primary *)

(* Mutant of send_to_replicas: a replica that cannot be sent to is kept. *)
SendKeeping(kind, n, reach) ==
  /\ stream'   = stream \o [i \in 1 .. n |-> kind]
  /\ replicas' = replicas
  /\ down'     = [c \in Links |->
                    IF c \in DOMAIN replicas \ ended
                    THEN down[c] \o [i \in 1 .. reach[c] |-> Item(kind, Len(stream) + i)]
                    ELSE down[c]]
  /\ Stalls(Cardinality({c \in DOMAIN replicas : reach[c] < n}))

(* n commands of a kind, those of a transaction one by one.  The offset    *)
(* grows, and a replica is sent the first reach[c] of them; if the next    *)
(* cannot be sent it is forgotten, but its connection stays.  (What of it  *)
(* was delivered is no whole command.)                                     *)
send_to_replicas(kind, n, reach) ==
  /\ stream'   = stream \o [i \in 1 .. n |-> kind]
  /\ replicas' = Without(replicas, {c \in DOMAIN replicas : reach[c] < n})
  /\ down'     = [c \in Links |->
                    IF c \in DOMAIN replicas \ ended
                    THEN down[c] \o [i \in 1 .. reach[c] |-> Item(kind, Len(stream) + i)]
                    ELSE down[c]]
  /\ Stalls(Cardinality({c \in DOMAIN replicas : reach[c] < n}))

(* Mutant of count_acked: the last write needs no acknowledgement. *)
CountAllButOne(target) == Cardinality({c \in DOMAIN replicas : replicas[c] + 1 >= target})

count_acked(target) == Cardinality({c \in DOMAIN replicas : replicas[c] >= target})

(* A write, or a transaction of several. *)
Write(cl) ==
  \E n \in 1 .. MaxBatch : \E reach \in [DOMAIN replicas -> 0 .. n] :
    /\ Len(stream) + n <= budget.stream
    /\ send_to_replicas("write", n, reach)
    /\ offsets' = [offsets EXCEPT ![cl] = Len(stream')]
    /\ answers' = {}
    /\ UNCHANGED <<clients, waiters, locked, links, pending, ended, up, rep, history>>

(* WAIT that needs not wait: there is no replica, or enough of them have   *)
(* acknowledged the writes of the client.                                  *)
WaitAnswered(cl) ==
  \E count \in Counts :
    /\ DOMAIN replicas = {} \/ count_acked(offsets[cl]) >= count
    /\ answers' = {<<count_acked(offsets[cl]), offsets[cl]>>}
    /\ UNCHANGED <<stream, clients, replicas, offsets, waiters, locked, budget, network, rep, history>>

(* WAIT that waits: it asks the replicas for acknowledgements. *)
WaitBlocks(cl) ==
  \E count \in Counts, timed \in BOOLEAN, reach \in [DOMAIN replicas -> 0 .. 1] :
    /\ DOMAIN replicas # {} /\ count_acked(offsets[cl]) < count
    /\ Cardinality(waiters) < MaxWaits /\ Len(stream) < budget.stream
    /\ send_to_replicas("getack", 1, reach)
    /\ waiters' = waiters \cup {[client |-> cl, count |-> count, target |-> offsets[cl],
                                 timed |-> timed, at |-> Len(stream')]}
    /\ answers' = {}
    /\ UNCHANGED <<clients, offsets, locked, links, pending, ended, up, rep, history>>

(* ACL SETUSER.  Connections that are authenticated stay so. *)
Flip ==
  /\ budget.flips > 0 /\ budget' = [budget EXCEPT !.flips = @ - 1]
  /\ locked' = ~locked /\ answers' = {}
  /\ UNCHANGED <<stream, clients, replicas, offsets, waiters, network, rep, history>>

(* A connection is accepted, or closed at once if there are too many. *)
Accept(c) ==
  /\ c \in pending /\ pending' = pending \ {c}
  /\ \/ clients' = Put(clients, c, ~locked) /\ UNCHANGED <<ended, up, budget>>
     \/ ended' = ended \cup {c} /\ up' = [up EXCEPT ![c] = <<>>] /\ UNCHANGED clients /\ Fault
  /\ answers' = {}
  /\ UNCHANGED <<stream, replicas, offsets, waiters, locked, links, down, rep, history>>

(* Mutant of CloseClient: the replica stays registered. *)
CloseUnregistered(c) ==
  /\ clients' = Without(clients, {c}) /\ replicas' = replicas
  /\ ended' = ended \cup {c} /\ up' = [up EXCEPT ![c] = <<>>]
  /\ UNCHANGED <<down, history>>

(* close_client of the primary. *)
CloseClient(c) ==
  /\ clients' = Without(clients, {c}) /\ replicas' = Without(replicas, {c})
  /\ ended' = ended \cup {c} /\ up' = [up EXCEPT ![c] = <<>>]
  /\ UNCHANGED <<down, history>>

Permitted(c) == clients[c] \/ ~locked

(* Mutant of handle_psync: the offset announced is that of the next command. *)
PsyncAhead(n) == <<Item("fullresync", n + 1), Item("rdb", 0)>>

(* The reply to PSYNC, at an offset. *)
handle_psync(n) == <<Item("fullresync", n), Item("rdb", 0)>>

(* Mutant of Reply: every REPLCONF is silent. *)
ReplySilent(c, kind) ==
  CASE ~Permitted(c)                       -> <<Item("error", 0)>>
    [] Permitted(c) /\ kind = "PSYNC"      -> handle_psync(Len(stream))
    [] Permitted(c) /\ kind = "PING"       -> <<Item("line", 0)>>
    [] Permitted(c) /\ kind \in {"REPLCONF", "ACK"} -> <<>>

(* The reply to a request of a replica; REPLCONF ACK has one only if it is *)
(* refused.                                                                *)
Reply(c, kind) ==
  CASE ~Permitted(c)                       -> <<Item("error", 0)>>
    [] Permitted(c) /\ kind = "PSYNC"      -> handle_psync(Len(stream))
    [] Permitted(c) /\ kind \in {"PING", "REPLCONF"} -> <<Item("line", 0)>>
    [] Permitted(c) /\ kind = "ACK"        -> <<>>

(* A request from a link: one of the handshake, of which PSYNC registers a *)
(* replica with the present offset, or an acknowledgement.  If the reply   *)
(* cannot be sent the connection is closed.                                *)
Request(c) ==
  /\ c \in DOMAIN clients /\ up[c] # <<>>
  /\ LET request == Head(up[c])
         joins   == Permitted(c) /\ request.kind = "PSYNC"
         acks    == Permitted(c) /\ request.kind = "ACK" /\ c \in DOMAIN replicas
         reply   == Reply(c, request.kind)
     IN  \/ /\ down' = Sent(down, c, reply)
            /\ up'   = [up EXCEPT ![c] = Tail(@)]
            /\ replicas' = IF joins THEN Put(replicas, c, Len(stream))
                           ELSE IF acks THEN [replicas EXCEPT ![c] = request.n] ELSE replicas
            /\ have'     = IF joins THEN Put(have, c, Len(stream)) ELSE have
            /\ joined'   = IF joins THEN Put(joined, c, Len(stream)) ELSE joined
            /\ applied'  = IF joins THEN Put(applied, c, <<>>) ELSE applied
            /\ UNCHANGED <<clients, ended, budget>>
         \/ reply # <<>> /\ CloseClient(c) /\ Stalls(1)
  /\ answers' = {}
  /\ UNCHANGED <<stream, offsets, waiters, locked, links, pending, rep>>

(* End of input, or an error of the connection. *)
ClientGone(c) ==
  /\ c \in DOMAIN clients /\ c \in ended
  /\ CloseClient(c)
  /\ answers' = {}
  /\ UNCHANGED <<stream, offsets, waiters, locked, budget, links, pending, rep>>

(* Mutant of Satisfied: one replica more than asked for is waited for. *)
SatisfiedByMore(w) == count_acked(w.target) > w.count

(* Whether serve_waiters answers a waiter. *)
Satisfied(w) == count_acked(w.target) >= w.count

Timed == {w \in waiters : w.timed}

(* serve_waiters and expire_waiters at the end of an iteration: expired    *)
(* are the waiters whose deadline has passed.                              *)
EndIteration(expired) ==
  LET leaving == {w \in waiters : Satisfied(w)} \cup expired
  IN  /\ leaving # {}
      /\ waiters' = waiters \ leaving
      /\ answers' = {<<count_acked(w.target), w.target>> : w \in leaving}
      /\ UNCHANGED <<stream, clients, replicas, offsets, locked, budget, network, rep, history>>

-------------------------------------------------------------------------------
(* A replica.  phase is "down", "loop", or what the handshake waits for.   *)

Off      == [phase |-> "down", link |-> 0, offset |-> 0]
Unlinked == [phase |-> "loop", link |-> 0, offset |-> 0]

(* run() starts with connect_to_master: a PING is sent, or the connection  *)
(* fails and the server runs without one.                                  *)
Start(r) ==
  /\ r \in budget.replicas /\ rep[r].phase = "down" /\ links < budget.links
  /\ \/ /\ links' = links + 1
        /\ pending' = pending \cup {links'}
        /\ up' = [up EXCEPT ![links'] = <<Item("PING", 0)>>]
        /\ rep' = [rep EXCEPT ![r] = [phase |-> "ping", link |-> links', offset |-> 0]]
        /\ UNCHANGED budget
     \/ rep' = [rep EXCEPT ![r] = Unlinked] /\ UNCHANGED <<links, pending, up>> /\ Fault
  /\ answers' = {}
  /\ UNCHANGED <<stream, clients, replicas, offsets, waiters, locked, ended, down, history>>

(* What follows each reply of the handshake, and what is asked next. *)
Following == [ping |-> "port", port |-> "capa", capa |-> "psync", psync |-> "rdb"]
Asks      == [ping |-> <<Item("REPLCONF", 0)>>, port |-> <<Item("REPLCONF", 0)>>,
              capa |-> <<Item("PSYNC", 0)>>, psync |-> <<>>]

(* A reply of the handshake.  Any line will do; that to PSYNC may end in a *)
(* number, which is the offset.                                            *)
ReadLine(r) ==
  LET c == rep[r].link
  IN  /\ rep[r].phase \in DOMAIN Following /\ down[c] # <<>>
      /\ down' = [down EXCEPT ![c] = Tail(@)]
      /\ up'   = Sent(up, c, Asks[rep[r].phase])
      /\ rep'  = [rep EXCEPT ![r] = [phase |-> Following[rep[r].phase], link |-> c,
                                     offset |-> Head(down[c]).n]]
      /\ answers' = {}
      /\ UNCHANGED <<stream, clients, replicas, offsets, waiters, locked, budget, links,
                     pending, ended, history>>

(* The snapshot is read, and dropped; the loop starts, with the link. *)
ReadSnapshot(r) ==
  LET c == rep[r].link
  IN  /\ rep[r].phase = "rdb" /\ down[c] # <<>> /\ Head(down[c]).kind = "rdb"
      /\ down' = [down EXCEPT ![c] = Tail(@)]
      /\ rep'  = [rep EXCEPT ![r].phase = "loop"]
      /\ answers' = {}
      /\ UNCHANGED <<stream, clients, replicas, offsets, waiters, locked, budget, links,
                     pending, ended, up, history>>

(* The replica gives up its link: master_fd_ is -1 from here on. *)
Unlink(r) ==
  /\ down'  = [down EXCEPT ![rep[r].link] = <<>>]
  /\ ended' = ended \cup {rep[r].link}
  /\ rep'   = [rep EXCEPT ![r] = Unlinked]

(* End of input, in the handshake or in the loop. *)
LinkGone(r) ==
  /\ rep[r].link \in ended /\ down[rep[r].link] = <<>>
  /\ Unlink(r)
  /\ answers' = {}
  /\ UNCHANGED <<stream, clients, replicas, offsets, waiters, locked, budget, links,
                 pending, up, history>>

(* The answer to GETACK at an offset: GETACK itself is counted later. *)
Ack(offset) == Item("ACK", offset)

(* A command from the primary, in the loop: GETACK is answered, a write is *)
(* executed.                                                               *)
LinkCommand(r) ==
  LET c == rep[r].link
      command == Head(down[c])
  IN  /\ rep[r].phase = "loop" /\ c # 0
      /\ down[c] # <<>> /\ command.kind \in {"write", "getack"}
      /\ down' = [down EXCEPT ![c] = Tail(@)]
      /\ up'   = IF command.kind = "getack" THEN Sent(up, c, <<Ack(rep[r].offset)>>) ELSE up
      /\ rep'  = [rep EXCEPT ![r].offset = @ + 1]
      /\ have' = [have EXCEPT ![c] = command.n]
      /\ applied' = IF command.kind = "write" THEN [applied EXCEPT ![c] = Append(@, command.n)]
                    ELSE applied
      /\ answers' = {}
      /\ UNCHANGED <<stream, clients, replicas, offsets, waiters, locked, budget, links,
                     pending, ended, joined>>

(* What is no command, like the refusal of an acknowledgement, is a        *)
(* protocol error and closes the link.                                     *)
LinkError(r) ==
  LET c == rep[r].link
  IN  /\ rep[r].phase = "loop" /\ c # 0
      /\ down[c] # <<>> /\ Head(down[c]).kind \notin {"write", "getack"}
      /\ Unlink(r)
      /\ answers' = {}
      /\ UNCHANGED <<stream, clients, replicas, offsets, waiters, locked, budget, links,
                     pending, up, history>>

-------------------------------------------------------------------------------
(* Faults *)

(* A replica dies; the primary learns of it from the connection. *)
Die(r) ==
  /\ rep[r].phase # "down" /\ Fault
  /\ IF rep[r].link = 0 THEN UNCHANGED <<ended, down>>
     ELSE /\ down'  = [down EXCEPT ![rep[r].link] = <<>>]
          /\ ended' = ended \cup {rep[r].link}
  /\ rep' = [rep EXCEPT ![r] = Off]
  /\ answers' = {}
  /\ UNCHANGED <<stream, clients, replicas, offsets, waiters, locked, links,
                 pending, up, history>>

(* A link breaks: of what is under way, some prefix arrives. *)
Break(c) ==
  /\ c <= links /\ Fault /\ (c \notin ended \/ down[c] # <<>> \/ up[c] # <<>>)
  /\ ended' = ended \cup {c}
  /\ \E n \in 0 .. Len(down[c]) : down' = [down EXCEPT ![c] = SubSeq(@, 1, n)]
  /\ \E n \in 0 .. Len(up[c])   : up'   = [up EXCEPT ![c] = SubSeq(@, 1, n)]
  /\ answers' = {}
  /\ UNCHANGED <<stream, clients, replicas, offsets, waiters, locked, links,
                 pending, rep, history>>

-------------------------------------------------------------------------------

Init ==
  /\ stream = <<>> /\ offsets = [cl \in Clients |-> 0] /\ waiters = {}
  /\ clients = [c \in {} |-> FALSE] /\ replicas = [c \in {} |-> 0]
  /\ locked \in BOOLEAN /\ budget \in Scenarios
  /\ links = 0 /\ pending = {} /\ ended = {}
  /\ down = [c \in Links |-> <<>>] /\ up = [c \in Links |-> <<>>]
  /\ rep = [r \in Replicas |-> Off]
  /\ have = [c \in {} |-> 0] /\ joined = [c \in {} |-> 0] /\ applied = [c \in {} |-> <<>>]
  /\ answers = {}

(* A step of the primary for a link, and a step of a replica. *)
Serve(c) == Accept(c) \/ Request(c) \/ ClientGone(c)
Run(r)   == ReadLine(r) \/ ReadSnapshot(r) \/ LinkGone(r) \/ LinkCommand(r) \/ LinkError(r)

Next ==
  \/ \E cl \in Clients : Write(cl) \/ WaitAnswered(cl) \/ WaitBlocks(cl)
  \/ Flip
  \/ \E c \in Links : Serve(c) \/ Break(c)
  \/ \E expired \in SUBSET Timed : EndIteration(expired)
  \/ \E r \in Replicas : Start(r) \/ Run(r) \/ Die(r)

Spec == Init /\ [][Next]_vars

(* The loop of the primary and the replicas go on: what can be read is     *)
(* read, a connection that ended is closed, and a deadline that passes     *)
(* ends the sleep of poll.                                                 *)
Fairness ==
  /\ \A c \in Links : WF_vars(Serve(c))
  /\ WF_vars(EndIteration(Timed))
  /\ \A r \in Replicas : WF_vars(Run(r))

FairSpec == Spec /\ Fairness

-------------------------------------------------------------------------------
(* Properties *)

(* A replica is registered only while its connection is open (close_client *)
(* drops both), and no offset is ahead of the stream.                      *)
TypeOK ==
  /\ stream \in Seq({"write", "getack"})
  /\ DOMAIN clients \subseteq 1 .. links /\ DOMAIN replicas \subseteq DOMAIN clients
  /\ \A c \in DOMAIN replicas : replicas[c] \in 0 .. Len(stream)
  /\ offsets \in [Clients -> 0 .. Len(stream)]
  /\ \A w \in waiters : w.target \in 0 .. w.at /\ w.at \in 1 .. Len(stream)
  /\ links \in 0 .. budget.links /\ pending \subseteq 1 .. links /\ ended \subseteq 1 .. links
  /\ \A r \in Replicas : rep[r].link \in 0 .. links
  /\ DOMAIN have = DOMAIN joined /\ DOMAIN applied = DOMAIN joined
  /\ DOMAIN joined \subseteq 1 .. links

(* The positions of the writes propagated after position n, up to m. *)
Writes(n, m) == {i \in n + 1 .. m : i <= Len(stream) /\ stream[i] = "write"}

(* On every link a replica executes exactly the writes propagated since it *)
(* registered, in their order: none is lost, repeated or overtaken         *)
(* (send_to_replicas, the branch for master_fd_ and the breaks between).   *)
AppliesTheStream ==
  \A c \in DOMAIN applied :
    /\ {applied[c][i] : i \in DOMAIN applied[c]} = Writes(joined[c], have[c])
    /\ \A i, j \in DOMAIN applied[c] : i < j => applied[c][i] < applied[c][j]

(* What a replica acknowledges, under way or remembered by the primary, is *)
(* what stood before a GETACK it has come to, every command up to there    *)
(* executed and the GETACK not counted; before that the primary takes it   *)
(* to have what it had at PSYNC (server.cpp:522 and 650).                  *)
Acked(c) == {n \in joined[c] .. have[c] - 1 : stream[n + 1] = "getack"}
AcksAreHonest ==
  \A c \in Links :
    /\ c \in DOMAIN replicas => replicas[c] \in {joined[c]} \cup Acked(c)
    /\ \A i \in DOMAIN up[c] :
         up[c][i].kind = "ACK" => c \in DOMAIN have /\ up[c][i].n \in Acked(c)

(* A handshake comes to its end, unless the primary refused PSYNC for want *)
(* of a password: the replica then waits for a snapshot for ever           *)
(* (connect_to_master).                                                    *)
Refused(r) == rep[r].phase = "rdb" /\ rep[r].link \notin DOMAIN joined
HandshakeEnds ==
  \A r \in Replicas :
    rep[r].phase \in DOMAIN Following ~> (rep[r].phase \in {"loop", "down"} \/ Refused(r))

(* A replica the primary counts as one comes to have all that was          *)
(* propagated, unless its link ends or a send to it fails.                 *)
Behind(c) == c \in DOMAIN replicas /\ have[c] < Len(stream)
CatchesUp == \A c \in Links : Behind(c) ~> (~Behind(c) \/ c \in ended)

(* WAIT with a timeout is answered.  Without one it is answered unless the *)
(* number of replicas falls below what it waits for (server.cpp:679 looks  *)
(* at their number only when WAIT begins).                                 *)
Waits(cl) == {w \in waiters : w.client = cl}
WaitIsAnswered ==
  \A cl \in Clients :
    Waits(cl) # {} ~> (\/ Waits(cl) = {}
                       \/ \E w \in Waits(cl) : ~w.timed /\ Cardinality(DOMAIN replicas) < w.count)

(* A replica whose link stays keeps up with the log, and no answer to WAIT *)
(* counts a replica that is behind: replication implements ReplicatedLog.  *)
Log == INSTANCE ReplicatedLog WITH Sessions <- Links, length <- Len(stream)
ImplementsLog == Log!Spec

===============================================================================
