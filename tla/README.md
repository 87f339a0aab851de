# TrueStore in TLA+

TrueStore is a server for a subset of Redis: one thread, one `poll()` loop, a
store of strings, lists, streams and sorted sets, transactions, pub/sub,
blocking commands, replication and an append-only file. This directory holds
TLA+ modules for it, TLC runs over small instances, and proofs for TLAPS.
Paths below are relative to the root of the repository's sources
(`src/server/server.cpp` is `src/src/server/server.cpp` in `PROJECT.json`).

## The system

| Part | Code | Modules |
| --- | --- | --- |
| keyspace, expiry, KEYS, TYPE | `store/store.cpp`, `store.hpp` | `Keyspace`, `Store`, `CommandProofs`, `StoreProofs` |
| strings | `store/strings.cpp` | `StringCommands` |
| bitmaps | `store/bitmaps.cpp` | `Bitmaps`, `BitSets`, `BitmapMachine` |
| lists | `store/lists.cpp` | `ListCommands` |
| streams | `stream/stream.cpp`, `store/streams.cpp` | `StreamIds`, `StreamReader`, `StreamCommands`, `StreamProofs` |
| sorted sets | `store/sorted_sets.cpp` | `SortedSets`, `SortedSetCommands`, `SortedSetMachine` |
| geospatial | `store/geospatial.cpp` | `SortedSets` (GEOADD), `Geospatial`, `SortedSetMachine` |
| dispatch, type checks | `command/command.cpp` | `Commands` |
| sessions: transactions, pub/sub, AUTH | `command/command.cpp`, `pubsub/`, `auth/`, `replication/` | `Session`, `SessionProofs` |
| event loop of a primary | `server/server.cpp` | `EventLoop`, `EventLoopLemmas`, `EventLoopProofs` |
| replication, both sides and the links | `server/server.cpp`, `replication/replication.cpp` | `Replication`, `ReplicatedLog`, `ReplicationProofs` |
| append-only file, in entries | `aof/aof.cpp` | `Aof`, `AofProofs` |
| start-up: manifest, log in bytes, RDB file | `server/server.cpp`, `aof/aof.cpp`, `rdb/rdb.cpp`, `resp/resp.cpp` | `Startup`, `Resp`, `Rdb` |

`PROJECT.json` lists every component, also those not modelled, with reasons.

How they fit: `Keyspace` declares what a store is (one record with the five
maps of `store.hpp`) and how expired strings are reaped. Each `...Commands`
module translates the handlers of one type into operators that take a request,
a store and the time and return a reply and a store. `Commands` is
`dispatch_command`. On top of it

* `Store` is the state machine of the keyspace: one action per command, time,
  and any RDB file at the start;
* `Session` is `handle_command`: a database (keyspace, subscribers, user,
  replication offset) and the state of one client;
* `EventLoop` composes sessions under `Server::run`;
* `Aof` composes sessions with the log, crashes and replay.

`BitmapMachine`, `StreamReader` and `SortedSetMachine` drive the algorithms of
one data type where their interesting cases are, with bounds of their own.
`Geospatial` is on top of `SortedSets`: how coordinates become scores, and the
readers GEOPOS, GEODIST and GEOSEARCH.

Two modules stand beside these, at another grain:

* `Startup` is `Server::start` on files of bytes. `Resp` writes commands as
  arrays of bulk strings and cuts them out of a buffer; `Rdb` is the reader of
  RDB files. What a command does is left to `Aof` and `Store`: here it is its
  argument, and whether it fails. Actions are the steps of `Aof::open` (first
  file, temporary manifest, rename, reading of the manifest), of `Aof::replay`
  (a command, a chunk, the end of a file) and of `load_rdb` (an opcode), then
  appends of a running server, and kills at every point, within a record too.
* `Replication` is a primary, its replicas and the links between them. A link is
  a queue in each direction. On the primary there is one action per kind of
  request (`Write`, `WaitAnswered`, `WaitBlocks`, `Request` for what replicas
  send), one per event of a connection (`Accept`, `ClientGone`), and the end of
  an iteration, which serves and expires waiters. A replica runs
  `connect_to_master` line by line (`Start`, `ReadLine`, `ReadSnapshot`) and then
  the branch for `master_fd_` (`LinkCommand`, `LinkError`, `LinkGone`). Faults
  are `Die` and `Break`, sends that fail, connections that are not accepted, and
  a password that changes (`Flip`). `ReplicatedLog` is what this promises: a log
  that grows, sessions that move towards its end, answers to WAIT that count no
  session that is behind.

The `MC...` modules hold the requests and values of the runs.

### What is abstracted

* A request is a record that has been parsed, a reply a record of its RESP kind
  and contents. Errors of arity and syntax change nothing and are left out
  unless they leave a handler after a state change.
* A byte has `ByteBits` bits and an unsigned word `Digits` digits of base
  `Base`; stream IDs keep their encoding into digits and their overflow. `Stoi`
  and `ToText` are the number conversions of INCR, with what TLC needs of them
  given by the `MC...` modules.
* Scores are integers in the order of the doubles; NaN is rejected by the code.
* A password stands for its hash.
* A command is one step that reads the steady clock once. Time passes in
  `poll` only. Up to a second that `send_all` may wait for a slow receiver is
  taken for zero; the repository's README documents that delay.
* Replication offsets count commands instead of bytes.
* Which sends fail is a choice in each step among the connections whose peer
  may be gone (`deaf`).
* In `Replication` a command is its position in the stream of propagated
  commands. What arrives of a command or a line that a break cuts is never
  executed, so a break cuts between them. The order in which waiters are served
  is `EventLoop`'s.
* `Startup` writes lengths in base `Base` and has one letter to a byte; `Rdb`
  has bytes of four bits, two for the form of a length and two for its value,
  and the bytes with a meaning in the order of the code's.
* Coordinates are integers, `Fine` of them to a cell of a grid of `2^GridBits`
  cells to an axis (26 bits in the code); the distance of two points is a
  constant. A score is rounded to a double, whose mantissa has one bit more than
  two coordinates have (53 in the code); the coordinates of the greatest longitude
  need two more.
* The radix tree, vendored in `third_party/rax`, is a set of keys that are
  iterated in the order of their bytes, as `raxAddChild` keeps the children of a
  node and `raxIteratorNextStep` walks them. Its nodes are left out.
* `n++` on the greatest int wraps, as the build does.

## Runs

Expected to pass:

| Run | Bounds | Shows |
| --- | --- | --- |
| `bitmaps` | 2 keys, bytes of 2 bits, values of up to 3 bytes, indices to 7 | SETBIT and BITOP on bytes implement set operations (`BitSets`), with aliased destinations and different lengths; BITCOUNT counts the units it names, for every pair of indices |
| `streams` | words of 2 binary digits, 3 entries | no entry lost or repeated for a reader, who catches up; the top is the greatest ID; XRANGE is exact |
| `sorted_sets` | 3 members, 4 scores (one of no point, one on the edge of the map, its corner), 3 entries per command, 2 cells to an axis | the loops come to their closed forms; ranks match ranges; a point comes back within its cell, also from the edge, but for one of odd latitude on the greatest longitude, whose score is rounded to that of the cell below; GEOSEARCH answers the members within the radius, the nearest or farthest first, cut where COUNT says, and around a member by the distances GEODIST answers |
| `store_one_key` | every command on one key, 4 instants | the maps are consistent; only overlaid keys mix types; what is not logged leaves no trace; lazy expiry is invisible |
| `store_two_keys` | commands on several keys, 3 instants | no unlogged trace and invisible expiry for BITOP, BLPOP, XREAD and KEYS |
| `aof_recovery` | each policy, 1 connection, 4 log entries (3 with a relative deadline or a generated ID), 1 crash, 2 seconds, 2 readings of the system clock | from a log without relative deadlines and generated IDs, what starts after a crash has the data of the moment the log was cut, and only cut logs are refused; acknowledged writes survive under `always`; an entry waits at most a second for fsync under `everysec` |
| `startup` | 16 logs, over 300 RDB files cut anywhere; chunks of 1, 7 and 50 bytes; 2 appends, 1 kill and kills within a record | a server starts from a log exactly if it is whole and no command of it fails, except that a command that fails within a transaction does not stop it; it has then executed exactly what was logged, in order; a manifest never changes once it is there; an RDB file yields its entries with their own expiry, or nothing |
| `event_loop` | workloads of `MCEventLoop`: 3 connections at once and 4 accepted, one of which may stall; 2 that publish and never stall; 2 connections and 3 waiters; replicas, WAIT, XREAD and a password; timeouts beyond `INT_MAX` | clients, waiters, replicas and subscriptions do not outlive their connection, and no message stays queued where every peer reads; slots and subscriptions are consistent; waiters are served, in order and in time |
| `replication` | one replica with 2 links, a failing send and a fault; one and 2 changes of the password; 2 replicas and a failing send; streams of up to 3 commands, transactions of 2 | replicas execute exactly what was propagated since they registered; acknowledgements are honest; `ReplicatedLog` is implemented; handshakes end, replicas catch up, WAIT is answered |

Expected to be violated, each by something the code does and a text of the
repository denies (`findings` in `PROJECT.json` has the quotations):

* `store_types_apart`: SET with an expiry, RPUSH on the same key, the deadline,
  ZADD. `key_type` answers "none" for a key whose string has just expired, so
  ZADD is accepted on a key that holds a list.
* `aof_hidden_errors`: an error within a logged transaction does not stop the
  replay, which looks at the first byte of the reply of EXEC.
* `loop_stray_message`: the reply to PUBLISH cannot be sent, its message stays
  queued, the subscriber leaves, and the connection that is given its fd gets
  the message at the next delivery.

### Why the bounds are enough to be interesting

One key suffices for the store because handlers touch the keys they name, and
two for those that name several. One bit per byte and one digit per word reach
both ends of every range; `bitmaps` and `streams` have more of each for masks
and carries. Three connections and four accepted give two closed
slots in an iteration, the array at its limit and a reused number. Three
waiters with deadlines 1, 2 and none give every order of arrival against
expiry, and an `INT_MAX` of 2 puts deadlines on both sides of it. Two links
give a replica that comes back while the primary still has its old connection,
or two replicas at different positions; a stream of three commands holds a
transaction and the GETACK of a WAIT, in either order. Chunks of one byte cut a
record at every place, those of 7 and 50 bytes hold several of its parts or
several records; arguments contain the bytes of the framing. The log of four
entries holds a transaction of two commands, or one of a single command and a
write before or after it.

### What the log does not preserve

Commands are logged as submitted. The repository's README says (line 94) that
replay restarts a relative expiry and may generate other stream IDs; what follows
such an entry may then fail, and an intact log be refused: XADD with a generated
ID, then with an explicit one that is no longer above it; or SET with an expiry,
and RPUSH once it has passed. `RecoveredWasLive` and `OnlyCutLogsAreRefused` speak
of logs without such entries (`Exact`). `aof_recovery` has both kinds of request, and
without the exception TLC finds both properties violated. Line 92 of the same
README wants command errors to stop the start. `StartsIffSound` takes it at its
word (`Sound`) and names the one case in which the code starts nevertheless,
`FailsInTransactions`; `aof_hidden_errors` is about it.

`CHECK_DEADLOCK FALSE` is used in `streams` (the bounded stream is full
and the reader has caught up), the runs of the log (a refused server stays down,
and the bounds run out) and `replication` (no client asks any more, and the
bounds run out; its liveness properties say what must not stop). All other runs
check for deadlock; in `startup`, where only a server that runs or has refused to
start may stutter, this shows that no start gets stuck.

### Fairness

`StreamReader` and `Replication` state liveness.

`StreamReader` assumes weak fairness of XREAD: the consumer keeps asking, and
the server, one thread that answers whoever is ready, answers. Nothing is
assumed of XADD.

`Replication` assumes weak fairness of what the loop of the primary does for
each link, of the end of its iterations with every deadline passed, and of each
replica that runs. `poll` reports every connection with input or an end in each
iteration and each is read; deadlines end the sleep of `poll`; a replica is one
thread that blocks only for input. Nothing is assumed of clients, of restarts or
of faults. A replica whose PSYNC is refused for want of a password waits for a
snapshot for ever, and a WAIT without timeout waits as long as there are fewer
replicas than it asks for: `HandshakeEnds` and `WaitIsAnswered` except exactly
these.

## Proofs

### The store

`StoreProofs` proves for the state machine `Store`, for every set of keys,
elements, members, scores, requests and RDB files, every width of bytes and
words, and every bound:

* `TypeCorrect`: `Spec => []TypeOK`,
* `DeadlineSafety`: a deadline always has its string,
* `IndexSafety`: the two indexes of a sorted set agree,
* `EmptinessSafety`: no list, stream or sorted set is empty, and the top of a
  stream is in its tree,
* `NoHiddenWrites`: `Spec => []UnpropagatedLeavesNoTrace`,
* `TypesStayApart`: `Spec => OnlyOverlaysMixTypes`, an action property,
* `ExpiryIsUnseen`: `Spec => []LazyExpiryIsInvisible`.

The first four follow from `Invariance`, the invariance of `Inv`: the store is `Good`
and time is a natural number. `Good` joins the four properties and their types,
because none is inductive alone: that a pop keeps lists non-empty needs their
types, that ZREM erases the right pair needs the indexes to agree, and that a
sorted set without scores is erased needs both. The proof goes handler by
handler, in `CommandProofs`, which knows no state machine: lemmas `HandleSet`,
`HandleXadd`, `HandleZadd`, ... each show that a handler takes a good store to a
good store; `DispatchGood` collects them for `dispatch_command`, and
`StepIsCommand` shows that every step of `Next` is such a command or a tick.
`LoadGood` is the initial state, any RDB file.

The other three say what one command may do to a good store, and again go handler
by handler. `ReapFacts` is the algebra of expiry: reaping sets of keys one after
the other is reaping their union. `DispatchUnseen`: a command that is not
propagated leaves the store without some expired strings (`Unseen`); that a
refused XADD leaves no empty stream (`XaddRefused`) is the case that takes work.
`DispatchApart`: the checks of types, wherever they are made, keep the domains of
the maps apart (`TypeTells` says what each check establishes). `DispatchAlike`:
`Twin` relates a store to the one with everything expired gone, key by key,
`Commutes` shows that each way to store a value commutes with expiry - for SET
because it replaces the deadline, for SETBIT and INCR because the key was looked
at before - and the lemmas `ListsAlike` ... `BitopAlike` put them together.

The assumptions are those named in the modules: sizes are positive naturals,
members and scores are integers, requests and RDB files are well-formed, and
the text of a number parses to that number (`NumberAssumption`). TLC evaluates
them on every run whose module extends the one that states them.

### Replication

`ReplicationProofs` proves for `Replication`, for every set of replicas and
clients and every bound on links, commands, transactions, waiters and faults:

* `TypeCorrect`: `Spec => []TypeOK`,
* `StreamApplied`: `Spec => []AppliesTheStream`,
* `AcksHonest`: `Spec => []AcksAreHonest`,
* `LogImplemented`: `Spec => ImplementsLog`, the refinement of `ReplicatedLog`.

They rest on `Invariance`, `Spec => []IInv`. None of the properties is inductive
alone: they speak of what a replica has executed, and what it will execute next
is in a queue. `IInv` says of each link what is under way on it. To the primary there is one request of the handshake at a time, or
acknowledgements, each of a position before a GETACK the replica has come to
(`UpOK`). To the replica there is one reply of the handshake, or what is left
of the reply to PSYNC and then the next commands of the stream without a hole
(`DownOK`): up to its end while the primary counts the replica as one and the
link stands, up to some point otherwise. The offset a replica counts is its
position in the stream once it has the reply to PSYNC (`LinkOK`), what the primary
remembers is of the same kind as an acknowledgement (`ReplicaOK`), and a link that
its replica has given up carries nothing to it any more (`AloneOK`).

The proof has a lemma per action. Actions that only take away (links that end,
break, or are given up) follow from `Shrinking` and `ReleaseInv`, since every prefix of a
queue is as good as the queue; those of a replica from `OneLink`, which
reduces a step to the link it is about; propagation from `SendInv`, which does
it for all links at once. For the refinement, `CountIsSafe` shows that a replica
`count_acked` counts has come as far as its acknowledgement says; each action then
is a step of `ReplicatedLog` or leaves its variables alone.

The only assumption is `ReplicationAssumption`: bounds are naturals.

### Induction

The loops of the code are recursive functions here, and the library's theorems
on induction take an operator as a parameter, which the installed provers cannot
instantiate. `SessionProofs` and `StreamProofs` therefore derive induction for
sets: `LeastExists` (a set of naturals has a least element, from `WFMin`) and
`UpTo` (a set that holds 0 and is closed under successor up to `n` holds all up
to `n`). A lemma about a loop then takes the set of the rounds up to which its
claim holds, and shows what one round does. That a recursive function is what
its equation says is shown from the existence of a function with that equation.

### Sessions

`SessionProofs` has no state machine; it is about `handle_command`, for every
database, client and request:

* `HandleAnswers`: the client of the outcome is a client with the same number,
  and what is to be propagated is a sequence of commands;
* `HandleFollows`: if client and store agree about its subscriptions before, they
  do afterwards, also when the rounds of an EXEC subscribe and unsubscribe
  (`ExecFollows`, by induction on the rounds); the subscriptions of the others
  stay, and a client in MULTI has none;
* `HandleBlocks`: only BLPOP, XREAD and WAIT leave a client waiting, and EXEC
  never does, whatever is queued.

`EventLoopProofs` and `AofProofs` rest on these.

### The event loop

`EventLoopProofs` proves for `EventLoop`, for every set of workloads, any number
of connections and every bound on slots, connections, time and waiters:

* `TypeCorrect`: `Spec => []TypeOK`,
* `ClosedIsForgotten`: `Spec => []NothingOutlivesItsConnection`,
* `CompactionIsExact`: `Spec => []SlotsAreTheConnections`,
* `StoreKnowsItsSubscribers`: `Spec => []SubscriptionsAgree`,
* `SleepsOnlyOnEmpty`: `Spec => []NobodyWaitsForWhatIsThere`,
* `WakesInTime`: `Spec => []NoDeadlineIsSleptThrough`,
* `ServedInOrder`: `Spec => LongestWaiterFirst`, an action property.

The invariant `IInv` has two parts. `Sound` holds within an iteration, after each
part of it: the slots that are not free hold different connections of those
accepted, the clients are exactly these, every waiter and every replica is one of
them, and each client agrees with the store about its subscriptions. `Asleep`
holds when `poll` is called and while it waits: there is no free slot, no waiter
could be served, and the timeout ends before every deadline an int can express.
Neither is inductive without the other parts: that serving leaves nobody
servable needs the waiters to be connections, and that closing forgets a
connection needs the slots to be different.

`close_client` forgets clients, waiters, replicas and subscriptions, but not the
messages queued for the fd. `ClosedIsForgotten` therefore also rests on `Drained`:
where no peer stalls every send succeeds, so that each command ends with
`deliver_messages`, which empties the queue, and nothing else fills it. Where a
peer does stall the claim about messages is false, as `loop_stray_message` shows.

`EventLoopLemmas` has a lemma for each part of `Server::run`. `CloseSound`
(`close_client`, for any set of connections), `DeliverSound`, `PropagatedSound`
and `BlockSound` keep `Sound`. `CompactSlots` shows that the compaction, which moves the last slot into each
hole and looks at the hole again, leaves exactly the slots in use. `ServeServes` follows
`serve_waiters` round by round: when the loop ends, no waiter that is left is
servable, although each round may take away what an earlier one left. `ServeTrails`
shows of the same loop that those who are left of the clients that wait for the
same lists came after those served, which is `LongestWaiterFirst`. `TimeoutInTime`
is about the minimum in `next_timeout`. `EventLoopProofs` puts them together,
with a lemma per action.

The assumption is `LoopAssumption`: bounds are naturals, there is a slot, and the
requests are well-formed.

### The append-only file

`AofProofs` proves for `Aof`, for any clients, requests, stores and number of
crashes:

* `AcknowledgedWritesSurvive`: `Spec => []AcknowledgedSurvives`, for `always`,
* `EverysecLosesASecond`: `Spec => []LossIsBounded`, for `everysec`.

`Invariance` is about lengths, the policy and the clock. Under `always` what is
acknowledged is on disk, and so is everything between two commands. Under
`everysec` whatever waits for fsync was written after the last one, no more than
a second ago, and `poll` returns when the second is over; or it was written just
now and the policy is still to be applied. Of commands it needs
that they append to the log, `HandleAnswers`.

### Streams

`StreamProofs` proves for `StreamReader`, for every base and width of a word, any
clock and any ID arguments:

* `TopIsMaxId`: `Spec => []MaxIdIsTop`,
* `Delivery`: `Spec => []NoEntryLostOrRepeated`,
* `Ranges`: `Spec => []RangeIsExact`.

They rest on the encoding of IDs. `DigitOrder` and `KeyOrder`: the order of the
keys by bytes is the order of the words they encode, so that the order of the
tree is the order of IDs (`EncodeOrder`); `DecodeEncode`: reading a key gives
back its ID. `AdvanceIsNext`: the increment that carries from the sequence number into
the milliseconds gives the next ID, and says so at the greatest one.
`AcceptedIsAbove`: an ID that `resolve_id` accepts, in each of its forms, is
greater than the top. The invariant then says that the tree holds the keys of the
accepted IDs, which ascend, and that the reader has the first of them, up to its
cursor.

### Only model-checked

* All liveness: it is out of the prover's reach.
* `RecoveredWasLive` and `OnlyCutLogsAreRefused` of `Aof`: a replay is compared
  with the run that wrote the log, at another time.
* The refinement of `BitmapMachine` and the count of BITCOUNT.
* `SortedSetMachine` and `Startup`: the loops of sorted sets, the encoding of
  coordinates, and the parsers of `Resp` and `Rdb` on bytes.

## Not modelled

* Clients of a replica, and replicas of a replica: `Replication` has one level,
  and a replica that only follows. So the offset that the link overwrites after
  writes of the replica's own, two servers that replicate one another, and an fd
  of a lost link that is taken for the primary's are outside the models.
* On the link of a replica, POLLHUP or POLLERR without input, and the loss of an
  acknowledgement whose `send` fails (its result is ignored) while the link stays.
* The death of the primary: a replica never connects again, so that for the
  replica it is the end of the link, which is modelled.
* Crashes of the system while the manifest is created, which is not followed by
  fsync: `Startup` kills the process only; `Aof` has the crashes of the system
  for the log itself.
* Long durations: SET with an expiry beyond the range of the clock.
* Passing of time in `send_all`, which may wait a second for a slow receiver.
* RESP replies in bytes, the parser of simple strings, which nothing modelled
  calls, configuration, the client program: I/O or read-only. WITHDIST, WITHHASH
  and WITHCOORD add to the reply of GEOSEARCH; INFO, CONFIG GET, ECHO, ACL
  GETUSER and ACL WHOAMI change nothing.
* Floating-point arithmetic: rounding in the haversine formula and in the scaling
  of coordinates to cells. The rounding of scores is modelled.
