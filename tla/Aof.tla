---------------------------------- MODULE Aof ----------------------------------
(***************************************************************************)
(* The append-only file (src/aof/aof.cpp) as the event loop drives it, and *)
(* crashes.  A log entry is a request as submitted; a transaction is its   *)
(* writes between MULTI and EXEC.                                          *)
(*                                                                         *)
(* A command runs in memory, its entries are written, fsync follows if it  *)
(* is due, then the reply is sent.  A crash keeps what was synced and any  *)
(* part of the rest, possibly cutting through an entry.  The manifest is   *)
(* left out: one incremental file exists and is never rotated.             *)
(***************************************************************************)
EXTENDS Session

CONSTANTS Clients,      \* fds of the connections
          Requests,     \* what they send
          Policies,     \* the values of appendfsync to start with
          Walls,        \* readings of the system clock
          MaxLog,       \* bound on the entries of the log
          MaxInexact,   \* bound on those of a log that is not exact
          MaxQueued,    \* bound on the commands of a transaction
          MaxWatched,   \* bound on the keys a connection watches
          MaxTime,      \* bound on the steady clock, in seconds
          MaxCrashes    \* bound on the number of crashes

ASSUME AofAssumption ==
  /\ Policies \subseteq {"always", "everysec", "no"}
  /\ {MaxLog, MaxInexact, MaxQueued, MaxWatched, MaxTime, MaxCrashes} \subseteq Nat

VARIABLES
  appendfsync,  \* the option, which never changes
  phase,      \* "loop" (the head of the event loop), "poll", "append" (written,
              \* fsync and reply to come), "down" or "refused"
  wake,       \* when poll returns at the latest; -1 is never
  db,         \* the store
  clients,    \* the state of each connection
  log,        \* the entries of the file, written to the kernel or on disk
  torn,       \* whether the file ends within an entry
  synced,     \* the number of entries known to be on disk
  last_sync,  \* last_sync_
  now,        \* the steady clock
  acked,      \* history: the number of entries when the last reply was sent
  since,      \* history: when the oldest entry that is not synced was written
  live,       \* history: live[n] is the data there was with n entries
  crashes     \* the number of crashes so far

vars == <<appendfsync, phase, wake, db, clients, log, torn, synced, last_sync, now, acked, since,
          live, crashes>>

-------------------------------------------------------------------------------
(* aof.cpp *)

dirty == synced < Len(log)

(* Mutant of SyncIsDue: every policy is everysec. *)
SyncEverySecond == dirty /\ now - last_sync >= 1

(* The condition of sync_if_due. *)
SyncIsDue ==
  /\ dirty /\ appendfsync # "no"
  /\ appendfsync = "everysec" => now - last_sync >= 1

(* Mutant of sync_timeout: nothing to wait for. *)
NoTimeout == -1

(* How long poll may sleep for the sake of the log; -1 is for ever. *)
sync_timeout ==
  IF ~dirty \/ appendfsync # "everysec" THEN -1
  ELSE IF last_sync + 1 - now > 0 THEN last_sync + 1 - now ELSE 0

sync_if_due ==
  IF SyncIsDue THEN synced' = Len(log) /\ last_sync' = now
               ELSE UNCHANGED <<synced, last_sync>>

Marker(op) == [op |-> op]

(* Mutant of Transaction: no envelope. *)
BareTransaction(commands) == commands

(* The entries of append_transaction; nothing for an empty transaction. *)
Transaction(commands) ==
  IF commands = <<>> THEN <<>> ELSE <<Marker("MULTI")>> \o commands \o <<Marker("EXEC")>>

(* Mutant of Appended: a write that failed is appended too. *)
AppendedUnchecked(c, was_in_multi, r) ==
  LET own == IF ~was_in_multi /\ is_write_command(c.op) THEN <<c>> ELSE <<>>
  IN  own \o (IF was_in_multi THEN Transaction(r.propagations) ELSE r.propagations)

(* What the event loop appends for a command (server.cpp:653-668). *)
Appended(c, was_in_multi, r) ==
  LET own == IF ~was_in_multi /\ is_write_command(c.op) /\ ~IsError(r.out)
             THEN <<c>> ELSE <<>>
  IN  own \o (IF was_in_multi THEN Transaction(r.propagations) ELSE r.propagations)

(* The replies that stop a replay. *)
Stops(out) == IsError(out) \/ out.kind = "blocked"

(* A command failed, or one within the transaction: EXEC answers the array *)
(* of their replies.                                                       *)
Fails(c, out) ==
  \/ Stops(out)
  \/ c.op = "EXEC" /\ out.kind = "array" /\ \E i \in DOMAIN out.value : IsError(out.value[i])

(* b after an entry that came to r. *)
Replayed(b, entry, r) ==
  IF ~b.ok THEN b
  ELSE [ok |-> ~Stops(r.out), clean |-> b.clean /\ ~Fails(entry, r.out),
        db |-> r.db, client |-> r.client]

(* replay: every entry through handle_command, as one client.  ok is       *)
(* whether startup goes on, clean whether no command failed, those within  *)
(* transactions included.                                                  *)
replay(entries, cut, t, wall) ==
  LET start == [ok |-> TRUE, clean |-> TRUE, db |-> NewDb(EmptyStore),
                client |-> NewClient(-1, TRUE)]
      after[i \in 0 .. Len(entries)] ==
        IF i = 0 THEN start
        ELSE LET b == after[i - 1]
             IN  Replayed(b, entries[i], handle_command(entries[i], b.db, b.client, t, wall))
      finish(end) == [end EXCEPT !.ok = @ /\ ~cut /\ ~end.client.in_multi]
  IN  finish(after[Len(entries)])

-------------------------------------------------------------------------------

(* Commands are logged as submitted (README.md:94): replay restarts a      *)
(* relative deadline and generates an ID again, and what follows them in   *)
(* the log may then come to something else.  No entry is of these kinds.   *)
Exact(entries) ==
  \A i \in DOMAIN entries :
    /\ entries[i].op = "SET"  => entries[i].option.form # "PX"
    /\ entries[i].op = "XADD" => entries[i].id.form # "auto"

(* The bounds on the log, and on the commands queued for it. *)
WithinBounds(entries, client) ==
  /\ Len(entries) <= MaxLog
  /\ Len(client.queued) <= MaxQueued /\ Len(client.watched) <= MaxWatched
  /\ Exact(entries \o client.queued) \/ Len(entries \o client.queued) <= MaxInexact

Connected == [fd \in Clients |-> NewClient(fd, TRUE)]

Init ==
  /\ appendfsync \in Policies
  /\ phase = "loop" /\ wake = -1 /\ db = NewDb(EmptyStore) /\ clients = Connected
  /\ log = <<>> /\ torn = FALSE /\ synced = 0 /\ acked = 0
  /\ last_sync = 0 /\ now = 0 /\ since = 0
  /\ live = [n \in {0} |-> EmptyStore]
  /\ crashes = 0

(* A command that does not block; what blocks is the event loop's.         *)
Command(fd, c) ==
  /\ phase = "poll"
  /\ \E wall \in Walls : \E r \in {handle_command(c, db, clients[fd], now, wall)} :
       LET entries == Appended(c, clients[fd].in_multi, r)
       IN  /\ r.out.kind # "blocked"
           /\ WithinBounds(log \o entries, r.client)
           /\ db' = r.db
           /\ clients' = [clients EXCEPT ![fd] = r.client]
           /\ log' = log \o entries
           /\ phase' = IF entries = <<>> THEN "loop" ELSE "append"
           /\ since' = IF dirty \/ entries = <<>> THEN since ELSE now
           /\ live' = Put(live, Len(log'), r.db.data)
  /\ UNCHANGED <<appendfsync, wake, torn, synced, last_sync, now, acked, crashes>>

(* The end of write(), and the reply. *)
Acknowledge ==
  /\ phase = "append"
  /\ sync_if_due
  /\ phase' = "loop" /\ acked' = Len(log)
  /\ UNCHANGED <<appendfsync, wake, db, clients, log, torn, now, since, live, crashes>>

(* The head of the loop: sync_if_due, then poll with what next_timeout()   *)
(* makes of the log; there are no waiters here.                            *)
EnterPoll ==
  /\ phase = "loop"
  /\ sync_if_due
  /\ wake' = IF SyncIsDue \/ sync_timeout < 0 THEN -1 ELSE now + sync_timeout
  /\ phase' = "poll"
  /\ UNCHANGED <<appendfsync, db, clients, log, torn, now, acked, since, live, crashes>>

PollTimesOut ==
  /\ phase = "poll" /\ wake = now
  /\ phase' = "loop"
  /\ UNCHANGED <<appendfsync, wake, db, clients, log, torn, synced, last_sync, now, acked,
                 since, live, crashes>>

(* Time passes in poll, up to its timeout, and while the server is down;   *)
(* everything else is fast.                                                *)
Tick ==
  /\ now < MaxTime
  /\ (phase = "poll" /\ wake # now) \/ phase = "down"
  /\ now' = now + 1
  /\ UNCHANGED <<appendfsync, phase, wake, db, clients, log, torn, synced, last_sync, acked,
                 since, live, crashes>>

Crash ==
  /\ phase \in {"loop", "poll", "append"} /\ crashes < MaxCrashes
  /\ \E n \in synced .. Len(log), cut \in BOOLEAN :
       /\ cut => n < Len(log)
       /\ log' = SubSeq(log, 1, n) /\ torn' = cut
       /\ live' = [m \in {x \in DOMAIN live : x <= n} |-> live[m]]
  /\ phase' = "down" /\ crashes' = crashes + 1
  /\ db' = NewDb(EmptyStore) /\ clients' = Connected
  /\ wake' = -1
  /\ UNCHANGED <<appendfsync, synced, last_sync, now, acked, since>>

Restart ==
  /\ phase = "down"
  /\ \E wall \in Walls : \E r \in {replay(log, torn, now, wall)} :
       IF r.ok
       THEN /\ phase' = "loop" /\ db' = NewDb(r.db.data)
            /\ synced' = Len(log) /\ last_sync' = now /\ acked' = Len(log)
       ELSE phase' = "refused" /\ UNCHANGED <<db, synced, last_sync, acked>>
  /\ UNCHANGED <<appendfsync, wake, clients, log, torn, now, since, live, crashes>>

Next ==
  \/ \E fd \in Clients, c \in Requests : Command(fd, c)
  \/ Acknowledge \/ EnterPoll \/ PollTimesOut \/ Tick \/ Crash \/ Restart

Spec == Init /\ [][Next]_vars

-------------------------------------------------------------------------------

(* The log is equivalent to the data: whatever the clients did before the  *)
(* crash and wherever it cut the log, a server that starts has exactly the *)
(* data it had when the log was that long, with no part of a transaction   *)
(* and no command lost or done twice; if no deadline and no generated ID   *)
(* is left in it.                                                          *)
RecoveredWasLive ==
  phase \in {"loop", "poll"} /\ Exact(log) =>
    Len(log) \in DOMAIN live /\ live[Len(log)] = db.data

(* Of the logs without deadlines and generated IDs, startup refuses        *)
(* (aof.cpp:137, 144) only one that a crash cut short, never one that ends *)
(* where a command ended.                                                  *)
OnlyCutLogsAreRefused ==
  phase = "refused" /\ Exact(log) => torn \/ Len(log) \notin DOMAIN live

(* With appendfsync always no crash loses a write whose reply was sent:    *)
(* write() syncs (aof.cpp:188) before the event loop replies.              *)
AcknowledgedSurvives ==
  appendfsync = "always" /\ phase # "refused" => Len(log) >= acked

(* With appendfsync everysec an entry waits at most a second for fsync:    *)
(* the timeout of poll (aof.cpp:210) wakes the loop in time.               *)
LossIsBounded ==
  appendfsync = "everysec" /\ phase \in {"loop", "poll", "append"} /\ dirty => now - since <= 1

(* A command that fails during the replay stops startup, within a          *)
(* transaction as well (README.md: "command errors stop AOF startup").     *)
CommandErrorsStopStartup ==
  phase = "down" =>
    \A wall \in Walls : \A r \in {replay(log, torn, now, wall)} : r.ok => r.clean

===============================================================================
