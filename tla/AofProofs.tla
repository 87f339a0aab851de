------------------------------- MODULE AofProofs -------------------------------
(***************************************************************************)
(* What the append-only file promises about acknowledged writes, for every *)
(* set of clients and requests, every store and any number of crashes.     *)
(*                                                                         *)
(* The data plays no part in it: the invariant is about the lengths of the *)
(* log, the policy and the clock, and all it needs from the commands is    *)
(* that they append to the log (SessionProofs).                            *)
(***************************************************************************)
EXTENDS Aof, SessionProofs

Running == phase \in {"loop", "poll", "append"}

Types ==
  /\ IsSeq(log)
  /\ clients = [fd \in Clients |-> clients[fd]]
  /\ \A fd \in Clients : IsClient(clients[fd])
  /\ phase \in {"loop", "poll", "append", "down", "refused"}
  /\ appendfsync \in Policies
  /\ synced \in Nat /\ acked \in Nat /\ last_sync \in Nat /\ now \in Nat /\ since \in Nat
  /\ wake \in Int

(* With appendfsync always, what is acknowledged is on disk, and between   *)
(* two commands everything is.                                             *)
AlwaysInv ==
  appendfsync = "always" =>
    /\ acked <= synced
    /\ phase \in {"loop", "poll"} => synced = Len(log)

(* With appendfsync everysec, whatever waits for fsync was written after   *)
(* the last one, at most a second ago, and poll returns when the second is *)
(* over; or it was written just now and the policy is still to be applied. *)
EverysecInv ==
  appendfsync = "everysec" /\ Running /\ dirty =>
    \/ /\ last_sync <= since /\ since <= now /\ now <= last_sync + 1
       /\ phase = "poll" => wake = last_sync + 1
    \/ phase = "append" /\ since = now

(* The inductive invariant. *)
IInv ==
  /\ Types
  /\ synced <= Len(log)
  /\ last_sync <= now
  /\ AlwaysInv
  /\ EverysecInv

-------------------------------------------------------------------------------

(* The connections of a process that has just started. *)
LEMMA ConnectedClients ==
  /\ Connected = [fd \in Clients |-> Connected[fd]]
  /\ \A fd \in Clients : IsClient(Connected[fd])
<1>1. \A fd : NewClient(fd, TRUE) = Client(fd, TRUE, {}, FALSE, FALSE, <<>>, <<>>, 0)
  BY Zenon DEF NewClient, Client
<1>2. IsSeq(<<>>)
  BY Zenon, SeqFacts
<1>3. \A fd : IsClient(NewClient(fd, TRUE))
  BY Zenon, <1>1, <1>2 DEF IsClient
<1> QED BY Zenon, <1>3 DEF Connected

(* The event loop appends a sequence of entries (server.cpp:653). *)
LEMMA AppendedSeq ==
  ASSUME NEW c, NEW was_in_multi, NEW r, IsSeq(r.propagations)
  PROVE  IsSeq(Appended(c, was_in_multi, r))
<1>1. IsSeq(Transaction(r.propagations))
  <2>1. \A x : IsSeq(<<x>>) /\ IsSeq(<<>>)
    BY Zenon, SeqFacts
  <2>2. IsSeq(<<Marker("MULTI")>> \o r.propagations)
    BY Zenon, <2>1, SeqFacts
  <2>3. IsSeq(<<Marker("MULTI")>> \o r.propagations \o <<Marker("EXEC")>>)
    BY Zenon, <2>1, <2>2, SeqFacts
  <2> QED BY Zenon, <2>1, <2>3 DEF Transaction
<1>2. \A x : IsSeq(<<x>>) /\ IsSeq(<<>>)
  BY Zenon, SeqFacts
<1>3. \A s, t : IsSeq(s) /\ IsSeq(t) => IsSeq(s \o t)
  BY Zenon, SeqFacts
<1> QED BY Zenon, <1>1, <1>2, <1>3 DEF Appended

(* A fresh server has nothing to lose. *)
LEMMA InitInv == Init => IInv
<1> SUFFICES ASSUME Init PROVE IInv
  OBVIOUS
<1>1. IsSeq(log) /\ Len(log) = 0
  BY Zenon, SeqFacts DEF Init
<1>2. Types
  BY <1>1, ConnectedClients DEF Init, Types
<1>3. synced = 0 /\ acked = 0 /\ last_sync = 0 /\ now = 0
  BY DEF Init
<1> QED BY <1>1, <1>2, <1>3 DEF IInv, AlwaysInv, EverysecInv, dirty

(* What a command does to the log. *)
LEMMA CommandLog ==
  ASSUME IInv, NEW fd \in Clients, NEW c, Command(fd, c)
  PROVE  /\ Types' /\ phase = "poll" /\ phase' \in {"loop", "append"}
         /\ Len(log') \in Nat /\ Len(log) <= Len(log')
         /\ phase' = "loop" => log' = log
         /\ since' = IF dirty \/ log' = log THEN since ELSE now
         /\ UNCHANGED <<appendfsync, synced, last_sync, now, acked>>
<1>0. PICK wall \in Walls : \E r \in {handle_command(c, db, clients[fd], now, wall)} :
        LET entries == Appended(c, clients[fd].in_multi, r)
        IN  /\ clients' = [clients EXCEPT ![fd] = r.client]
            /\ log' = log \o entries
            /\ phase' = IF entries = <<>> THEN "loop" ELSE "append"
            /\ since' = IF dirty \/ entries = <<>> THEN since ELSE now
  BY Zenon DEF Command
<1> DEFINE r == handle_command(c, db, clients[fd], now, wall)
<1>1.   LET entries == Appended(c, clients[fd].in_multi, r)
        IN  /\ clients' = [clients EXCEPT ![fd] = r.client]
            /\ log' = log \o entries
            /\ phase' = IF entries = <<>> THEN "loop" ELSE "append"
            /\ since' = IF dirty \/ entries = <<>> THEN since ELSE now
  BY Zenon, <1>0
<1> DEFINE entries == Appended(c, clients[fd].in_multi, r)
<1>2. Answers(r, clients[fd])
  BY Zenon, HandleAnswers DEF IInv, Types
<1> HIDE DEF r
<1>3. IsSeq(entries)
  BY Zenon, <1>2, AppendedSeq DEF Answers
<1>4. IsSeq(log') /\ Len(log') = Len(log) + Len(entries) /\ Len(entries) \in Nat /\ Len(log) \in Nat
  BY Zenon, <1>1, <1>3, SeqFacts DEF IInv, Types
<1>5. \A f \in Clients : IsClient(clients'[f])
  BY Zenon, <1>1, <1>2 DEF IInv, Types, Answers
<1>6. entries = <<>> <=> log' = log
  <2>1. entries = <<>> => log' = log
    BY Zenon, <1>1, SeqParts DEF IInv, Types
  <2>2. log' = log => Len(entries) = 0
    BY <1>4
  <2> QED BY Zenon, <1>3, <2>1, <2>2, SeqParts
<1>7. phase' \in {"loop", "append"} /\ (phase' = "loop" => log' = log)
      /\ since' = IF dirty \/ log' = log THEN since ELSE now
  BY Zenon, <1>1, <1>6
<1>8. phase = "poll" /\ UNCHANGED <<appendfsync, wake, synced, last_sync, now, acked>>
  BY Zenon DEF Command
<1>9. clients' = [f \in Clients |-> clients'[f]]
  BY Zenon, <1>1 DEF IInv, Types
<1>10. since' \in Nat
  BY Zenon, <1>7 DEF IInv, Types
<1>11. Types'
  BY <1>4, <1>5, <1>7, <1>8, <1>9, <1>10 DEF IInv, Types
<1> QED BY <1>4, <1>7, <1>8, <1>11

(* Every step of the loop, the clock and the disk keeps the invariant. *)
LEMMA NextInv == IInv /\ [Next]_vars => IInv'
<1> SUFFICES ASSUME IInv, [Next]_vars PROVE IInv'
  OBVIOUS
<1> USE DEF IInv
<1>1. IsSeq(log) /\ Len(log) \in Nat
  BY Zenon, SeqFacts DEF Types
<1>2. ASSUME NEW fd \in Clients, NEW c \in Requests, Command(fd, c) PROVE IInv'
  <2>1. /\ Types' /\ phase = "poll" /\ phase' \in {"loop", "append"}
        /\ Len(log') \in Nat /\ Len(log) <= Len(log')
        /\ phase' = "loop" => log' = log
        /\ since' = IF dirty \/ log' = log THEN since ELSE now
        /\ UNCHANGED <<appendfsync, synced, last_sync, now, acked>>
    BY <1>2, CommandLog
  <2>2. AlwaysInv'
    BY <1>1, <2>1 DEF AlwaysInv, Types
  <2>3. EverysecInv'
    BY <1>1, <2>1 DEF EverysecInv, Types, Running, dirty
  <2> QED BY <1>1, <2>1, <2>2, <2>3 DEF Types
<1>3. CASE Acknowledge
  <2>1. Types'
    BY <1>1, <1>3 DEF Types, Acknowledge, sync_if_due
  <2>2. AlwaysInv' /\ EverysecInv'
    BY <1>1, <1>3 DEF AlwaysInv, EverysecInv, Types, Running, dirty, Acknowledge, sync_if_due, SyncIsDue
  <2> QED BY <1>1, <1>3, <2>1, <2>2 DEF Types, Acknowledge, sync_if_due
<1>4. CASE EnterPoll
  <2>1. Types'
    BY <1>1, <1>4 DEF Types, EnterPoll, sync_if_due, sync_timeout
  <2>2. AlwaysInv' /\ EverysecInv'
    BY <1>1, <1>4 DEF AlwaysInv, EverysecInv, Types, Running, dirty, EnterPoll, sync_if_due, SyncIsDue, sync_timeout
  <2> QED BY <1>1, <1>4, <2>1, <2>2 DEF Types, EnterPoll, sync_if_due
<1>5. CASE PollTimesOut
  BY <1>1, <1>5 DEF PollTimesOut, Types, AlwaysInv, EverysecInv, Running, dirty
<1>6. CASE Tick
  BY <1>1, <1>6 DEF Tick, Types, AlwaysInv, EverysecInv, Running, dirty
<1>7. CASE Crash
  <2>1. PICK n \in synced .. Len(log) : log' = SubSeq(log, 1, n)
    BY <1>7 DEF Crash
  <2>2. n \in 0 .. Len(log)
    BY <1>1 DEF Types
  <2>3. IsSeq(log') /\ Len(log') = n
    BY Zenon, <1>1, <2>1, <2>2, SeqParts
  <2>4. Types'
    BY <1>7, <2>3, ConnectedClients DEF Crash, Types
  <2> QED BY <1>7, <2>3, <2>4 DEF Crash, Types, AlwaysInv, EverysecInv, Running
<1>8. CASE Restart
  <2>1. \/ /\ phase' = "loop" /\ synced' = Len(log) /\ last_sync' = now /\ acked' = Len(log)
        \/ phase' = "refused" /\ UNCHANGED <<synced, last_sync, acked>>
    BY <1>8 DEF Restart
  <2>2. UNCHANGED <<appendfsync, wake, clients, log, now, since>>
    BY <1>8 DEF Restart
  <2> QED BY <1>1, <2>1, <2>2 DEF Types, AlwaysInv, EverysecInv, Running, dirty
<1>9. CASE UNCHANGED vars
  BY <1>9 DEF vars, Types, AlwaysInv, EverysecInv, Running, dirty
<1> QED
  BY <1>2, <1>3, <1>4, <1>5, <1>6, <1>7, <1>8, <1>9 DEF Next

-------------------------------------------------------------------------------

(* What is on disk, what is acknowledged and what waits for fsync stay     *)
(* within the bounds of the policy (aof.cpp:188-214).                      *)
THEOREM Invariance == Spec => []IInv
BY InitInv, NextInv, PTL DEF Spec

(* With appendfsync always no crash loses a write whose reply was sent     *)
(* (aof.cpp:188), however many crashes there are.                          *)
THEOREM AcknowledgedWritesSurvive == Spec => []AcknowledgedSurvives
<1>1. IInv => AcknowledgedSurvives
  BY SeqFacts DEF IInv, Types, AlwaysInv, AcknowledgedSurvives
<1> QED BY <1>1, Invariance, PTL

(* With appendfsync everysec an entry waits at most a second for fsync     *)
(* (aof.cpp:210), whatever the clients send.                               *)
THEOREM EverysecLosesASecond == Spec => []LossIsBounded
<1>1. IInv => LossIsBounded
  BY DEF IInv, Types, EverysecInv, LossIsBounded, Running
<1> QED BY <1>1, Invariance, PTL

===============================================================================
