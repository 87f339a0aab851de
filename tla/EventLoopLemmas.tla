---------------------------- MODULE EventLoopLemmas ----------------------------
(***************************************************************************)
(* What the parts of Server::run do to its state: closing connections,     *)
(* delivering messages, propagating writes, serving and expiring waiters,  *)
(* compacting the slots, and the timeout of poll.  Each keeps the state    *)
(* sound (Sound, below); the loops are followed round by round.            *)
(***************************************************************************)
EXTENDS EventLoop, SessionProofs

-------------------------------------------------------------------------------
(* The state of run(), by its fields. *)
Loop(db, clients, fds, waiters, replicas) ==
  [db |-> db, clients |-> clients, fds |-> fds, waiters |-> waiters, replicas |-> replicas]

IsLoop(sv) == \E d, c, f, w, r : sv = Loop(d, c, f, w, r)

(* Assignments to its fields. *)
WithDb(sv, x)       == [sv EXCEPT !.db = x]
WithClients(sv, x)  == [sv EXCEPT !.clients = x]
WithFds(sv, x)      == [sv EXCEPT !.fds = x]
WithWaiters(sv, x)  == [sv EXCEPT !.waiters = x]
WithReplicas(sv, x) == [sv EXCEPT !.replicas = x]

(* Reading a field. *)
LEMMA LoopFields ==
  ASSUME NEW d, NEW c, NEW f, NEW w, NEW r
  PROVE  LET sv == Loop(d, c, f, w, r)
         IN  /\ IsLoop(sv) /\ sv.db = d /\ sv.clients = c /\ sv.fds = f
             /\ sv.waiters = w /\ sv.replicas = r
<1>1. IsLoop(Loop(d, c, f, w, r))
  BY Zenon DEF IsLoop
<1>2. LET sv == Loop(d, c, f, w, r)
      IN  sv.db = d /\ sv.clients = c /\ sv.fds = f /\ sv.waiters = w /\ sv.replicas = r
  BY Zenon DEF Loop
<1> QED BY Zenon, <1>1, <1>2

(* The store is assigned. *)
LEMMA WithDbSets ==
  ASSUME NEW sv, IsLoop(sv), NEW x
  PROVE  /\ IsLoop(WithDb(sv, x))
         /\ WithDb(sv, x).db = x
         /\ WithDb(sv, x).clients = sv.clients
         /\ WithDb(sv, x).fds = sv.fds
         /\ WithDb(sv, x).waiters = sv.waiters
         /\ WithDb(sv, x).replicas = sv.replicas
<1>1. PICK d, c, f, w, r : sv = Loop(d, c, f, w, r)
  BY Zenon DEF IsLoop
<1>2. WithDb(sv, x) = Loop(x, c, f, w, r)
  BY <1>1 DEF WithDb, Loop
<1> QED BY <1>1, <1>2, LoopFields

(* So are the connections. *)
LEMMA WithClientsSets ==
  ASSUME NEW sv, IsLoop(sv), NEW x
  PROVE  /\ IsLoop(WithClients(sv, x))
         /\ WithClients(sv, x).clients = x
         /\ WithClients(sv, x).db = sv.db
         /\ WithClients(sv, x).fds = sv.fds
         /\ WithClients(sv, x).waiters = sv.waiters
         /\ WithClients(sv, x).replicas = sv.replicas
<1>1. PICK d, c, f, w, r : sv = Loop(d, c, f, w, r)
  BY Zenon DEF IsLoop
<1>2. WithClients(sv, x) = Loop(d, x, f, w, r)
  BY <1>1 DEF WithClients, Loop
<1> QED BY <1>1, <1>2, LoopFields

(* The slots. *)
LEMMA WithFdsSets ==
  ASSUME NEW sv, IsLoop(sv), NEW x
  PROVE  /\ IsLoop(WithFds(sv, x))
         /\ WithFds(sv, x).fds = x
         /\ WithFds(sv, x).db = sv.db
         /\ WithFds(sv, x).clients = sv.clients
         /\ WithFds(sv, x).waiters = sv.waiters
         /\ WithFds(sv, x).replicas = sv.replicas
<1>1. PICK d, c, f, w, r : sv = Loop(d, c, f, w, r)
  BY Zenon DEF IsLoop
<1>2. WithFds(sv, x) = Loop(d, c, x, w, r)
  BY <1>1 DEF WithFds, Loop
<1> QED BY <1>1, <1>2, LoopFields

(* The waiters. *)
LEMMA WithWaitersSets ==
  ASSUME NEW sv, IsLoop(sv), NEW x
  PROVE  /\ IsLoop(WithWaiters(sv, x))
         /\ WithWaiters(sv, x).waiters = x
         /\ WithWaiters(sv, x).db = sv.db
         /\ WithWaiters(sv, x).clients = sv.clients
         /\ WithWaiters(sv, x).fds = sv.fds
         /\ WithWaiters(sv, x).replicas = sv.replicas
<1>1. PICK d, c, f, w, r : sv = Loop(d, c, f, w, r)
  BY Zenon DEF IsLoop
<1>2. WithWaiters(sv, x) = Loop(d, c, f, x, r)
  BY <1>1 DEF WithWaiters, Loop
<1> QED BY <1>1, <1>2, LoopFields

(* The replicas. *)
LEMMA WithReplicasSets ==
  ASSUME NEW sv, IsLoop(sv), NEW x
  PROVE  /\ IsLoop(WithReplicas(sv, x))
         /\ WithReplicas(sv, x).replicas = x
         /\ WithReplicas(sv, x).db = sv.db
         /\ WithReplicas(sv, x).clients = sv.clients
         /\ WithReplicas(sv, x).fds = sv.fds
         /\ WithReplicas(sv, x).waiters = sv.waiters
<1>1. PICK d, c, f, w, r : sv = Loop(d, c, f, w, r)
  BY Zenon DEF IsLoop
<1>2. WithReplicas(sv, x) = Loop(d, c, f, w, x)
  BY <1>1 DEF WithReplicas, Loop
<1> QED BY <1>1, <1>2, LoopFields

-------------------------------------------------------------------------------
(* What holds of the state of run() at any moment.  F is the set of the    *)
(* numbers the kernel may give to connections.                             *)

Conns(fds) == {fds[i] : i \in DOMAIN fds} \ {-1}

SlotsOk(fds, F) ==
  /\ fds \in Seq(F \cup {-1})
  /\ \A i, j \in DOMAIN fds : fds[i] = fds[j] /\ fds[i] # -1 => i = j

DbOk(db) == IsDb(db) /\ Paired(db.subscribers) /\ db.repl_offset \in Nat

(* A connection and what the store has for it. *)
ClientOk(db, client, fd) ==
  /\ Agrees(db, client) /\ client.fd = fd
  /\ client.in_multi => client.subscriptions = {}

ClientsOk(db, clients, open) ==
  /\ DOMAIN clients = open
  /\ \A fd \in open : ClientOk(db, clients[fd], fd)
  /\ \A p \in db.subscribers : p[2] \in open

IsWaiter(w) ==
  /\ w.kind \in {"List", "Stream", "Wait"} /\ w.deadline \in Nat \cup {-1}
  /\ w.kind = "List" => IsSeq(w.keys)
  /\ w.kind = "Wait" => w.count \in Int

WaitersOk(waiters, open) ==
  /\ IsSeq(waiters)
  /\ \A i \in DOMAIN waiters : IsWaiter(waiters[i]) /\ waiters[i].fd \in open

Sound(sv, F) ==
  /\ IsLoop(sv) /\ DbOk(sv.db) /\ SlotsOk(sv.fds, F)
  /\ ClientsOk(sv.db, sv.clients, Conns(sv.fds))
  /\ WaitersOk(sv.waiters, Conns(sv.fds))
  /\ DOMAIN sv.replicas \subseteq Conns(sv.fds)

-------------------------------------------------------------------------------
(* Closing connections: close_client, server.cpp:283. *)

(* The slots of the closed connections become free. *)
Vacated(fds, closed) == [i \in DOMAIN fds |-> IF fds[i] \in closed THEN -1 ELSE fds[i]]

(* The others stay. *)
LEMMA VacatedSlots ==
  ASSUME NEW F, NEW fds, SlotsOk(fds, F), NEW closed
  PROVE  LET new == Vacated(fds, closed)
         IN  /\ SlotsOk(new, F) /\ Conns(new) = Conns(fds) \ closed
             /\ DOMAIN new = DOMAIN fds /\ Len(new) = Len(fds)
<1> DEFINE new == Vacated(fds, closed)
<1>1. fds \in Seq(F \cup {-1})
  BY Zenon DEF SlotsOk
<1>2. new \in Seq(F \cup {-1}) /\ Len(new) = Len(fds) /\ DOMAIN new = DOMAIN fds
  BY <1>1 DEF Vacated
<1>3. \A i \in DOMAIN fds : new[i] = IF fds[i] \in closed THEN -1 ELSE fds[i]
  BY Zenon DEF Vacated
<1> HIDE DEF new
<1>4. \A i, j \in DOMAIN new : new[i] = new[j] /\ new[i] # -1 => i = j
  BY Zenon, <1>2, <1>3 DEF SlotsOk
<1>5. \A x : x \in Conns(new) <=> x \in Conns(fds) \ closed
  BY Zenon, <1>2, <1>3 DEF Conns
<1>6. Conns(new) = Conns(fds) \ closed
  BY Zenon, <1>5
<1>7. SlotsOk(new, F)
  BY Zenon, <1>2, <1>4 DEF SlotsOk
<1> QED BY Zenon, <1>2, <1>6, <1>7 DEF new

(* The pairs of the connections that are not closed. *)
Dropped(P, closed) == {pair \in P : pair[2] \notin closed}

(* The other connections listen to what they did. *)
LEMMA ListensDropped ==
  ASSUME NEW P, Paired(P), NEW closed
  PROVE  /\ Paired(Dropped(P, closed))
         /\ \A g : g \notin closed => Listens(Dropped(P, closed), g) = Listens(P, g)
<1> DEFINE S == Dropped(P, closed)
<1>1. \A x, g : <<x, g>>[2] = g
  BY Zenon
<1>2. Paired(S)
  BY Zenon DEF Paired, Dropped
<1>3. \A x, g : <<x, g>> \in S <=> <<x, g>> \in P /\ g \notin closed
  BY Zenon, <1>1 DEF Dropped
<1> HIDE DEF S
<1>4. /\ \A x, g : x \in Listens(P, g) <=> <<x, g>> \in P
      /\ \A x, g : x \in Listens(S, g) <=> <<x, g>> \in S
  BY Zenon, <1>2, ListensIff
<1>5. ASSUME NEW g, g \notin closed PROVE Listens(S, g) = Listens(P, g)
  <2>1. \A x : x \in Listens(S, g) <=> x \in Listens(P, g)
    BY Zenon, <1>3, <1>4, <1>5
  <2> QED BY Zenon, <2>1
<1> QED BY Zenon, <1>2, <1>5 DEF S

(* The loop that keeps some of the elements of a sequence. *)
Keeping(f, n, seq, positions) ==
  f = [i \in 0 .. n |-> IF i = 0 THEN <<>> ELSE IF i \in positions THEN Append(f[i - 1], seq[i]) ELSE f[i - 1]]

(* There is such a run. *)
LEMMA KeptRounds ==
  ASSUME NEW n \in Nat, NEW seq, NEW positions
  PROVE  \E f : Keeping(f, n, seq, positions)
<1> DEFINE Round(b, i) == IF i \in positions THEN Append(b, seq[i]) ELSE b
           first == <<>>
           S == {m \in 0 .. n : \E f : f = [i \in 0 .. m |-> IF i = 0 THEN first ELSE Round(f[i - 1], i)]}
<1> HIDE DEF Round, first
<1>1. 0 \in S
  <2> DEFINE f == [i \in 0 .. 0 |-> first]
  <2>1. f = [i \in 0 .. 0 |-> IF i = 0 THEN first ELSE Round(f[i - 1], i)]
    OBVIOUS
  <2>2. 0 \in 0 .. n
    OBVIOUS
  <2> HIDE DEF f
  <2> QED BY Zenon, <2>1, <2>2
<1>2. ASSUME NEW m \in 0 .. n - 1, m \in S PROVE m + 1 \in S
  <2>1. PICK f : f = [i \in 0 .. m |-> IF i = 0 THEN first ELSE Round(f[i - 1], i)]
    BY Zenon, <1>2
  <2> DEFINE g == [i \in 0 .. m + 1 |-> IF i = m + 1 THEN Round(f[m], m + 1) ELSE f[i]]
  <2>2. ASSUME NEW i \in 0 .. m + 1 PROVE g[i] = IF i = 0 THEN first ELSE Round(g[i - 1], i)
    <3>1. CASE i = m + 1
      <4>1. i - 1 = m /\ i # 0 /\ m \in 0 .. m + 1 /\ m # m + 1 /\ m + 1 \in 0 .. m + 1
        BY <3>1
      <4>2. g[i] = Round(f[m], m + 1) /\ g[i - 1] = f[m]
        BY Zenon, <3>1, <4>1
      <4> QED BY Zenon, <3>1, <4>1, <4>2
    <3>2. CASE i \in 0 .. m /\ i # m + 1
      <4>1. g[i] = f[i]
        BY Zenon, <3>2
      <4>2. f[i] = IF i = 0 THEN first ELSE Round(f[i - 1], i)
        BY Zenon, <2>1, <3>2
      <4>3. i # 0 => i - 1 \in 0 .. m + 1 /\ i - 1 # m + 1
        BY <3>2
      <4>4. i # 0 => g[i - 1] = f[i - 1]
        BY Zenon, <4>3
      <4> QED BY Zenon, <4>1, <4>2, <4>4
    <3>3. i = m + 1 \/ (i \in 0 .. m /\ i # m + 1)
      OBVIOUS
    <3> QED BY Zenon, <3>1, <3>2, <3>3
  <2>3. g = [i \in 0 .. m + 1 |-> IF i = 0 THEN first ELSE Round(g[i - 1], i)]
    BY Zenon, <2>2
  <2>4. m + 1 \in 0 .. n
    OBVIOUS
  <2> HIDE DEF g
  <2> QED BY Zenon, <2>3, <2>4
<1>3. n \in S
  <2>1. \A i \in 0 .. n : i \in S
    BY Zenon, <1>1, <1>2, UpTo
  <2>2. n \in 0 .. n
    OBVIOUS
  <2> QED BY Zenon, <2>1, <2>2
<1> QED BY Zenon, <1>3 DEF Round, first, Keeping

(* Nothing is kept that was not there. *)
LEMMA KeptElements ==
  ASSUME NEW seq, IsSeq(seq), NEW positions
  PROVE  /\ IsSeq(Kept(seq, positions))
         /\ \A j \in DOMAIN Kept(seq, positions) :
              \E i \in DOMAIN seq : i \in positions /\ Kept(seq, positions)[j] = seq[i]
<1> DEFINE n    == Len(seq)
           kept == CHOOSE f : f = [i \in 0 .. n |-> IF i = 0 THEN <<>>
                     ELSE IF i \in positions THEN Append(f[i - 1], seq[i]) ELSE f[i - 1]]
           Part(s) == /\ IsSeq(s)
                      /\ \A j \in DOMAIN s : \E i \in DOMAIN seq : i \in positions /\ s[j] = seq[i]
           S    == {i \in 0 .. n : Part(kept[i])}
<1>1. n \in Nat /\ DOMAIN seq = 1 .. n
  <2>1. PICK T : seq \in Seq(T)
    BY Zenon DEF IsSeq
  <2> QED BY <2>1
<1>2. kept = [i \in 0 .. n |-> IF i = 0 THEN <<>>
                ELSE IF i \in positions THEN Append(kept[i - 1], seq[i]) ELSE kept[i - 1]]
  <2>1. \E f : Keeping(f, n, seq, positions)
    BY Zenon, <1>1, KeptRounds
  <2> QED BY Zenon, <2>1 DEF Keeping
<1> HIDE DEF kept, n
<1>3. Part(<<>>)
  <2>1. DOMAIN <<>> = {}
    OBVIOUS
  <2> QED BY Zenon, <2>1, SeqFacts
<1>4. ASSUME NEW s, Part(s), NEW k \in DOMAIN seq, k \in positions PROVE Part(Append(s, seq[k]))
  <2>1. PICK T : s \in Seq(T)
    BY Zenon, <1>4 DEF IsSeq
  <2>2. \A x : /\ DOMAIN Append(s, x) = DOMAIN s \cup {Len(s) + 1}
               /\ \A j \in DOMAIN s : Append(s, x)[j] = s[j]
               /\ Append(s, x)[Len(s) + 1] = x
    BY <2>1
  <2>3. IsSeq(Append(s, seq[k]))
    BY Zenon, <1>4, SeqFacts
  <2>4. ASSUME NEW j \in DOMAIN Append(s, seq[k])
        PROVE  \E i \in DOMAIN seq : i \in positions /\ Append(s, seq[k])[j] = seq[i]
    <3>1. CASE j \in DOMAIN s
      <4>1. Append(s, seq[k])[j] = s[j]
        BY Zenon, <2>2, <3>1
      <4> QED BY Zenon, <1>4, <3>1, <4>1
    <3>2. CASE j = Len(s) + 1
      <4>1. Append(s, seq[k])[j] = seq[k]
        BY Zenon, <2>2, <3>2
      <4> QED BY Zenon, <1>4, <4>1
    <3> QED BY Zenon, <2>2, <2>4, <3>1, <3>2
  <2> QED BY Zenon, <2>3, <2>4
<1> HIDE DEF Part
<1>5. 0 \in S
  <2>1. 0 \in 0 .. n
    BY <1>1
  <2> QED BY Zenon, <1>2, <1>3, <2>1
<1>6. ASSUME NEW i \in 0 .. n - 1, i \in S PROVE i + 1 \in S
  <2>1. i + 1 \in 0 .. n /\ i + 1 # 0 /\ (i + 1) - 1 = i /\ i + 1 \in DOMAIN seq
    BY <1>1
  <2>2. kept[i + 1] = IF i + 1 \in positions THEN Append(kept[i], seq[i + 1]) ELSE kept[i]
    BY Zenon, <1>2, <2>1
  <2> QED BY Zenon, <1>4, <1>6, <2>1, <2>2
<1>7. n \in S
  <2>1. \A i \in 0 .. n : i \in S
    <3> HIDE DEF S
    <3> QED BY Zenon, <1>1, <1>5, <1>6, UpTo
  <2>2. n \in 0 .. n
    BY <1>1
  <2> QED BY Zenon, <2>1, <2>2
<1>8. Kept(seq, positions) = kept[n]
  BY Zenon DEF Kept, kept, n
<1> QED BY Zenon, <1>7, <1>8 DEF Part

(* Kept is the last step of a run of its loop. *)
LEMMA KeptRun ==
  ASSUME NEW seq, IsSeq(seq), NEW positions
  PROVE  \E f : Keeping(f, Len(seq), seq, positions) /\ Kept(seq, positions) = f[Len(seq)]
<1> DEFINE n    == Len(seq)
           kept == CHOOSE f : f = [i \in 0 .. n |-> IF i = 0 THEN <<>>
                     ELSE IF i \in positions THEN Append(f[i - 1], seq[i]) ELSE f[i - 1]]
<1>1. n \in Nat
  BY Zenon, SeqFacts
<1>2. Keeping(kept, n, seq, positions)
  <2>1. \E f : Keeping(f, n, seq, positions)
    BY Zenon, <1>1, KeptRounds
  <2> QED BY Zenon, <2>1 DEF Keeping
<1>3. Kept(seq, positions) = kept[n]
  BY Zenon DEF Kept
<1> HIDE DEF kept
<1> QED BY Zenon, <1>2, <1>3

(* The run on a longer sequence starts with the run on a shorter one. *)
LEMMA KeptAgrees ==
  ASSUME NEW n \in Nat, NEW m \in Nat, n <= m, NEW s, NEW t, NEW P, NEW Q, NEW f, NEW g,
         Keeping(f, n, s, P), Keeping(g, m, t, Q),
         \A i \in 1 .. n : s[i] = t[i] /\ (i \in P <=> i \in Q)
  PROVE  f[n] = g[n]
<1> DEFINE S == {i \in 0 .. n : f[i] = g[i]}
<1>1. 0 \in S
  <2>1. 0 \in 0 .. n /\ 0 \in 0 .. m
    OBVIOUS
  <2>2. f[0] = <<>> /\ g[0] = <<>>
    BY Zenon, <2>1 DEF Keeping
  <2> QED BY Zenon, <2>1, <2>2
<1>2. ASSUME NEW i \in 0 .. n - 1, i \in S PROVE i + 1 \in S
  <2>1. i + 1 \in 0 .. n /\ i + 1 \in 0 .. m /\ i + 1 \in 1 .. n /\ i + 1 # 0 /\ (i + 1) - 1 = i
    OBVIOUS
  <2>2. f[i + 1] = IF i + 1 \in P THEN Append(f[i], s[i + 1]) ELSE f[i]
    BY Zenon, <2>1 DEF Keeping
  <2>3. g[i + 1] = IF i + 1 \in Q THEN Append(g[i], t[i + 1]) ELSE g[i]
    BY Zenon, <2>1 DEF Keeping
  <2>4. f[i] = g[i] /\ s[i + 1] = t[i + 1] /\ (i + 1 \in P <=> i + 1 \in Q)
    BY Zenon, <1>2, <2>1
  <2>5. f[i + 1] = g[i + 1]
    BY Zenon, <2>2, <2>3, <2>4
  <2> QED BY Zenon, <2>1, <2>5
<1>3. \A i \in 0 .. n : i \in S
  <2> HIDE DEF S
  <2> QED BY Zenon, <1>1, <1>2, UpTo
<1>4. n \in 0 .. n
  OBVIOUS
<1> QED BY Zenon, <1>3, <1>4

(* Those of the waiters that are in W. *)
Chosen(ws, W) == Kept(ws, {i \in DOMAIN ws : ws[i] \in W})

(* One more waiter. *)
LEMMA ChosenAppend ==
  ASSUME NEW ws, IsSeq(ws), NEW x, NEW W
  PROVE  Chosen(Append(ws, x), W) = IF x \in W THEN Append(Chosen(ws, W), x) ELSE Chosen(ws, W)
<1> DEFINE n == Len(ws)
           t == Append(ws, x)
           P == {i \in DOMAIN ws : ws[i] \in W}
           Q == {i \in DOMAIN t : t[i] \in W}
<1>1. /\ n \in Nat /\ DOMAIN ws = 1 .. n /\ DOMAIN t = 1 .. n + 1 /\ Len(t) = n + 1
      /\ t[n + 1] = x /\ \A i \in 1 .. n : t[i] = ws[i]
  <2>1. PICK T : ws \in Seq(T)
    BY Zenon DEF IsSeq
  <2> QED BY <2>1
<1>2. IsSeq(t)
  BY Zenon, SeqFacts
<1> HIDE DEF t, n
<1>3. PICK f : Keeping(f, n, ws, P) /\ Kept(ws, P) = f[n]
  <2> HIDE DEF P
  <2> QED BY Zenon, KeptRun DEF n
<1>4. PICK g : Keeping(g, n + 1, t, Q) /\ Kept(t, Q) = g[n + 1]
  <2> HIDE DEF Q
  <2>1. \E g : Keeping(g, Len(t), t, Q) /\ Kept(t, Q) = g[Len(t)]
    BY Zenon, <1>2, KeptRun
  <2> QED BY Zenon, <1>1, <2>1
<1>5. \A i \in 1 .. n : ws[i] = t[i] /\ (i \in P <=> i \in Q)
  BY <1>1
<1>6. n + 1 \in Q <=> x \in W
  BY <1>1
<1> HIDE DEF P, Q
<1>7. f[n] = g[n]
  <2>1. n + 1 \in Nat /\ n <= n + 1
    BY <1>1
  <2> QED BY <1>1, <1>3, <1>4, <1>5, <2>1, KeptAgrees
<1>8. g[n + 1] = IF n + 1 \in Q THEN Append(g[n], t[n + 1]) ELSE g[n]
  <2>1. n + 1 \in 0 .. n + 1 /\ n + 1 # 0 /\ (n + 1) - 1 = n
    BY <1>1
  <2> QED BY Zenon, <1>4, <2>1 DEF Keeping
<1> QED BY Zenon, <1>1, <1>3, <1>4, <1>6, <1>7, <1>8 DEF Chosen, P, Q, t

(* None of none. *)
LEMMA ChosenOfNone ==
  ASSUME NEW W
  PROVE  Chosen(<<>>, W) = <<>>
<1> DEFINE P == {i \in DOMAIN <<>> : <<>>[i] \in W}
<1> HIDE DEF P
<1>1. PICK f : Keeping(f, Len(<<>>), <<>>, P) /\ Kept(<<>>, P) = f[Len(<<>>)]
  BY Zenon, KeptRun, SeqFacts
<1>2. Len(<<>>) = 0 /\ 0 \in 0 .. 0
  OBVIOUS
<1>3. f[0] = <<>>
  BY Zenon, <1>1, <1>2 DEF Keeping
<1> QED BY Zenon, <1>1, <1>2, <1>3 DEF Chosen, P

(* It is a sequence. *)
LEMMA ChosenIsSeq ==
  ASSUME NEW ws, IsSeq(ws), NEW W
  PROVE  IsSeq(Chosen(ws, W))
BY Zenon, KeptElements DEF Chosen

(* Leaving out waiters that are not in W leaves those that are. *)
LEMMA ChosenOfKept ==
  ASSUME NEW ws, IsSeq(ws), NEW P, NEW W, \A i \in DOMAIN ws : ws[i] \in W => i \in P
  PROVE  Chosen(Kept(ws, P), W) = Chosen(ws, W)
<1> DEFINE n      == Len(ws)
           pre(i) == SubSeq(ws, 1, i)
<1>1. PICK f : Keeping(f, n, ws, P) /\ Kept(ws, P) = f[n]
  BY Zenon, KeptRun
<1> DEFINE S == {i \in 0 .. n : IsSeq(f[i]) /\ Chosen(f[i], W) = Chosen(pre(i), W)}
<1>2. /\ n \in Nat /\ DOMAIN ws = 1 .. n /\ pre(0) = <<>> /\ pre(n) = ws
      /\ \A i \in 0 .. n - 1 : pre(i + 1) = Append(pre(i), ws[i + 1])
      /\ \A i \in 0 .. n : IsSeq(pre(i))
  BY Zenon, Prefixes
<1> HIDE DEF n, pre
<1>3. 0 \in S
  <2>1. 0 \in 0 .. n
    BY <1>2
  <2>2. f[0] = <<>>
    BY Zenon, <1>1, <2>1 DEF Keeping
  <2> QED BY Zenon, <1>2, <2>1, <2>2, SeqFacts
<1>4. ASSUME NEW i \in 0 .. n - 1, i \in S PROVE i + 1 \in S
  <2>1. i + 1 \in 0 .. n /\ i \in 0 .. n /\ i + 1 # 0 /\ (i + 1) - 1 = i /\ i + 1 \in DOMAIN ws
    BY <1>2
  <2>2. f[i + 1] = IF i + 1 \in P THEN Append(f[i], ws[i + 1]) ELSE f[i]
    BY Zenon, <1>1, <2>1 DEF Keeping
  <2>3. IsSeq(f[i]) /\ Chosen(f[i], W) = Chosen(pre(i), W) /\ IsSeq(pre(i))
    BY Zenon, <1>2, <1>4, <2>1
  <2>4. Chosen(pre(i + 1), W) = IF ws[i + 1] \in W THEN Append(Chosen(pre(i), W), ws[i + 1]) ELSE Chosen(pre(i), W)
    <3>1. pre(i + 1) = Append(pre(i), ws[i + 1])
      BY Zenon, <1>2
    <3>2. \A x : Chosen(Append(pre(i), x), W) = IF x \in W THEN Append(Chosen(pre(i), W), x) ELSE Chosen(pre(i), W)
      BY Zenon, <2>3, ChosenAppend
    <3> QED BY Zenon, <3>1, <3>2
  <2>5. Chosen(Append(f[i], ws[i + 1]), W) = IF ws[i + 1] \in W THEN Append(Chosen(f[i], W), ws[i + 1]) ELSE Chosen(f[i], W)
    <3>1. \A x : Chosen(Append(f[i], x), W) = IF x \in W THEN Append(Chosen(f[i], W), x) ELSE Chosen(f[i], W)
      BY ZenonT(60), <2>3, ChosenAppend
    <3> QED BY Zenon, <3>1
  <2>6. IsSeq(f[i + 1]) /\ Chosen(f[i + 1], W) = Chosen(pre(i + 1), W)
    <3>1. CASE i + 1 \in P
      BY Zenon, <2>2, <2>3, <2>4, <2>5, <3>1, SeqFacts
    <3>2. CASE i + 1 \notin P
      <4>1. ws[i + 1] \notin W
        BY Zenon, <2>1, <3>2
      <4> QED BY Zenon, <2>2, <2>3, <2>4, <3>2, <4>1
    <3> QED BY Zenon, <3>1, <3>2
  <2> QED BY Zenon, <2>1, <2>6
<1>5. n \in S
  <2>1. \A i \in 0 .. n : i \in S
    <3> HIDE DEF S
    <3> QED BY Zenon, <1>2, <1>3, <1>4, UpTo
  <2>2. n \in 0 .. n
    BY <1>2
  <2> QED BY Zenon, <2>1, <2>2
<1> QED BY Zenon, <1>1, <1>2, <1>5

(* Waiters that stay wait for connections that stay. *)
LEMMA KeptWaiters ==
  ASSUME NEW waiters, NEW open, WaitersOk(waiters, open), NEW positions, NEW left,
         \A i \in DOMAIN waiters : i \in positions => waiters[i].fd \in left
  PROVE  WaitersOk(Kept(waiters, positions), left)
<1> DEFINE new == Kept(waiters, positions)
<1>1. IsSeq(new) /\ \A j \in DOMAIN new : \E i \in DOMAIN waiters : i \in positions /\ new[j] = waiters[i]
  <2>1. IsSeq(waiters)
    BY Zenon DEF WaitersOk
  <2> QED BY <2>1, KeptElements
<1> HIDE DEF new
<1>2. WaitersOk(new, left)
  BY Zenon, <1>1 DEF WaitersOk
<1> QED BY Zenon, <1>2 DEF new

(* close_client leaves a sound state. *)
LEMMA CloseSound ==
  ASSUME NEW F, NEW sv, Sound(sv, F), NEW closed
  PROVE  LET new == close_clients(sv, closed)
         IN  /\ Sound(new, F) /\ Conns(new.fds) = Conns(sv.fds) \ closed
             /\ DOMAIN new.fds = DOMAIN sv.fds /\ Len(new.fds) = Len(sv.fds)
             /\ new.db.pending_messages = sv.db.pending_messages
<1> DEFINE P    == Dropped(sv.db.subscribers, closed)
           db   == SetSubscribers(sv.db, P)
           fds  == Vacated(sv.fds, closed)
           w    == WithoutWaiters(sv.waiters, closed)
           new  == close_clients(sv, closed)
           open == Conns(sv.fds)
<1>1. /\ IsLoop(sv) /\ DbOk(sv.db) /\ SlotsOk(sv.fds, F)
      /\ ClientsOk(sv.db, sv.clients, open) /\ WaitersOk(sv.waiters, open)
      /\ DOMAIN sv.replicas \subseteq open
  BY Zenon DEF Sound
<1>2. /\ Paired(P) /\ \A g : g \notin closed => Listens(P, g) = Listens(sv.db.subscribers, g)
  BY Zenon, <1>1, ListensDropped DEF DbOk
<1>3. \A p \in P : p \in sv.db.subscribers /\ p[2] \notin closed
  BY Zenon DEF Dropped
<1>4. new = Loop(db, Without(sv.clients, closed), fds, w, Without(sv.replicas, closed))
  BY Zenon DEF close_clients, Loop, Vacated, Dropped, SetSubscribers
<1>5. /\ SlotsOk(fds, F) /\ Conns(fds) = open \ closed
      /\ DOMAIN fds = DOMAIN sv.fds /\ Len(fds) = Len(sv.fds)
  BY Zenon, <1>1, VacatedSlots
<1>6. WaitersOk(w, open \ closed)
  BY Zenon, <1>1, KeptWaiters DEF WithoutWaiters, WaitersOk
<1> HIDE DEF P, fds, w, new
<1>7. IsDb(db) /\ db.subscribers = P /\ db.repl_offset = sv.db.repl_offset
      /\ db.pending_messages = sv.db.pending_messages
  BY <1>1, DbUpdates DEF DbOk
<1> HIDE DEF db
<1>8. DbOk(db)
  BY Zenon, <1>1, <1>2, <1>7 DEF DbOk
<1>9. /\ DOMAIN Without(sv.clients, closed) = open \ closed
      /\ \A fd \in open \ closed : Without(sv.clients, closed)[fd] = sv.clients[fd]
      /\ DOMAIN Without(sv.replicas, closed) \subseteq open \ closed
  BY Zenon, <1>1 DEF Without, ClientsOk
<1>10. ASSUME NEW fd \in open \ closed PROVE ClientOk(db, sv.clients[fd], fd)
  <2>1. ClientOk(sv.db, sv.clients[fd], fd)
    BY Zenon, <1>1 DEF ClientsOk
  <2> QED BY Zenon, <1>2, <1>7, <2>1 DEF ClientOk, Agrees
<1>11. ClientsOk(db, Without(sv.clients, closed), open \ closed)
  <2>1. \A p \in db.subscribers : p[2] \in open \ closed
    BY Zenon, <1>1, <1>3, <1>7 DEF ClientsOk
  <2> QED BY Zenon, <1>9, <1>10, <2>1 DEF ClientsOk
<1>12. /\ IsLoop(new) /\ new.db = db /\ new.clients = Without(sv.clients, closed)
       /\ new.fds = fds /\ new.waiters = w /\ new.replicas = Without(sv.replicas, closed)
  BY <1>4, LoopFields
<1>13. Sound(new, F)
  BY Zenon, <1>5, <1>6, <1>8, <1>9, <1>11, <1>12 DEF Sound
<1> QED BY Zenon, <1>5, <1>7, <1>12, <1>13 DEF new


-------------------------------------------------------------------------------
(* Assignments that leave a sound state. *)

(* To the store, but for its subscribers. *)
LEMMA DbSound ==
  ASSUME NEW F, NEW sv, Sound(sv, F), NEW d, IsDb(d), d.subscribers = sv.db.subscribers,
         d.repl_offset \in Nat
  PROVE  Sound(WithDb(sv, d), F)
<1> DEFINE new  == WithDb(sv, d)
           open == Conns(sv.fds)
<1>1. /\ IsLoop(sv) /\ DbOk(sv.db) /\ SlotsOk(sv.fds, F)
      /\ ClientsOk(sv.db, sv.clients, open) /\ WaitersOk(sv.waiters, open)
      /\ DOMAIN sv.replicas \subseteq open
  BY Zenon DEF Sound
<1>2. /\ IsLoop(new) /\ new.db = d /\ new.clients = sv.clients /\ new.fds = sv.fds
      /\ new.waiters = sv.waiters /\ new.replicas = sv.replicas
  BY ZenonT(60), <1>1, WithDbSets
<1>3. DbOk(d)
  BY Zenon, <1>1 DEF DbOk
<1>4. ASSUME NEW fd \in open PROVE ClientOk(d, sv.clients[fd], fd)
  <2>1. ClientOk(sv.db, sv.clients[fd], fd)
    BY Zenon, <1>1 DEF ClientsOk
  <2> QED BY Zenon, <2>1 DEF ClientOk, Agrees
<1>5. ClientsOk(d, sv.clients, open)
  BY Zenon, <1>1, <1>4 DEF ClientsOk
<1> HIDE DEF new
<1>6. Sound(new, F)
  BY Zenon, <1>1, <1>2, <1>3, <1>5 DEF Sound
<1> QED BY Zenon, <1>6 DEF new

(* To the replicas. *)
LEMMA ReplicasSound ==
  ASSUME NEW F, NEW sv, Sound(sv, F), NEW x, DOMAIN x \subseteq Conns(sv.fds)
  PROVE  Sound(WithReplicas(sv, x), F)
<1> DEFINE new == WithReplicas(sv, x)
<1>1. IsLoop(sv)
  BY Zenon DEF Sound
<1>2. /\ IsLoop(new) /\ new.db = sv.db /\ new.clients = sv.clients /\ new.fds = sv.fds
      /\ new.waiters = sv.waiters /\ new.replicas = x
  BY ZenonT(60), <1>1, WithReplicasSets
<1> HIDE DEF new
<1>3. Sound(new, F)
  BY Zenon, <1>2 DEF Sound
<1> QED BY Zenon, <1>3 DEF new

(* To the waiters. *)
LEMMA WaitersSound ==
  ASSUME NEW F, NEW sv, Sound(sv, F), NEW x, WaitersOk(x, Conns(sv.fds))
  PROVE  Sound(WithWaiters(sv, x), F)
<1> DEFINE new == WithWaiters(sv, x)
<1>1. IsLoop(sv)
  BY Zenon DEF Sound
<1>2. /\ IsLoop(new) /\ new.db = sv.db /\ new.clients = sv.clients /\ new.fds = sv.fds
      /\ new.waiters = x /\ new.replicas = sv.replicas
  BY ZenonT(60), <1>1, WithWaitersSets
<1> HIDE DEF new
<1>3. Sound(new, F)
  BY Zenon, <1>2 DEF Sound
<1> QED BY Zenon, <1>3 DEF new

(* To a connection and the store. *)
LEMMA ClientSound ==
  ASSUME NEW F, NEW sv, Sound(sv, F), NEW d, DbOk(d), NEW fd \in Conns(sv.fds),
         NEW cl, ClientOk(d, cl, fd),
         \A g : g # fd => Listens(d.subscribers, g) = Listens(sv.db.subscribers, g)
  PROVE  Sound(WithClients(WithDb(sv, d), [sv.clients EXCEPT ![fd] = cl]), F)
<1> DEFINE clients == [sv.clients EXCEPT ![fd] = cl]
           mid  == WithDb(sv, d)
           new  == WithClients(mid, clients)
           open == Conns(sv.fds)
<1>1. /\ IsLoop(sv) /\ DbOk(sv.db) /\ SlotsOk(sv.fds, F)
      /\ ClientsOk(sv.db, sv.clients, open) /\ WaitersOk(sv.waiters, open)
      /\ DOMAIN sv.replicas \subseteq open
  BY Zenon DEF Sound
<1>2. DOMAIN sv.clients = open
  BY Zenon, <1>1 DEF ClientsOk
<1>3. DOMAIN clients = open /\ clients[fd] = cl /\ \A g \in open : g # fd => clients[g] = sv.clients[g]
  BY Zenon, <1>2
<1>4. /\ IsLoop(mid) /\ mid.db = d /\ mid.clients = sv.clients /\ mid.fds = sv.fds
      /\ mid.waiters = sv.waiters /\ mid.replicas = sv.replicas
  BY ZenonT(60), <1>1, WithDbSets
<1> HIDE DEF mid, clients
<1>5. /\ IsLoop(new) /\ new.db = d /\ new.clients = clients /\ new.fds = sv.fds
      /\ new.waiters = sv.waiters /\ new.replicas = sv.replicas
  BY <1>4, WithClientsSets
<1>6. ASSUME NEW g \in open, g # fd PROVE ClientOk(d, clients[g], g)
  <2>1. ClientOk(sv.db, sv.clients[g], g)
    BY Zenon, <1>1 DEF ClientsOk
  <2>2. clients[g] = sv.clients[g] /\ Listens(d.subscribers, g) = Listens(sv.db.subscribers, g)
    BY Zenon, <1>3, <1>6
  <2> QED BY Zenon, <2>1, <2>2 DEF ClientOk, Agrees, DbOk
<1>7. \A g \in open : ClientOk(d, clients[g], g)
  BY Zenon, <1>3, <1>6
<1>8. ASSUME NEW p \in d.subscribers PROVE p[2] \in open
  <2>1. CASE p[2] # fd
    <3>1. p = <<p[1], p[2]>> /\ Paired(d.subscribers) /\ Paired(sv.db.subscribers)
      BY Zenon, <1>1, <1>8 DEF DbOk, Paired
    <3>2. p[1] \in Listens(d.subscribers, p[2])
      BY Zenon, <1>8, <3>1, ListensIff
    <3>3. <<p[1], p[2]>> \in sv.db.subscribers
      BY Zenon, <2>1, <3>1, <3>2, ListensIff
    <3> QED BY Zenon, <1>1, <3>1, <3>3 DEF ClientsOk
  <2> QED BY Zenon, <2>1
<1>9. ClientsOk(d, clients, open)
  BY Zenon, <1>3, <1>7, <1>8 DEF ClientsOk
<1> HIDE DEF new
<1>10. Sound(new, F)
  BY Zenon, <1>1, <1>5, <1>9 DEF Sound
<1> QED BY Zenon, <1>10 DEF new, mid, clients

-------------------------------------------------------------------------------
(* Messages and replicas. *)

(* deliver_messages, server.cpp:295. *)
LEMMA DeliverSound ==
  ASSUME NEW F, NEW sv, Sound(sv, F), NEW lost
  PROVE  LET new == deliver_messages(sv, lost)
         IN  /\ Sound(new, F) /\ Conns(new.fds) \subseteq Conns(sv.fds)
             /\ DOMAIN new.fds = DOMAIN sv.fds /\ Len(new.fds) = Len(sv.fds)
             /\ new.db.pending_messages = <<>>
<1> DEFINE mid == close_clients(sv, Recipients(sv) \cap lost)
           d   == SetPending(mid.db, <<>>)
           new == WithDb(mid, d)
<1>1. /\ Sound(mid, F) /\ Conns(mid.fds) \subseteq Conns(sv.fds)
      /\ DOMAIN mid.fds = DOMAIN sv.fds /\ Len(mid.fds) = Len(sv.fds)
  <2>1. ASSUME NEW closed
        PROVE  LET c == close_clients(sv, closed)
               IN  /\ Sound(c, F) /\ Conns(c.fds) = Conns(sv.fds) \ closed
                   /\ DOMAIN c.fds = DOMAIN sv.fds /\ Len(c.fds) = Len(sv.fds)
    BY CloseSound
  <2>2. \A S, T : S \ T \subseteq S
    BY Zenon
  <2> QED BY Zenon, <2>1, <2>2
<1> HIDE DEF mid
<1>2. IsLoop(mid) /\ IsDb(mid.db) /\ mid.db.repl_offset \in Nat
  BY Zenon, <1>1 DEF Sound, DbOk
<1>3. IsDb(d) /\ d.subscribers = mid.db.subscribers /\ d.repl_offset = mid.db.repl_offset
      /\ d.pending_messages = <<>>
  BY <1>2, DbUpdates
<1>4. Sound(new, F)
  <2> HIDE DEF d
  <2> QED BY Zenon, <1>1, <1>2, <1>3, DbSound
<1>5. new.fds = mid.fds /\ new.db = d
  <2> HIDE DEF d
  <2> QED BY Zenon, <1>2, WithDbSets
<1>6. deliver_messages(sv, lost) = new
  BY Zenon DEF deliver_messages, mid, WithDb, SetPending
<1> HIDE DEF new, d
<1> QED BY Zenon, <1>1, <1>3, <1>4, <1>5, <1>6


(* A state with as much data and no more replicas. *)
Lighter(new, sv) ==
  /\ new.fds = sv.fds /\ new.waiters = sv.waiters /\ new.db.data = sv.db.data
  /\ new.db.pending_messages = sv.db.pending_messages
  /\ DOMAIN new.replicas \subseteq DOMAIN sv.replicas
  /\ \A fd \in DOMAIN new.replicas : new.replicas[fd] = sv.replicas[fd]

(* send_to_replicas, server.cpp:308. *)
LEMMA SendSound ==
  ASSUME NEW F, NEW sv, Sound(sv, F), NEW lost
  PROVE  Sound(send_to_replicas(sv, lost), F) /\ Lighter(send_to_replicas(sv, lost), sv)
<1> DEFINE d   == SetOffset(sv.db, sv.db.repl_offset + 1)
           mid == WithDb(sv, d)
           new == WithReplicas(mid, Without(sv.replicas, lost))
<1>1. IsLoop(sv) /\ IsDb(sv.db) /\ sv.db.repl_offset \in Nat /\ DOMAIN sv.replicas \subseteq Conns(sv.fds)
  BY Zenon DEF Sound, DbOk
<1>2. sv.db.repl_offset + 1 \in Nat
  BY <1>1
<1>3. IsDb(d) /\ d.subscribers = sv.db.subscribers /\ d.repl_offset \in Nat /\ d.data = sv.db.data
      /\ d.pending_messages = sv.db.pending_messages
  BY <1>1, <1>2, DbUpdates
<1> HIDE DEF d
<1>4. Sound(mid, F)
  BY Zenon, <1>3, DbSound
<1>5. IsLoop(mid) /\ mid.db = d /\ mid.fds = sv.fds /\ mid.waiters = sv.waiters /\ mid.replicas = sv.replicas
  BY ZenonT(60), <1>1, WithDbSets
<1> HIDE DEF mid
<1>6. /\ DOMAIN Without(sv.replicas, lost) \subseteq DOMAIN sv.replicas
      /\ \A fd \in DOMAIN Without(sv.replicas, lost) : Without(sv.replicas, lost)[fd] = sv.replicas[fd]
  BY Zenon DEF Without
<1>7. Sound(new, F)
  BY Zenon, <1>1, <1>4, <1>5, <1>6, ReplicasSound
<1>8. new.db = d /\ new.fds = sv.fds /\ new.waiters = sv.waiters /\ new.replicas = Without(sv.replicas, lost)
  BY <1>5, WithReplicasSets
<1>9. send_to_replicas(sv, lost) = new
  BY Zenon, <1>5 DEF send_to_replicas, mid, d, WithDb, WithReplicas, SetOffset
<1> HIDE DEF new
<1>10. Lighter(new, sv)
  BY Zenon, <1>3, <1>6, <1>8 DEF Lighter
<1> QED BY Zenon, <1>7, <1>9, <1>10

(* An assignment to a connection. *)
LEMMA OneClientSound ==
  ASSUME NEW F, NEW sv, Sound(sv, F), NEW fd \in Conns(sv.fds), NEW cl, ClientOk(sv.db, cl, fd)
  PROVE  Sound(WithClients(sv, [sv.clients EXCEPT ![fd] = cl]), F)
<1>1. IsLoop(sv) /\ DbOk(sv.db)
  BY Zenon DEF Sound
<1>2. PICK d, c, f, w, r : sv = Loop(d, c, f, w, r)
  BY Zenon, <1>1 DEF IsLoop
<1>3. WithDb(sv, sv.db) = sv
  BY Zenon, <1>2 DEF WithDb, Loop
<1>4. Sound(WithClients(WithDb(sv, sv.db), [sv.clients EXCEPT ![fd] = cl]), F)
  BY Zenon, <1>1, ClientSound
<1> QED BY Zenon, <1>3, <1>4

(* The loop that sends a number of commands to the replicas. *)
Sending(f, n, sv, lost) ==
  f = [i \in 0 .. n |-> IF i = 0 THEN sv ELSE send_to_replicas(f[i - 1], lost)]

(* There is such a run. *)
LEMMA SendRounds ==
  ASSUME NEW n \in Nat, NEW sv, NEW lost
  PROVE  \E f : Sending(f, n, sv, lost)
<1> DEFINE Round(b, i) == send_to_replicas(b, lost)
           first == sv
           S == {m \in 0 .. n : \E f : f = [i \in 0 .. m |-> IF i = 0 THEN first ELSE Round(f[i - 1], i)]}
<1> HIDE DEF Round, first
<1>1. 0 \in S
  <2> DEFINE f == [i \in 0 .. 0 |-> first]
  <2>1. f = [i \in 0 .. 0 |-> IF i = 0 THEN first ELSE Round(f[i - 1], i)]
    OBVIOUS
  <2>2. 0 \in 0 .. n
    OBVIOUS
  <2> HIDE DEF f
  <2> QED BY Zenon, <2>1, <2>2
<1>2. ASSUME NEW m \in 0 .. n - 1, m \in S PROVE m + 1 \in S
  <2>1. PICK f : f = [i \in 0 .. m |-> IF i = 0 THEN first ELSE Round(f[i - 1], i)]
    BY Zenon, <1>2
  <2> DEFINE g == [i \in 0 .. m + 1 |-> IF i = m + 1 THEN Round(f[m], m + 1) ELSE f[i]]
  <2>2. ASSUME NEW i \in 0 .. m + 1 PROVE g[i] = IF i = 0 THEN first ELSE Round(g[i - 1], i)
    <3>1. CASE i = m + 1
      <4>1. i - 1 = m /\ i # 0 /\ m \in 0 .. m + 1 /\ m # m + 1 /\ m + 1 \in 0 .. m + 1
        BY <3>1
      <4>2. g[i] = Round(f[m], m + 1) /\ g[i - 1] = f[m]
        BY Zenon, <3>1, <4>1
      <4> QED BY Zenon, <3>1, <4>1, <4>2
    <3>2. CASE i \in 0 .. m /\ i # m + 1
      <4>1. g[i] = f[i]
        BY Zenon, <3>2
      <4>2. f[i] = IF i = 0 THEN first ELSE Round(f[i - 1], i)
        BY Zenon, <2>1, <3>2
      <4>3. i # 0 => i - 1 \in 0 .. m + 1 /\ i - 1 # m + 1
        BY <3>2
      <4>4. i # 0 => g[i - 1] = f[i - 1]
        BY Zenon, <4>3
      <4> QED BY Zenon, <4>1, <4>2, <4>4
    <3>3. i = m + 1 \/ (i \in 0 .. m /\ i # m + 1)
      OBVIOUS
    <3> QED BY Zenon, <3>1, <3>2, <3>3
  <2>3. g = [i \in 0 .. m + 1 |-> IF i = 0 THEN first ELSE Round(g[i - 1], i)]
    BY Zenon, <2>2
  <2>4. m + 1 \in 0 .. n
    OBVIOUS
  <2> HIDE DEF g
  <2> QED BY Zenon, <2>3, <2>4
<1>3. n \in S
  <2>1. \A i \in 0 .. n : i \in S
    BY Zenon, <1>1, <1>2, UpTo
  <2>2. n \in 0 .. n
    OBVIOUS
  <2> QED BY Zenon, <2>1, <2>2
<1> QED BY Zenon, <1>3 DEF Round, first, Sending

(* Commands that are propagated, server.cpp:645-673. *)
LEMMA PropagateSound ==
  ASSUME NEW F, NEW sv, Sound(sv, F), NEW fd \in Conns(sv.fds), NEW n \in Nat, NEW lost
  PROVE  Sound(Propagate(sv, fd, n, lost), F) /\ Lighter(Propagate(sv, fd, n, lost), sv)
<1> DEFINE after == CHOOSE f : f = [i \in 0 .. n |-> IF i = 0 THEN sv ELSE send_to_replicas(f[i - 1], lost)]
           S     == {i \in 0 .. n : Sound(after[i], F) /\ Lighter(after[i], sv)}
<1>1. after = [i \in 0 .. n |-> IF i = 0 THEN sv ELSE send_to_replicas(after[i - 1], lost)]
  <2>1. \E f : Sending(f, n, sv, lost)
    BY Zenon, SendRounds
  <2> QED BY Zenon, <2>1 DEF Sending
<1>2. Lighter(sv, sv)
  BY Zenon DEF Lighter
<1>3. ASSUME NEW b, Sound(b, F), Lighter(b, sv)
      PROVE  Sound(send_to_replicas(b, lost), F) /\ Lighter(send_to_replicas(b, lost), sv)
  <2> DEFINE s == send_to_replicas(b, lost)
  <2>1. Sound(s, F) /\ Lighter(s, b)
    BY Zenon, <1>3, SendSound
  <2> HIDE DEF s
  <2>2. Lighter(s, sv)
    BY Zenon, <1>3, <2>1 DEF Lighter
  <2> QED BY Zenon, <2>1, <2>2 DEF s
<1> HIDE DEF after
<1>4. 0 \in S
  <2>1. 0 \in 0 .. n
    OBVIOUS
  <2> QED BY Zenon, <1>1, <1>2, <2>1
<1>5. ASSUME NEW i \in 0 .. n - 1, i \in S PROVE i + 1 \in S
  <2>1. i + 1 \in 0 .. n /\ i + 1 # 0 /\ (i + 1) - 1 = i
    OBVIOUS
  <2>2. after[i + 1] = send_to_replicas(after[i], lost)
    BY Zenon, <1>1, <2>1
  <2> QED BY Zenon, <1>3, <1>5, <2>1, <2>2
<1>6. n \in S
  <2>1. \A i \in 0 .. n : i \in S
    <3> HIDE DEF S
    <3> QED BY Zenon, <1>4, <1>5, UpTo
  <2>2. n \in 0 .. n
    OBVIOUS
  <2> QED BY Zenon, <2>1, <2>2
<1> DEFINE b   == after[n]
           cl  == Offset(b.clients[fd], b.db.repl_offset)
           new == WithClients(b, [b.clients EXCEPT ![fd] = cl])
<1>7. Sound(b, F) /\ Lighter(b, sv)
  BY Zenon, <1>6
<1>8. Propagate(sv, fd, n, lost) = IF n = 0 THEN sv ELSE new
  BY Zenon DEF Propagate, after, WithClients, Offset
<1> HIDE DEF b
<1>9. IsLoop(b) /\ fd \in Conns(b.fds) /\ ClientOk(b.db, b.clients[fd], fd)
  BY Zenon, <1>7 DEF Sound, Lighter, ClientsOk
<1>10. IsClient(cl) /\ cl.fd = b.clients[fd].fd /\ cl.in_multi = b.clients[fd].in_multi
       /\ cl.subscriptions = b.clients[fd].subscriptions
  BY ZenonT(90), <1>9, ClientUpdates DEF ClientOk, Agrees
<1> HIDE DEF cl
<1>11. ClientOk(b.db, cl, fd)
  BY Zenon, <1>9, <1>10 DEF ClientOk, Agrees
<1>12. Sound(new, F)
  BY Zenon, <1>7, <1>9, <1>11, OneClientSound
<1>13. new.fds = b.fds /\ new.waiters = b.waiters /\ new.db = b.db /\ new.replicas = b.replicas
  <2> DEFINE x == [b.clients EXCEPT ![fd] = cl]
  <2> HIDE DEF x
  <2>1. LET y == WithClients(b, x) IN y.fds = b.fds /\ y.waiters = b.waiters /\ y.db = b.db /\ y.replicas = b.replicas
    BY Zenon, <1>9, WithClientsSets
  <2> QED BY Zenon, <2>1 DEF x
<1> HIDE DEF new
<1>14. Lighter(new, sv)
  BY Zenon, <1>7, <1>13 DEF Lighter
<1> QED BY Zenon, <1>2, <1>8, <1>12, <1>14


-------------------------------------------------------------------------------
(* Waiters that are served: serve_waiters, server.cpp:336. *)

(* What is used of the size of sets. *)
Counting ==
  /\ \A S, T : IsFiniteSet(T) /\ S \subseteq T =>
                 IsFiniteSet(S) /\ Cardinality(S) \in Nat /\ Cardinality(S) <= Cardinality(T)
  /\ \A fds : IsSeq(fds) => IsFiniteSet(Conns(fds))

(* A state with nothing a waiter could be served from that was not there. *)
Fewer(new, sv) ==
  /\ \A keys : Ready(new.db.data, keys) \subseteq Ready(sv.db.data, keys)
  /\ \A key, id, count : EntriesAfter(new.db.data, key, id, count) = EntriesAfter(sv.db.data, key, id, count)
  /\ DOMAIN new.replicas \subseteq DOMAIN sv.replicas
  /\ \A fd \in DOMAIN new.replicas : new.replicas[fd] = sv.replicas[fd]

(* Who cannot be served then cannot be served either. *)
LEMMA StillWaiting ==
  ASSUME Counting, NEW F, NEW sv, Sound(sv, F), NEW new, Fewer(new, sv),
         NEW w, IsWaiter(w), ~Servable(sv, w)
  PROVE  ~Servable(new, w)
<1>1. CASE w.kind = "List"
  <2>1. Ready(sv.db.data, w.keys) = {}
    BY Zenon, <1>1 DEF Servable
  <2>2. Ready(new.db.data, w.keys) = {}
    BY Zenon, <2>1 DEF Fewer
  <2> QED BY Zenon, <1>1, <2>2 DEF Servable
<1>2. CASE w.kind = "Stream"
  <2>1. \A i \in DOMAIN w.keys : EntriesAfter(sv.db.data, w.keys[i], w.ids[i], w.count) = <<>>
    BY Zenon, <1>2 DEF Servable
  <2>2. \A i \in DOMAIN w.keys : EntriesAfter(new.db.data, w.keys[i], w.ids[i], w.count) = <<>>
    BY <2>1 DEF Fewer
  <2> QED BY Zenon, <1>2, <2>2 DEF Servable
<1>3. CASE w.kind = "Wait"
  <2> DEFINE S == {fd \in DOMAIN new.replicas : new.replicas[fd] >= w.target}
             T == {fd \in DOMAIN sv.replicas : sv.replicas[fd] >= w.target}
  <2>1. S \subseteq T /\ T \subseteq Conns(sv.fds)
    BY Zenon DEF Fewer, Sound
  <2>2. IsSeq(sv.fds)
    BY Zenon DEF Sound, SlotsOk, IsSeq
  <2>3. IsFiniteSet(T) /\ Cardinality(T) \in Nat
    BY Zenon, <2>1, <2>2 DEF Counting
  <2>4. Cardinality(S) \in Nat /\ Cardinality(S) <= Cardinality(T)
    BY Zenon, <2>1, <2>3 DEF Counting
  <2>5. ~(Cardinality(T) >= w.count) /\ w.count \in Int
    BY Zenon, <1>3 DEF Servable, count_acked, IsWaiter
  <2> HIDE DEF S, T
  <2>6. ~(Cardinality(S) >= w.count)
    BY <2>3, <2>4, <2>5
  <2> QED BY Zenon, <1>3, <2>6 DEF Servable, count_acked, S
<1> QED BY Zenon, <1>1, <1>2, <1>3 DEF IsWaiter

(* Only the store and the replicas count. *)
LEMMA SameServable ==
  ASSUME NEW sv, NEW new, new.db.data = sv.db.data, new.replicas = sv.replicas, NEW w
  PROVE  Servable(new, w) <=> Servable(sv, w)
<1>1. \A target : count_acked(new, target) = count_acked(sv, target)
  BY Zenon DEF count_acked
<1> QED BY Zenon, <1>1 DEF Servable

(* The first of the keys that hold a list. *)
LEMMA FirstIsReady ==
  ASSUME NEW s, NEW keys, IsSeq(keys), Ready(s, keys) # {}
  PROVE  First(Ready(s, keys)) \in Ready(s, keys)
<1>1. PICK T : keys \in Seq(T)
  BY Zenon DEF IsSeq
<1>2. DOMAIN keys \subseteq Nat
  BY <1>1
<1>3. Ready(s, keys) \subseteq DOMAIN keys
  BY Zenon DEF Ready
<1>4. Ready(s, keys) \in SUBSET Nat
  BY Zenon, <1>2, <1>3
<1>5. \E i \in Ready(s, keys) : \A j \in Ready(s, keys) : i <= j
  BY Zenon, <1>4, LeastExists
<1> QED BY Zenon, <1>5 DEF First

(* try_blpop: the other lists and the streams stay. *)
LEMMA PoppedIsFewer ==
  ASSUME NEW s, NEW keys, IsSeq(keys), Ready(s, keys) # {}
  PROVE  LET st == try_blpop(s, keys).st
         IN  /\ \A ks : Ready(st, ks) \subseteq Ready(s, ks)
             /\ \A key, id, count : EntriesAfter(st, key, id, count) = EntriesAfter(s, key, id, count)
<1> DEFINE key  == keys[First(Ready(s, keys))]
           list == Drop(s.DynamicVector[key], 1)
           st   == StoreList(s, key, list)
<1>1. try_blpop(s, keys).st = st
  BY Zenon DEF try_blpop, Result
<1>2. ListAt(s, key) # <<>>
  BY Zenon, FirstIsReady DEF Ready
<1> HIDE DEF key, list
<1>3. /\ st.Streams = s.Streams
      /\ st.DynamicVector = Erase(s.DynamicVector, key) \/ st.DynamicVector = Put(s.DynamicVector, key, list)
  BY Zenon DEF StoreList, WithLists, StoreOf
<1> HIDE DEF st
<1>4. ASSUME NEW k, k # key PROVE ListAt(st, k) = ListAt(s, k)
  <2>1. /\ k \in DOMAIN Erase(s.DynamicVector, key) <=> k \in DOMAIN s.DynamicVector
        /\ k \in DOMAIN Put(s.DynamicVector, key, list) <=> k \in DOMAIN s.DynamicVector
        /\ k \in DOMAIN s.DynamicVector => /\ Erase(s.DynamicVector, key)[k] = s.DynamicVector[k]
                                           /\ Put(s.DynamicVector, key, list)[k] = s.DynamicVector[k]
    BY Zenon, <1>4 DEF Erase, Put
  <2> QED BY Zenon, <1>3, <2>1 DEF ListAt
<1>5. \A ks : Ready(st, ks) \subseteq Ready(s, ks)
  BY Zenon, <1>2, <1>4 DEF Ready
<1>6. \A k : StreamAt(st, k) = StreamAt(s, k)
  BY Zenon, <1>3 DEF StreamAt
<1>7. \A k, id, count : EntriesAfter(st, k, id, count) = EntriesAfter(s, k, id, count)
  BY Zenon, <1>6 DEF EntriesAfter
<1> QED BY Zenon, <1>1, <1>5, <1>7

(* A waiter is handed an element. *)
LEMMA PopSound ==
  ASSUME NEW F, NEW sv, Sound(sv, F), NEW w, IsSeq(w.keys), w.fd \in Conns(sv.fds),
         Ready(sv.db.data, w.keys) # {}, NEW lost
  PROVE  LET new == Pop(sv, w, lost)
         IN  /\ Sound(new, F) /\ Fewer(new, sv) /\ new.fds = sv.fds /\ new.waiters = sv.waiters
             /\ new.db.pending_messages = sv.db.pending_messages
<1> DEFINE st  == try_blpop(sv.db.data, w.keys).st
           d   == SetData(sv.db, st)
           mid == WithDb(sv, d)
           new == Propagate(mid, w.fd, 1, lost)
<1>1. IsLoop(sv) /\ IsDb(sv.db) /\ sv.db.repl_offset \in Nat
  BY Zenon DEF Sound, DbOk
<1>2. /\ \A ks : Ready(st, ks) \subseteq Ready(sv.db.data, ks)
      /\ \A key, id, count : EntriesAfter(st, key, id, count) = EntriesAfter(sv.db.data, key, id, count)
  BY Zenon, PoppedIsFewer
<1>3. Pop(sv, w, lost) = new
  BY Zenon DEF Pop, WithDb, SetData
<1> HIDE DEF st
<1>4. IsDb(d) /\ d.subscribers = sv.db.subscribers /\ d.repl_offset = sv.db.repl_offset /\ d.data = st
      /\ d.pending_messages = sv.db.pending_messages
  BY <1>1, DbUpdates
<1> HIDE DEF d
<1>5. Sound(mid, F)
  BY Zenon, <1>1, <1>4, DbSound
<1>6. mid.db = d /\ mid.fds = sv.fds /\ mid.waiters = sv.waiters /\ mid.replicas = sv.replicas
  BY ZenonT(60), <1>1, WithDbSets
<1> HIDE DEF mid
<1>7. Sound(new, F) /\ Lighter(new, mid)
  <2>1. 1 \in Nat /\ w.fd \in Conns(mid.fds)
    BY Zenon, <1>6
  <2> QED BY Zenon, <1>5, <2>1, PropagateSound
<1> HIDE DEF new
<1>8. Fewer(new, sv)
  BY Zenon, <1>2, <1>4, <1>6, <1>7 DEF Fewer, Lighter
<1> QED BY Zenon, <1>3, <1>4, <1>6, <1>7, <1>8 DEF Lighter

(* One round of the loop. *)
ServeRound(b, w, lost) ==
  IF ~Servable(b, w) THEN WithWaiters(b, Append(b.waiters, w))
  ELSE IF w.kind = "List" THEN Pop(b, w, lost) ELSE b

(* The loop over the waiters. *)
Serving(f, n, sv, lost) ==
  f = [i \in 0 .. n |-> IF i = 0 THEN WithWaiters(sv, <<>>) ELSE ServeRound(f[i - 1], sv.waiters[i], lost)]

(* There is such a run. *)
LEMMA ServeRounds ==
  ASSUME NEW n \in Nat, NEW sv, NEW lost
  PROVE  \E f : Serving(f, n, sv, lost)
<1> DEFINE Round(b, i) == ServeRound(b, sv.waiters[i], lost)
           first == WithWaiters(sv, <<>>)
           S == {m \in 0 .. n : \E f : f = [i \in 0 .. m |-> IF i = 0 THEN first ELSE Round(f[i - 1], i)]}
<1> HIDE DEF Round, first
<1>1. 0 \in S
  <2> DEFINE f == [i \in 0 .. 0 |-> first]
  <2>1. f = [i \in 0 .. 0 |-> IF i = 0 THEN first ELSE Round(f[i - 1], i)]
    OBVIOUS
  <2>2. 0 \in 0 .. n
    OBVIOUS
  <2> HIDE DEF f
  <2> QED BY Zenon, <2>1, <2>2
<1>2. ASSUME NEW m \in 0 .. n - 1, m \in S PROVE m + 1 \in S
  <2>1. PICK f : f = [i \in 0 .. m |-> IF i = 0 THEN first ELSE Round(f[i - 1], i)]
    BY Zenon, <1>2
  <2> DEFINE g == [i \in 0 .. m + 1 |-> IF i = m + 1 THEN Round(f[m], m + 1) ELSE f[i]]
  <2>2. ASSUME NEW i \in 0 .. m + 1 PROVE g[i] = IF i = 0 THEN first ELSE Round(g[i - 1], i)
    <3>1. CASE i = m + 1
      <4>1. i - 1 = m /\ i # 0 /\ m \in 0 .. m + 1 /\ m # m + 1 /\ m + 1 \in 0 .. m + 1
        BY <3>1
      <4>2. g[i] = Round(f[m], m + 1) /\ g[i - 1] = f[m]
        BY Zenon, <3>1, <4>1
      <4> QED BY Zenon, <3>1, <4>1, <4>2
    <3>2. CASE i \in 0 .. m /\ i # m + 1
      <4>1. g[i] = f[i]
        BY Zenon, <3>2
      <4>2. f[i] = IF i = 0 THEN first ELSE Round(f[i - 1], i)
        BY Zenon, <2>1, <3>2
      <4>3. i # 0 => i - 1 \in 0 .. m + 1 /\ i - 1 # m + 1
        BY <3>2
      <4>4. i # 0 => g[i - 1] = f[i - 1]
        BY Zenon, <4>3
      <4> QED BY Zenon, <4>1, <4>2, <4>4
    <3>3. i = m + 1 \/ (i \in 0 .. m /\ i # m + 1)
      OBVIOUS
    <3> QED BY Zenon, <3>1, <3>2, <3>3
  <2>3. g = [i \in 0 .. m + 1 |-> IF i = 0 THEN first ELSE Round(g[i - 1], i)]
    BY Zenon, <2>2
  <2>4. m + 1 \in 0 .. n
    OBVIOUS
  <2> HIDE DEF g
  <2> QED BY Zenon, <2>3, <2>4
<1>3. n \in S
  <2>1. \A i \in 0 .. n : i \in S
    BY Zenon, <1>1, <1>2, UpTo
  <2>2. n \in 0 .. n
    OBVIOUS
  <2> QED BY Zenon, <2>1, <2>2
<1> QED BY Zenon, <1>3 DEF Round, first, Serving

(* A state in which nobody waits for what is there. *)
Served(b, sv, F) ==
  /\ Sound(b, F) /\ b.fds = sv.fds /\ b.db.pending_messages = sv.db.pending_messages
  /\ \A j \in DOMAIN b.waiters : ~Servable(b, b.waiters[j])

(* A round leaves such a state. *)
LEMMA ServeRoundServes ==
  ASSUME Counting, NEW F, NEW sv, NEW b, Served(b, sv, F), NEW w, IsWaiter(w), w.fd \in Conns(sv.fds), NEW lost
  PROVE  Served(ServeRound(b, w, lost), sv, F)
<1>1. Sound(b, F) /\ IsLoop(b) /\ b.fds = sv.fds /\ WaitersOk(b.waiters, Conns(b.fds))
      /\ b.db.pending_messages = sv.db.pending_messages
      /\ \A j \in DOMAIN b.waiters : IsWaiter(b.waiters[j]) /\ ~Servable(b, b.waiters[j])
  BY Zenon DEF Served, Sound, WaitersOk
<1>2. CASE ~Servable(b, w)
  <2> DEFINE x   == Append(b.waiters, w)
             new == WithWaiters(b, x)
  <2>1. PICK T : b.waiters \in Seq(T)
    BY Zenon, <1>1 DEF WaitersOk, IsSeq
  <2>2. /\ DOMAIN x = DOMAIN b.waiters \cup {Len(b.waiters) + 1}
        /\ \A j \in DOMAIN b.waiters : x[j] = b.waiters[j]
        /\ x[Len(b.waiters) + 1] = w
    BY <2>1
  <2>3. IsSeq(x)
    BY Zenon, <1>1, SeqFacts DEF WaitersOk
  <2> HIDE DEF x
  <2>4. \A j \in DOMAIN x : IsWaiter(x[j]) /\ x[j].fd \in Conns(b.fds) /\ ~Servable(b, x[j])
    <3>1. ASSUME NEW j \in DOMAIN b.waiters
          PROVE  IsWaiter(x[j]) /\ x[j].fd \in Conns(b.fds) /\ ~Servable(b, x[j])
      BY Zenon, <1>1, <2>2 DEF WaitersOk
    <3>2. LET k == Len(b.waiters) + 1
          IN  IsWaiter(x[k]) /\ x[k].fd \in Conns(b.fds) /\ ~Servable(b, x[k])
      BY Zenon, <1>1, <1>2, <2>2
    <3> QED BY Zenon, <2>2, <3>1, <3>2
  <2>5. WaitersOk(x, Conns(b.fds))
    BY Zenon, <2>3, <2>4 DEF WaitersOk
  <2>6. Sound(new, F)
    BY Zenon, <1>1, <2>5, WaitersSound
  <2>7. new.db = b.db /\ new.replicas = b.replicas /\ new.fds = b.fds /\ new.waiters = x
    BY ZenonT(60), <1>1, WithWaitersSets
  <2>8. ServeRound(b, w, lost) = new
    BY Zenon, <1>2 DEF ServeRound, x
  <2> HIDE DEF new
  <2>9. \A v : Servable(new, v) <=> Servable(b, v)
    BY Zenon, <2>7, SameServable
  <2> QED BY Zenon, <1>1, <2>4, <2>6, <2>7, <2>8, <2>9 DEF Served
<1>3. CASE Servable(b, w) /\ w.kind = "List"
  <2> DEFINE new == Pop(b, w, lost)
  <2>1. IsSeq(w.keys) /\ Ready(b.db.data, w.keys) # {} /\ w.fd \in Conns(b.fds)
    BY Zenon, <1>1, <1>3 DEF IsWaiter, Servable
  <2>2. Sound(new, F) /\ Fewer(new, b) /\ new.fds = b.fds /\ new.waiters = b.waiters
        /\ new.db.pending_messages = b.db.pending_messages
    BY <1>1, <2>1, PopSound
  <2>3. ServeRound(b, w, lost) = new
    BY Zenon, <1>3 DEF ServeRound
  <2> HIDE DEF new
  <2>4. \A j \in DOMAIN new.waiters : ~Servable(new, new.waiters[j])
    BY Zenon, <1>1, <2>2, StillWaiting
  <2> QED BY Zenon, <1>1, <2>2, <2>3, <2>4 DEF Served
<1>4. CASE Servable(b, w) /\ w.kind # "List"
  BY Zenon, <1>4 DEF ServeRound
<1> QED BY Zenon, <1>2, <1>3, <1>4

(* serve_waiters: nobody waits for what is there. *)
LEMMA ServeServes ==
  ASSUME Counting, NEW F, NEW sv, Sound(sv, F), NEW lost
  PROVE  Served(serve_waiters(sv, lost), sv, F)
<1> DEFINE n     == Len(sv.waiters)
           start == WithWaiters(sv, <<>>)
           after == CHOOSE f : f = [i \in 0 .. n |-> IF i = 0 THEN start
                                                     ELSE ServeRound(f[i - 1], sv.waiters[i], lost)]
           S     == {i \in 0 .. n : Served(after[i], sv, F)}
<1>1. WaitersOk(sv.waiters, Conns(sv.fds)) /\ IsLoop(sv)
  BY Zenon DEF Sound
<1>2. n \in Nat /\ DOMAIN sv.waiters = 1 .. n
  <2>1. PICK T : sv.waiters \in Seq(T)
    BY Zenon, <1>1 DEF WaitersOk, IsSeq
  <2> QED BY <2>1
<1>3. after = [i \in 0 .. n |-> IF i = 0 THEN start ELSE ServeRound(after[i - 1], sv.waiters[i], lost)]
  <2>1. \E f : Serving(f, n, sv, lost)
    BY Zenon, <1>2, ServeRounds
  <2> QED BY Zenon, <2>1 DEF Serving
<1>4. serve_waiters(sv, lost) = after[n]
  BY Zenon DEF serve_waiters, ServeRound, WithWaiters
<1>5. Served(start, sv, F)
  <2>1. DOMAIN <<>> = {}
    OBVIOUS
  <2>2. WaitersOk(<<>>, Conns(sv.fds))
    BY Zenon, <2>1, SeqFacts DEF WaitersOk
  <2>3. Sound(start, F)
    BY Zenon, <2>2, WaitersSound
  <2>4. start.fds = sv.fds /\ start.waiters = <<>> /\ start.db = sv.db
    BY ZenonT(60), <1>1, WithWaitersSets
  <2> HIDE DEF start
  <2> QED BY Zenon, <2>1, <2>3, <2>4 DEF Served
<1> HIDE DEF after, n, start
<1>6. 0 \in S
  <2>1. 0 \in 0 .. n
    BY <1>2
  <2> QED BY Zenon, <1>3, <1>5, <2>1
<1>7. ASSUME NEW i \in 0 .. n - 1, i \in S PROVE i + 1 \in S
  <2>1. i + 1 \in 0 .. n /\ i + 1 # 0 /\ (i + 1) - 1 = i /\ i + 1 \in DOMAIN sv.waiters
    BY <1>2
  <2>2. after[i + 1] = ServeRound(after[i], sv.waiters[i + 1], lost)
    BY Zenon, <1>3, <2>1
  <2>3. IsWaiter(sv.waiters[i + 1]) /\ sv.waiters[i + 1].fd \in Conns(sv.fds)
    BY Zenon, <1>1, <2>1 DEF WaitersOk
  <2>4. Served(after[i + 1], sv, F)
    BY Zenon, <1>7, <2>2, <2>3, ServeRoundServes
  <2> QED BY Zenon, <2>1, <2>4
<1>8. n \in S
  <2>1. \A i \in 0 .. n : i \in S
    <3> HIDE DEF S
    <3> QED BY Zenon, <1>2, <1>6, <1>7, UpTo
  <2>2. n \in 0 .. n
    BY <1>2
  <2> QED BY Zenon, <2>1, <2>2
<1> QED BY Zenon, <1>4, <1>8

(* expire_waiters, server.cpp:380: nobody is past their deadline. *)
LEMMA ExpireServes ==
  ASSUME NEW F, NEW sv, NEW b, Served(b, sv, F), NEW t \in Nat
  PROVE  LET new == expire_waiters(b, t)
         IN  /\ Served(new, sv, F)
             /\ \A j \in DOMAIN new.waiters :
                  new.waiters[j].deadline = -1 \/ t < new.waiters[j].deadline
<1> DEFINE waits == {i \in DOMAIN b.waiters : b.waiters[i].deadline = -1 \/ t < b.waiters[i].deadline}
           x   == Kept(b.waiters, waits)
           new == WithWaiters(b, x)
<1>1. Sound(b, F) /\ IsLoop(b) /\ b.fds = sv.fds /\ WaitersOk(b.waiters, Conns(b.fds))
      /\ b.db.pending_messages = sv.db.pending_messages
      /\ \A j \in DOMAIN b.waiters : ~Servable(b, b.waiters[j])
  BY Zenon DEF Served, Sound, WaitersOk
<1>2. IsSeq(b.waiters)
  BY Zenon, <1>1 DEF WaitersOk
<1>3. \A j \in DOMAIN x : \E i \in DOMAIN b.waiters : i \in waits /\ x[j] = b.waiters[i]
  <2> HIDE DEF waits
  <2> QED BY <1>2, KeptElements
<1>4. WaitersOk(x, Conns(b.fds))
  BY Zenon, <1>1, KeptWaiters DEF WaitersOk
<1>5. \A j \in DOMAIN x : x[j].deadline = -1 \/ t < x[j].deadline
  BY Zenon, <1>3
<1>6. expire_waiters(b, t) = new
  BY Zenon DEF expire_waiters, WithWaiters
<1> HIDE DEF x
<1>7. Sound(new, F)
  BY Zenon, <1>1, <1>4, WaitersSound
<1>8. new.db = b.db /\ new.replicas = b.replicas /\ new.fds = b.fds /\ new.waiters = x
  BY ZenonT(60), <1>1, WithWaitersSets
<1> HIDE DEF new
<1>9. \A v : Servable(new, v) <=> Servable(b, v)
  BY Zenon, <1>8, SameServable
<1>10. \A j \in DOMAIN new.waiters : ~Servable(new, new.waiters[j])
  BY Zenon, <1>1, <1>3, <1>8, <1>9
<1>11. Served(new, sv, F)
  BY Zenon, <1>1, <1>7, <1>8, <1>10 DEF Served
<1> QED BY Zenon, <1>5, <1>6, <1>8, <1>11

-------------------------------------------------------------------------------
(* The compaction of the slots, server.cpp:779. *)

(* A free slot is filled with the last one. *)
Filled(f, i) == SubSeq([f EXCEPT ![i] = f[Len(f)]], 1, Len(f) - 1)

(* No connection is lost, and none comes twice. *)
LEMMA FilledSlots ==
  ASSUME NEW F, F \subseteq Nat, NEW f, SlotsOk(f, F), NEW i \in DOMAIN f, f[i] = -1
  PROVE  LET g == Filled(f, i)
         IN  /\ SlotsOk(g, F) /\ Conns(g) = Conns(f) /\ Len(g) = Len(f) - 1
             /\ \A j \in 1 .. i - 1 : g[j] = f[j]
<1> DEFINE n == Len(f)
           h == [f EXCEPT ![i] = f[n]]
           g == Filled(f, i)
<1>1. f \in Seq(F \cup {-1}) /\ \A j, k \in DOMAIN f : f[j] = f[k] /\ f[j] # -1 => j = k
  BY Zenon DEF SlotsOk
<1>2. n \in Nat /\ DOMAIN f = 1 .. n /\ i \in 1 .. n /\ n \in 1 .. n /\ n - 1 \in Nat
  BY <1>1
<1>3. h \in Seq(F \cup {-1}) /\ Len(h) = n /\ h[i] = f[n] /\ \A j \in 1 .. n : j # i => h[j] = f[j]
  BY <1>1, <1>2
<1>4. g = SubSeq(h, 1, n - 1)
  BY Zenon DEF Filled
<1> HIDE DEF g, h
<1>5. g \in Seq(F \cup {-1}) /\ Len(g) = n - 1 /\ DOMAIN g = 1 .. n - 1 /\ \A j \in 1 .. n - 1 : g[j] = h[j]
  BY <1>2, <1>3, <1>4
<1> HIDE DEF n
<1>6. \A j \in 1 .. n - 1 : j \in 1 .. n /\ j # n
  BY <1>2
<1>7. \A j \in 1 .. n : j = n \/ j \in 1 .. n - 1
  BY <1>2
<1>8. \A j \in 1 .. n - 1 : (j = i => g[j] = f[n]) /\ (j # i => g[j] = f[j])
  BY Zenon, <1>3, <1>5, <1>6
<1>9. ASSUME NEW j \in DOMAIN g, NEW k \in DOMAIN g, g[j] = g[k], g[j] # -1 PROVE j = k
  <2>1. j \in 1 .. n - 1 /\ k \in 1 .. n - 1 /\ j \in DOMAIN f /\ k \in DOMAIN f /\ n \in DOMAIN f
    BY Zenon, <1>2, <1>5, <1>6
  <2>2. j # n /\ k # n
    BY Zenon, <1>6, <2>1
  <2>3. CASE j = i /\ k # i
    <3>1. f[n] = f[k] /\ f[n] # -1
      BY Zenon, <1>8, <1>9, <2>1, <2>3
    <3> QED BY Zenon, <1>1, <2>1, <2>2, <3>1
  <2>4. CASE j # i /\ k = i
    <3>1. f[n] = f[j] /\ f[n] # -1
      BY Zenon, <1>8, <1>9, <2>1, <2>4
    <3> QED BY Zenon, <1>1, <2>1, <2>2, <3>1
  <2>5. CASE j # i /\ k # i
    <3>1. f[j] = f[k] /\ f[j] # -1
      BY Zenon, <1>8, <1>9, <2>1, <2>5
    <3> QED BY Zenon, <1>1, <2>1, <3>1
  <2> QED BY Zenon, <2>3, <2>4, <2>5
<1>10. ASSUME NEW x PROVE x \in Conns(g) <=> x \in Conns(f)
  <2>1. ASSUME x \in Conns(g) PROVE x \in Conns(f)
    <3>1. PICK j \in 1 .. n - 1 : x = g[j] /\ x # -1
      BY Zenon, <1>5, <2>1 DEF Conns
    <3> QED BY Zenon, <1>2, <1>6, <1>8, <3>1 DEF Conns
  <2>2. ASSUME x \in Conns(f) PROVE x \in Conns(g)
    <3>1. PICK j \in 1 .. n : x = f[j] /\ x # -1 /\ j # i
      BY Zenon, <1>2, <2>2 DEF Conns
    <3>2. CASE j = n
      <4>1. i \in 1 .. n - 1
        BY Zenon, <1>2, <1>7, <3>1, <3>2
      <4>2. g[i] = x
        BY Zenon, <1>8, <3>1, <3>2, <4>1
      <4> QED BY Zenon, <1>5, <3>1, <4>1, <4>2 DEF Conns
    <3>3. CASE j \in 1 .. n - 1
      <4>1. g[j] = x
        BY Zenon, <1>8, <3>1, <3>3
      <4> QED BY Zenon, <1>5, <3>1, <3>3, <4>1 DEF Conns
    <3> QED BY Zenon, <1>7, <3>1, <3>2, <3>3
  <2> QED BY Zenon, <2>1, <2>2
<1>11. Conns(g) = Conns(f)
  BY Zenon, <1>10
<1>12. SlotsOk(g, F)
  BY Zenon, <1>5, <1>9 DEF SlotsOk
<1>13. \A j \in 1 .. i - 1 : j \in 1 .. n - 1 /\ j # i
  BY <1>2
<1>14. \A j \in 1 .. i - 1 : g[j] = f[j]
  BY Zenon, <1>8, <1>13
<1> QED BY Zenon, <1>5, <1>11, <1>12, <1>14 DEF g, n

(* The slots and the one the loop is at. *)
Scan(f, i) == [fds |-> f, i |-> i]

ScanRound(b) ==
  IF b.i > Len(b.fds) THEN b
  ELSE IF b.fds[b.i] # -1 THEN [b EXCEPT !.i = @ + 1]
  ELSE [b EXCEPT !.fds = SubSeq([b.fds EXCEPT ![b.i] = b.fds[Len(b.fds)]], 1, Len(b.fds) - 1)]

(* The loop over the slots. *)
Scanning(f, n, slots) ==
  f = [i \in 0 .. n |-> IF i = 0 THEN Scan(slots, 1) ELSE ScanRound(f[i - 1])]

(* There is such a run. *)
LEMMA ScanRounds ==
  ASSUME NEW n \in Nat, NEW slots
  PROVE  \E f : Scanning(f, n, slots)
<1> DEFINE Round(b, i) == ScanRound(b)
           first == Scan(slots, 1)
           S == {m \in 0 .. n : \E f : f = [i \in 0 .. m |-> IF i = 0 THEN first ELSE Round(f[i - 1], i)]}
<1> HIDE DEF Round, first
<1>1. 0 \in S
  <2> DEFINE f == [i \in 0 .. 0 |-> first]
  <2>1. f = [i \in 0 .. 0 |-> IF i = 0 THEN first ELSE Round(f[i - 1], i)]
    OBVIOUS
  <2>2. 0 \in 0 .. n
    OBVIOUS
  <2> HIDE DEF f
  <2> QED BY Zenon, <2>1, <2>2
<1>2. ASSUME NEW m \in 0 .. n - 1, m \in S PROVE m + 1 \in S
  <2>1. PICK f : f = [i \in 0 .. m |-> IF i = 0 THEN first ELSE Round(f[i - 1], i)]
    BY Zenon, <1>2
  <2> DEFINE g == [i \in 0 .. m + 1 |-> IF i = m + 1 THEN Round(f[m], m + 1) ELSE f[i]]
  <2>2. ASSUME NEW i \in 0 .. m + 1 PROVE g[i] = IF i = 0 THEN first ELSE Round(g[i - 1], i)
    <3>1. CASE i = m + 1
      <4>1. i - 1 = m /\ i # 0 /\ m \in 0 .. m + 1 /\ m # m + 1 /\ m + 1 \in 0 .. m + 1
        BY <3>1
      <4>2. g[i] = Round(f[m], m + 1) /\ g[i - 1] = f[m]
        BY Zenon, <3>1, <4>1
      <4> QED BY Zenon, <3>1, <4>1, <4>2
    <3>2. CASE i \in 0 .. m /\ i # m + 1
      <4>1. g[i] = f[i]
        BY Zenon, <3>2
      <4>2. f[i] = IF i = 0 THEN first ELSE Round(f[i - 1], i)
        BY Zenon, <2>1, <3>2
      <4>3. i # 0 => i - 1 \in 0 .. m + 1 /\ i - 1 # m + 1
        BY <3>2
      <4>4. i # 0 => g[i - 1] = f[i - 1]
        BY Zenon, <4>3
      <4> QED BY Zenon, <4>1, <4>2, <4>4
    <3>3. i = m + 1 \/ (i \in 0 .. m /\ i # m + 1)
      OBVIOUS
    <3> QED BY Zenon, <3>1, <3>2, <3>3
  <2>3. g = [i \in 0 .. m + 1 |-> IF i = 0 THEN first ELSE Round(g[i - 1], i)]
    BY Zenon, <2>2
  <2>4. m + 1 \in 0 .. n
    OBVIOUS
  <2> HIDE DEF g
  <2> QED BY Zenon, <2>3, <2>4
<1>3. n \in S
  <2>1. \A i \in 0 .. n : i \in S
    BY Zenon, <1>1, <1>2, UpTo
  <2>2. n \in 0 .. n
    OBVIOUS
  <2> QED BY Zenon, <2>1, <2>2
<1> QED BY Zenon, <1>3 DEF Round, first, Scanning

(* After k rounds the slots before the one the loop is at are taken. *)
Scanned(b, slots, F, k) ==
  \E f, i : /\ b = Scan(f, i) /\ SlotsOk(f, F) /\ Conns(f) = Conns(slots) /\ i \in 1 .. Len(f) + 1
            /\ Len(f) <= Len(slots) /\ \A j \in 1 .. i - 1 : f[j] # -1
            /\ i = Len(f) + 1 \/ (i - 1) + (Len(slots) - Len(f)) = k

(* A round takes it one further. *)
LEMMA ScanRoundScans ==
  ASSUME NEW F, F \subseteq Nat, NEW slots, SlotsOk(slots, F), NEW b, NEW k \in Nat, Scanned(b, slots, F, k)
  PROVE  Scanned(ScanRound(b), slots, F, k + 1)
<1>1. PICK f, i : /\ b = Scan(f, i) /\ SlotsOk(f, F) /\ Conns(f) = Conns(slots) /\ i \in 1 .. Len(f) + 1
                  /\ Len(f) <= Len(slots) /\ \A j \in 1 .. i - 1 : f[j] # -1
                  /\ i = Len(f) + 1 \/ (i - 1) + (Len(slots) - Len(f)) = k
  BY Zenon DEF Scanned
<1>2. b.fds = f /\ b.i = i
  BY Zenon, <1>1 DEF Scan
<1>3. Len(f) \in Nat /\ Len(slots) \in Nat /\ DOMAIN f = 1 .. Len(f)
  BY <1>1 DEF SlotsOk
<1>4. CASE i > Len(f)
  <2>1. ScanRound(b) = Scan(f, i) /\ i = Len(f) + 1
    BY <1>1, <1>2, <1>3, <1>4 DEF ScanRound
  <2> QED BY Zenon, <1>1, <2>1 DEF Scanned
<1>5. CASE ~(i > Len(f)) /\ f[i] # -1
  <2>1. ScanRound(b) = Scan(f, i + 1)
    BY Zenon, <1>1, <1>2, <1>5 DEF ScanRound, Scan
  <2>2. i + 1 \in 1 .. Len(f) + 1 /\ ((i + 1) - 1) + (Len(slots) - Len(f)) = k + 1
    BY <1>1, <1>3, <1>5
  <2>3. \A j \in 1 .. (i + 1) - 1 : j \in 1 .. i - 1 \/ j = i
    BY <1>1, <1>3
  <2>4. \A j \in 1 .. (i + 1) - 1 : f[j] # -1
    BY Zenon, <1>1, <1>5, <2>3
  <2> QED BY Zenon, <1>1, <2>1, <2>2, <2>4 DEF Scanned
<1>6. CASE ~(i > Len(f)) /\ f[i] = -1
  <2> DEFINE g == Filled(f, i)
  <2>1. ScanRound(b) = Scan(g, i)
    BY Zenon, <1>1, <1>2, <1>6 DEF ScanRound, Scan, Filled
  <2>2. i \in DOMAIN f
    BY <1>1, <1>3, <1>6
  <2>3. SlotsOk(g, F) /\ Conns(g) = Conns(f) /\ Len(g) = Len(f) - 1 /\ \A j \in 1 .. i - 1 : g[j] = f[j]
    BY Zenon, <1>1, <1>6, <2>2, FilledSlots
  <2> HIDE DEF g
  <2>4. i \in 1 .. Len(g) + 1 /\ (i - 1) + (Len(slots) - Len(g)) = k + 1 /\ Len(g) <= Len(slots)
    BY <1>1, <1>3, <1>6, <2>3
  <2>5. \A j \in 1 .. i - 1 : g[j] # -1
    BY Zenon, <1>1, <2>3
  <2> QED BY Zenon, <1>1, <2>1, <2>3, <2>4, <2>5 DEF Scanned
<1> QED BY Zenon, <1>4, <1>5, <1>6

(* The slots afterwards are the connections. *)
LEMMA CompactSlots ==
  ASSUME NEW F, F \subseteq Nat, NEW slots, SlotsOk(slots, F)
  PROVE  LET new == compact(slots)
         IN  /\ SlotsOk(new, F) /\ Conns(new) = Conns(slots) /\ Len(new) <= Len(slots)
             /\ \A j \in DOMAIN new : new[j] # -1
<1> DEFINE n     == Len(slots)
           after == CHOOSE f : f = [k \in 0 .. n |-> IF k = 0 THEN Scan(slots, 1) ELSE ScanRound(f[k - 1])]
           S     == {k \in 0 .. n : Scanned(after[k], slots, F, k)}
<1>1. n \in Nat
  BY DEF SlotsOk
<1>2. after = [k \in 0 .. n |-> IF k = 0 THEN Scan(slots, 1) ELSE ScanRound(after[k - 1])]
  <2>1. \E f : Scanning(f, n, slots)
    BY Zenon, <1>1, ScanRounds
  <2> QED BY Zenon, <2>1 DEF Scanning
<1>3. compact(slots) = after[n].fds
  BY Zenon DEF compact, ScanRound, Scan
<1> HIDE DEF after
<1>4. 0 \in S
  <2>1. 0 \in 0 .. n /\ 1 \in 1 .. n + 1 /\ n <= n /\ (1 - 1) + (n - n) = 0 /\ 1 .. 1 - 1 = {}
    BY <1>1
  <2>2. Scanned(Scan(slots, 1), slots, F, 0)
    BY Zenon, <2>1 DEF Scanned
  <2> QED BY Zenon, <1>2, <2>1, <2>2
<1>5. ASSUME NEW k \in 0 .. n - 1, k \in S PROVE k + 1 \in S
  <2>1. k + 1 \in 0 .. n /\ k + 1 # 0 /\ (k + 1) - 1 = k /\ k \in Nat
    BY <1>1
  <2>2. after[k + 1] = ScanRound(after[k])
    BY Zenon, <1>2, <2>1
  <2>3. Scanned(after[k + 1], slots, F, k + 1)
    BY Zenon, <1>5, <2>1, <2>2, ScanRoundScans
  <2> QED BY Zenon, <2>1, <2>3
<1>6. n \in S
  <2>1. \A k \in 0 .. n : k \in S
    <3> HIDE DEF S, n
    <3> QED BY Zenon, <1>1, <1>4, <1>5, UpTo
  <2>2. n \in 0 .. n
    BY <1>1
  <2> QED BY Zenon, <2>1, <2>2
<1>7. PICK f, i : /\ after[n] = Scan(f, i) /\ SlotsOk(f, F) /\ Conns(f) = Conns(slots) /\ i \in 1 .. Len(f) + 1
                  /\ Len(f) <= Len(slots) /\ \A j \in 1 .. i - 1 : f[j] # -1
                  /\ i = Len(f) + 1 \/ (i - 1) + (Len(slots) - Len(f)) = n
  BY Zenon, <1>6 DEF Scanned
<1>8. Len(f) \in Nat /\ DOMAIN f = 1 .. Len(f)
  BY <1>7 DEF SlotsOk
<1>9. DOMAIN f = 1 .. i - 1
  BY <1>1, <1>7, <1>8
<1>10. after[n].fds = f
  BY <1>7 DEF Scan
<1> QED BY Zenon, <1>3, <1>7, <1>9, <1>10

-------------------------------------------------------------------------------
(* The timeout of poll: next_timeout, server.cpp:400. *)

Remaining(w, t) == IF w.deadline < t THEN 0 ELSE w.deadline - t

(* The conversion keeps what an int holds, and what it makes is an int. *)
LEMMA ToIntRange ==
  ASSUME NEW n \in Nat
  PROVE  ToInt(n) \in Int /\ ToInt(n) <= INT_MAX /\ (n <= INT_MAX => ToInt(n) = n)
<1> DEFINE d == 2 * (INT_MAX + 1)
           x == n + INT_MAX + 1
<1>1. INT_MAX \in Nat
  BY Zenon, LoopAssumption
<1>2. d \in Nat /\ d > 0 /\ x \in Nat /\ d = INT_MAX + INT_MAX + 2
  BY <1>1
<1>3. x % d \in 0 .. d - 1 /\ (x < d => x % d = x)
  <2> HIDE DEF d, x
  <2> QED BY <1>2
<1>4. ToInt(n) = (x % d) - (INT_MAX + 1)
  BY Zenon DEF ToInt
<1>5. n <= INT_MAX => x < d
  BY <1>1
<1>6. x = n + INT_MAX + 1
  BY Zenon
<1> HIDE DEF d, x
<1> QED BY <1>1, <1>2, <1>3, <1>4, <1>5, <1>6

TimeoutRound(b, w, t) ==
  IF w.deadline # -1 /\ (b < 0 \/ Remaining(w, t) < b) THEN ToInt(Remaining(w, t)) ELSE b

(* The loop over the waiters. *)
Timing(f, n, waiters, t) ==
  f = [i \in 0 .. n |-> IF i = 0 THEN -1 ELSE TimeoutRound(f[i - 1], waiters[i], t)]

(* There is such a run. *)
LEMMA TimeoutRounds ==
  ASSUME NEW n \in Nat, NEW waiters, NEW t
  PROVE  \E f : Timing(f, n, waiters, t)
<1> DEFINE Round(b, i) == TimeoutRound(b, waiters[i], t)
           first == -1
           S == {m \in 0 .. n : \E f : f = [i \in 0 .. m |-> IF i = 0 THEN first ELSE Round(f[i - 1], i)]}
<1> HIDE DEF Round, first
<1>1. 0 \in S
  <2> DEFINE f == [i \in 0 .. 0 |-> first]
  <2>1. f = [i \in 0 .. 0 |-> IF i = 0 THEN first ELSE Round(f[i - 1], i)]
    OBVIOUS
  <2>2. 0 \in 0 .. n
    OBVIOUS
  <2> HIDE DEF f
  <2> QED BY Zenon, <2>1, <2>2
<1>2. ASSUME NEW m \in 0 .. n - 1, m \in S PROVE m + 1 \in S
  <2>1. PICK f : f = [i \in 0 .. m |-> IF i = 0 THEN first ELSE Round(f[i - 1], i)]
    BY Zenon, <1>2
  <2> DEFINE g == [i \in 0 .. m + 1 |-> IF i = m + 1 THEN Round(f[m], m + 1) ELSE f[i]]
  <2>2. ASSUME NEW i \in 0 .. m + 1 PROVE g[i] = IF i = 0 THEN first ELSE Round(g[i - 1], i)
    <3>1. CASE i = m + 1
      <4>1. i - 1 = m /\ i # 0 /\ m \in 0 .. m + 1 /\ m # m + 1 /\ m + 1 \in 0 .. m + 1
        BY <3>1
      <4>2. g[i] = Round(f[m], m + 1) /\ g[i - 1] = f[m]
        BY Zenon, <3>1, <4>1
      <4> QED BY Zenon, <3>1, <4>1, <4>2
    <3>2. CASE i \in 0 .. m /\ i # m + 1
      <4>1. g[i] = f[i]
        BY Zenon, <3>2
      <4>2. f[i] = IF i = 0 THEN first ELSE Round(f[i - 1], i)
        BY Zenon, <2>1, <3>2
      <4>3. i # 0 => i - 1 \in 0 .. m + 1 /\ i - 1 # m + 1
        BY <3>2
      <4>4. i # 0 => g[i - 1] = f[i - 1]
        BY Zenon, <4>3
      <4> QED BY Zenon, <4>1, <4>2, <4>4
    <3>3. i = m + 1 \/ (i \in 0 .. m /\ i # m + 1)
      OBVIOUS
    <3> QED BY Zenon, <3>1, <3>2, <3>3
  <2>3. g = [i \in 0 .. m + 1 |-> IF i = 0 THEN first ELSE Round(g[i - 1], i)]
    BY Zenon, <2>2
  <2>4. m + 1 \in 0 .. n
    OBVIOUS
  <2> HIDE DEF g
  <2> QED BY Zenon, <2>3, <2>4
<1>3. n \in S
  <2>1. \A i \in 0 .. n : i \in S
    BY Zenon, <1>1, <1>2, UpTo
  <2>2. n \in 0 .. n
    OBVIOUS
  <2> QED BY Zenon, <2>1, <2>2
<1> QED BY Zenon, <1>3 DEF Round, first, Timing

(* b is not too late for a waiter. *)
InTime(b, w, t) == w.deadline # -1 /\ Remaining(w, t) <= INT_MAX => 0 <= b /\ b <= Remaining(w, t)

(* A round keeps the time of the waiters before, and is in time for its    *)
(* own.                                                                    *)
LEMMA TimeoutRoundInTime ==
  ASSUME NEW t \in Nat, NEW b \in Int, b <= INT_MAX, NEW w, w.deadline \in Nat \cup {-1}
  PROVE  LET new == TimeoutRound(b, w, t)
         IN  /\ new \in Int /\ new <= INT_MAX /\ InTime(new, w, t)
             /\ \A v : v.deadline \in Nat \cup {-1} /\ InTime(b, v, t) => InTime(new, v, t)
<1> DEFINE r   == Remaining(w, t)
           new == TimeoutRound(b, w, t)
<1>1. INT_MAX \in Nat
  BY Zenon, LoopAssumption
<1>2. \A v : v.deadline \in Nat => Remaining(v, t) \in Nat
  BY DEF Remaining
<1>3. CASE w.deadline # -1 /\ (b < 0 \/ r < b)
  <2>1. r \in Nat
    BY Zenon, <1>2, <1>3
  <2>2. new = ToInt(r)
    BY Zenon, <1>3 DEF TimeoutRound
  <2> HIDE DEF r, new
  <2>3. new \in Int /\ new <= INT_MAX /\ (r <= INT_MAX => new = r)
    BY Zenon, <2>1, <2>2, ToIntRange
  <2>4. r <= INT_MAX => 0 <= new /\ new <= r
    BY <2>1, <2>3
  <2>5. InTime(new, w, t)
    BY Zenon, <2>4 DEF InTime, r
  <2>6. ASSUME NEW v, v.deadline \in Nat \cup {-1}, InTime(b, v, t) PROVE InTime(new, v, t)
    <3> SUFFICES ASSUME v.deadline # -1, Remaining(v, t) <= INT_MAX
                 PROVE  0 <= new /\ new <= Remaining(v, t)
      BY Zenon DEF InTime
    <3>1. Remaining(v, t) \in Nat /\ 0 <= b /\ b <= Remaining(v, t)
      BY Zenon, <1>2, <2>6 DEF InTime
    <3>2. r < b
      BY <1>3, <3>1
    <3> QED BY <1>1, <2>1, <2>3, <3>1, <3>2
  <2> QED BY Zenon, <2>3, <2>5, <2>6 DEF new
<1>4. CASE ~(w.deadline # -1 /\ (b < 0 \/ r < b))
  <2>1. new = b
    BY Zenon, <1>4 DEF TimeoutRound
  <2>2. w.deadline # -1 => 0 <= b /\ b <= r
    <3>1. w.deadline # -1 => r \in Nat
      BY Zenon, <1>2
    <3> HIDE DEF r
    <3> QED BY <1>4, <3>1
  <2>3. InTime(b, w, t)
    BY Zenon, <2>2 DEF InTime
  <2> HIDE DEF new
  <2> QED BY Zenon, <2>1, <2>3 DEF new
<1> QED BY Zenon, <1>3, <1>4

(* The timeout is in time for every waiter. *)
LEMMA TimeoutInTime ==
  ASSUME NEW t \in Nat, NEW waiters, IsSeq(waiters),
         \A i \in DOMAIN waiters : waiters[i].deadline \in Nat \cup {-1}
  PROVE  /\ next_timeout(waiters, t) \in Int
         /\ \A i \in DOMAIN waiters : InTime(next_timeout(waiters, t), waiters[i], t)
<1> DEFINE n     == Len(waiters)
           after == CHOOSE f : f = [i \in 0 .. n |-> IF i = 0 THEN -1 ELSE TimeoutRound(f[i - 1], waiters[i], t)]
           Good(k, b) == b \in Int /\ b <= INT_MAX /\ \A i \in 1 .. k : InTime(b, waiters[i], t)
           S     == {k \in 0 .. n : Good(k, after[k])}
<1>1. n \in Nat /\ DOMAIN waiters = 1 .. n
  <2>1. PICK T : waiters \in Seq(T)
    BY Zenon DEF IsSeq
  <2> QED BY <2>1
<1>2. after = [i \in 0 .. n |-> IF i = 0 THEN -1 ELSE TimeoutRound(after[i - 1], waiters[i], t)]
  <2>1. \E f : Timing(f, n, waiters, t)
    BY Zenon, <1>1, TimeoutRounds
  <2> QED BY Zenon, <2>1 DEF Timing
<1>3. next_timeout(waiters, t) = after[n]
  BY Zenon DEF next_timeout, TimeoutRound, Remaining
<1> HIDE DEF after, n
<1>4. Good(0, -1)
  <2>1. INT_MAX \in Nat
    BY Zenon, LoopAssumption
  <2>2. -1 \in Int /\ -1 <= INT_MAX /\ 1 .. 0 = {}
    BY <2>1
  <2> QED BY Zenon, <2>2
<1>5. ASSUME NEW k \in 0 .. n - 1, NEW b, Good(k, b) PROVE Good(k + 1, TimeoutRound(b, waiters[k + 1], t))
  <2> DEFINE new == TimeoutRound(b, waiters[k + 1], t)
  <2>1. k + 1 \in DOMAIN waiters /\ \A i \in 1 .. k + 1 : i = k + 1 \/ (i \in 1 .. k /\ i \in DOMAIN waiters)
    BY <1>1
  <2>2. /\ new \in Int /\ new <= INT_MAX /\ InTime(new, waiters[k + 1], t)
        /\ \A v : v.deadline \in Nat \cup {-1} /\ InTime(b, v, t) => InTime(new, v, t)
    BY Zenon, <1>5, <2>1, TimeoutRoundInTime
  <2> HIDE DEF new
  <2>3. \A i \in 1 .. k + 1 : InTime(new, waiters[i], t)
    BY Zenon, <1>5, <2>1, <2>2
  <2>4. Good(k + 1, new)
    BY Zenon, <2>2, <2>3
  <2> QED BY Zenon, <2>4 DEF new
<1> HIDE DEF Good
<1>6. 0 \in S
  <2>1. 0 \in 0 .. n
    BY <1>1
  <2> QED BY Zenon, <1>2, <1>4, <2>1
<1>7. ASSUME NEW k \in 0 .. n - 1, k \in S PROVE k + 1 \in S
  <2>1. k + 1 \in 0 .. n /\ k + 1 # 0 /\ (k + 1) - 1 = k
    BY <1>1
  <2>2. after[k + 1] = TimeoutRound(after[k], waiters[k + 1], t)
    BY Zenon, <1>2, <2>1
  <2> QED BY Zenon, <1>5, <1>7, <2>1, <2>2
<1>8. n \in S
  <2>1. \A k \in 0 .. n : k \in S
    <3> HIDE DEF S
    <3> QED BY Zenon, <1>1, <1>6, <1>7, UpTo
  <2>2. n \in 0 .. n
    BY <1>1
  <2> QED BY Zenon, <2>1, <2>2
<1> QED BY Zenon, <1>1, <1>3, <1>8 DEF Good

===============================================================================
