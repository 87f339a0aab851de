----------------------------- MODULE SessionProofs -----------------------------
(***************************************************************************)
(* What handle_command does to the state of a connection, for every        *)
(* command, every db and every connection.  EXEC runs the queued commands  *)
(* in a loop: its lemmas are by induction on the number of rounds.         *)
(***************************************************************************)
EXTENDS Session, TLAPS, WellFoundedInduction

-------------------------------------------------------------------------------
(* Induction on natural numbers, stated for sets: what holds of 0 and      *)
(* passes from each number to the next is taken as the set of the numbers  *)
(* it holds of.                                                            *)

(* A set of natural numbers has a least element. *)
LEMMA LeastExists ==
  ASSUME NEW I \in SUBSET Nat, I # {}
  PROVE  \E i \in I : \A j \in I : i <= j
<1>1. PICK R : IsWellFoundedOn(R, Nat) /\ \A i, j \in Nat : <<i, j>> \in R <=> i < j
  <2>1. \A i, j \in Nat : <<i, j>> \in OpToRel(<, Nat) <=> i < j
    BY Zenon DEF OpToRel
  <2> QED BY <2>1, NatLessThanWellFounded, Zenon
<1>2. PICK i \in I : \A j \in I : ~ (<<j, i>> \in R)
  <2>1. IsWellFoundedOn(R, Nat) /\ I \subseteq Nat
    BY Zenon, <1>1
  <2> QED BY <2>1, WFMin, Zenon
<1>3. \A j \in I : ~ (j < i)
  BY <1>1, <1>2, Zenon
<1> QED BY <1>3

(* A set that holds 0, and the successor of what it holds, up to n. *)
LEMMA UpTo ==
  ASSUME NEW n \in Nat, NEW S, 0 \in S, \A i \in 0 .. n - 1 : i \in S => i + 1 \in S
  PROVE  \A i \in 0 .. n : i \in S
<1> SUFFICES ASSUME NEW k \in 0 .. n, k \notin S PROVE FALSE
  BY Zenon
<1> DEFINE I == {i \in 0 .. n : i \notin S}
<1>1. I \in SUBSET Nat /\ I # {}
  <2>1. k \in I
    BY Zenon
  <2> QED BY <2>1
<1>2. PICK i \in I : \A j \in I : i <= j
  BY Zenon, <1>1, LeastExists
<1>3. i \in 0 .. n /\ i \notin S /\ i # 0
  BY Zenon, <1>2
<1>4. i - 1 \in 0 .. n - 1 /\ i - 1 \in 0 .. n /\ ~ (i <= i - 1) /\ (i - 1) + 1 = i
  BY <1>3
<1>5. i - 1 \in S
  BY Zenon, <1>2, <1>4
<1> QED
  BY Zenon, <1>3, <1>4, <1>5

-------------------------------------------------------------------------------

IsSeq(s) == \E S : s \in Seq(S)

(* A ClientState, by its fields. *)
Client(fd, auth, subscriptions, closing, multi, queued, watched, offset) ==
  [fd |-> fd, authenticated |-> auth, subscriptions |-> subscriptions,
   close_after_reply |-> closing, in_multi |-> multi, queued |-> queued, watched |-> watched,
   repl_offset |-> offset]

IsClient(client) ==
  \E f, a, s, c, m, q, w, o : client = Client(f, a, s, c, m, q, w, o) /\ IsSeq(q)

(* Reading a field of a ClientState. *)
LEMMA ClientFields ==
  ASSUME NEW f, NEW a, NEW s, NEW c, NEW m, NEW q, NEW w, NEW o
  PROVE  LET client == Client(f, a, s, c, m, q, w, o)
         IN  /\ client.fd = f /\ client.authenticated = a /\ client.subscriptions = s
             /\ client.close_after_reply = c /\ client.in_multi = m /\ client.queued = q
             /\ client.watched = w /\ client.repl_offset = o
BY Zenon DEF Client

(* Assignments to the fields of a ClientState. *)
Auth(client, x)       == [client EXCEPT !.authenticated = x]
Closing(client, x)    == [client EXCEPT !.close_after_reply = x]
Multi(client, x)      == [client EXCEPT !.in_multi = x]
Queue(client, x)      == [client EXCEPT !.queued = x]
Watching(client, x)   == [client EXCEPT !.watched = x]
Offset(client, x)     == [client EXCEPT !.repl_offset = x]

(* Assigning to a field makes a ClientState and leaves the other fields.   *)
LEMMA ClientUpdates ==
  ASSUME NEW client, IsClient(client), NEW x
  PROVE  /\ LET new == Auth(client, x)
            IN  /\ IsClient(new) /\ new.fd = client.fd /\ new.in_multi = client.in_multi
                /\ new.queued = client.queued /\ new.subscriptions = client.subscriptions
         /\ LET new == Subscriptions(client, x)
            IN  /\ IsClient(new) /\ new.fd = client.fd /\ new.in_multi = client.in_multi
                /\ new.queued = client.queued /\ new.subscriptions = x
         /\ LET new == Closing(client, x)
            IN  /\ IsClient(new) /\ new.fd = client.fd /\ new.in_multi = client.in_multi
                /\ new.queued = client.queued /\ new.subscriptions = client.subscriptions
         /\ LET new == Multi(client, x)
            IN  /\ IsClient(new) /\ new.fd = client.fd /\ new.in_multi = x
                /\ new.queued = client.queued /\ new.subscriptions = client.subscriptions
         /\ LET new == Queue(client, x)
            IN  /\ (IsSeq(x) => IsClient(new)) /\ new.fd = client.fd /\ new.in_multi = client.in_multi
                /\ new.queued = x /\ new.subscriptions = client.subscriptions
         /\ LET new == Watching(client, x)
            IN  /\ IsClient(new) /\ new.fd = client.fd /\ new.in_multi = client.in_multi
                /\ new.queued = client.queued /\ new.subscriptions = client.subscriptions
         /\ LET new == Offset(client, x)
            IN  /\ IsClient(new) /\ new.fd = client.fd /\ new.in_multi = client.in_multi
                /\ new.queued = client.queued /\ new.subscriptions = client.subscriptions
<1>1. PICK f, a, s, c, m, q, w, o : client = Client(f, a, s, c, m, q, w, o) /\ IsSeq(q)
  BY Zenon DEF IsClient
<1>2. Auth(client, x) = Client(f, x, s, c, m, q, w, o)
  BY <1>1 DEF Auth, Client
<1>3. Subscriptions(client, x) = Client(f, a, x, c, m, q, w, o)
  BY <1>1 DEF Subscriptions, Client
<1>4. Closing(client, x) = Client(f, a, s, x, m, q, w, o)
  BY <1>1 DEF Closing, Client
<1>5. Multi(client, x) = Client(f, a, s, c, x, q, w, o)
  BY <1>1 DEF Multi, Client
<1>6. Queue(client, x) = Client(f, a, s, c, m, x, w, o)
  BY <1>1 DEF Queue, Client
<1>7. Watching(client, x) = Client(f, a, s, c, m, q, x, o)
  BY <1>1 DEF Watching, Client
<1>8. Offset(client, x) = Client(f, a, s, c, m, q, w, x)
  BY <1>1 DEF Offset, Client
<1>9. \A a1, s1, c1, m1, q1, w1, o1 : IsSeq(q1) => IsClient(Client(f, a1, s1, c1, m1, q1, w1, o1))
  BY Zenon DEF IsClient
<1>10. client.fd = f /\ client.in_multi = m /\ client.queued = q /\ client.subscriptions = s
  BY <1>1, ClientFields
<1>11. IsClient(Auth(client, x)) /\ Auth(client, x).fd = f /\ Auth(client, x).in_multi = m
      /\ Auth(client, x).queued = q /\ Auth(client, x).subscriptions = s
  BY <1>1, <1>2, <1>9, ClientFields
<1>12. IsClient(Subscriptions(client, x)) /\ Subscriptions(client, x).fd = f /\ Subscriptions(client, x).in_multi = m
      /\ Subscriptions(client, x).queued = q /\ Subscriptions(client, x).subscriptions = x
  BY <1>1, <1>3, <1>9, ClientFields
<1>13. IsClient(Closing(client, x)) /\ Closing(client, x).fd = f /\ Closing(client, x).in_multi = m
      /\ Closing(client, x).queued = q /\ Closing(client, x).subscriptions = s
  BY <1>1, <1>4, <1>9, ClientFields
<1>14. IsClient(Multi(client, x)) /\ Multi(client, x).fd = f /\ Multi(client, x).in_multi = x
      /\ Multi(client, x).queued = q /\ Multi(client, x).subscriptions = s
  BY <1>1, <1>5, <1>9, ClientFields
<1>15. (IsSeq(x) => IsClient(Queue(client, x))) /\ Queue(client, x).fd = f /\ Queue(client, x).in_multi = m
      /\ Queue(client, x).queued = x /\ Queue(client, x).subscriptions = s
  BY <1>1, <1>6, <1>9, ClientFields
<1>16. IsClient(Watching(client, x)) /\ Watching(client, x).fd = f /\ Watching(client, x).in_multi = m
      /\ Watching(client, x).queued = q /\ Watching(client, x).subscriptions = s
  BY <1>1, <1>7, <1>9, ClientFields
<1>17. IsClient(Offset(client, x)) /\ Offset(client, x).fd = f /\ Offset(client, x).in_multi = m
      /\ Offset(client, x).queued = q /\ Offset(client, x).subscriptions = s
  BY <1>1, <1>8, <1>9, ClientFields
<1> QED
  BY Zenon, <1>10, <1>11, <1>12, <1>13, <1>14, <1>15, <1>16, <1>17

(* The first of these. *)
LEMMA AuthUpdate ==
  ASSUME NEW client, IsClient(client), NEW x
  PROVE  LET new == Auth(client, x)
         IN  /\ IsClient(new) /\ new.fd = client.fd /\ new.in_multi = client.in_multi
             /\ new.queued = client.queued /\ new.subscriptions = client.subscriptions
BY ZenonT(90), ClientUpdates

(* The sequences the loops build. *)
LEMMA SeqFacts ==
  /\ IsSeq(<<>>) /\ Len(<<>>) = 0
  /\ \A x : IsSeq(<<x>>) /\ Len(<<x>>) = 1
  /\ \A s, t : IsSeq(s) /\ IsSeq(t) => IsSeq(s \o t) /\ Len(s \o t) = Len(s) + Len(t)
  /\ \A s, x : IsSeq(s) => IsSeq(Append(s, x))
  /\ \A s : IsSeq(s) => Len(s) \in Nat
<1>1. IsSeq(<<>>) /\ Len(<<>>) = 0
  <2>1. <<>> \in Seq({})
    OBVIOUS
  <2> QED BY Zenon, <2>1 DEF IsSeq
<1>2. ASSUME NEW x PROVE IsSeq(<<x>>) /\ Len(<<x>>) = 1
  <2>1. <<x>> \in Seq({x}) /\ Len(<<x>>) = 1
    OBVIOUS
  <2> QED BY Zenon, <2>1 DEF IsSeq
<1>3. ASSUME NEW s, NEW t, IsSeq(s), IsSeq(t)
      PROVE  IsSeq(s \o t) /\ Len(s \o t) = Len(s) + Len(t)
  <2>1. PICK S : s \in Seq(S)
    BY Zenon, <1>3 DEF IsSeq
  <2>2. PICK T : t \in Seq(T)
    BY Zenon, <1>3 DEF IsSeq
  <2>3. s \in Seq(S \cup T) /\ t \in Seq(S \cup T)
    BY <2>1, <2>2
  <2>4. s \o t \in Seq(S \cup T) /\ Len(s \o t) = Len(s) + Len(t)
    BY <2>3
  <2> QED BY Zenon, <2>4 DEF IsSeq
<1>4. ASSUME NEW s, NEW x, IsSeq(s) PROVE IsSeq(Append(s, x))
  <2>1. PICK S : s \in Seq(S)
    BY Zenon, <1>4 DEF IsSeq
  <2>2. s \in Seq(S \cup {x})
    BY <2>1
  <2>3. Append(s, x) \in Seq(S \cup {x})
    BY <2>2
  <2> QED BY Zenon, <2>3 DEF IsSeq
<1>5. ASSUME NEW s, IsSeq(s) PROVE Len(s) \in Nat
  <2>1. PICK S : s \in Seq(S)
    BY Zenon, <1>5 DEF IsSeq
  <2> QED BY <2>1
<1> QED BY Zenon, <1>1, <1>2, <1>3, <1>4, <1>5

(* A sequence grows element by element. *)
LEMMA Prefixes ==
  ASSUME NEW ws, IsSeq(ws)
  PROVE  /\ Len(ws) \in Nat /\ DOMAIN ws = 1 .. Len(ws)
         /\ SubSeq(ws, 1, 0) = <<>> /\ SubSeq(ws, 1, Len(ws)) = ws
         /\ \A i \in 0 .. Len(ws) - 1 : SubSeq(ws, 1, i + 1) = Append(SubSeq(ws, 1, i), ws[i + 1])
         /\ \A i \in 0 .. Len(ws) : IsSeq(SubSeq(ws, 1, i))
<1>1. PICK T : ws \in Seq(T)
  BY Zenon DEF IsSeq
<1>2. Len(ws) \in Nat /\ DOMAIN ws = 1 .. Len(ws) /\ SubSeq(ws, 1, 0) = <<>> /\ SubSeq(ws, 1, Len(ws)) = ws
  BY <1>1
<1>3. ASSUME NEW i \in 0 .. Len(ws) - 1
      PROVE  SubSeq(ws, 1, i + 1) = Append(SubSeq(ws, 1, i), ws[i + 1])
  BY <1>1
<1>4. ASSUME NEW i \in 0 .. Len(ws) PROVE IsSeq(SubSeq(ws, 1, i))
  <2>1. SubSeq(ws, 1, i) \in Seq(T)
    BY <1>1
  <2> QED BY Zenon, <2>1 DEF IsSeq
<1> QED BY Zenon, <1>2, <1>3, <1>4

(* a is how b ends. *)
Ends(a, b) ==
  /\ IsSeq(a) /\ IsSeq(b) /\ Len(a) <= Len(b)
  /\ \A i \in 1 .. Len(a) : a[i] = b[Len(b) - Len(a) + i]

(* What that means for appending and for SubSeq. *)
LEMMA EndsFacts ==
  ASSUME NEW a, NEW b, Ends(a, b)
  PROVE  /\ \A x : Ends(Append(a, x), Append(b, x))
         /\ \A x : a = <<>> => Ends(a, Append(b, x))
         /\ a = SubSeq(b, Len(b) - Len(a) + 1, Len(b))
<1>1. PICK A, B : a \in Seq(A) /\ b \in Seq(B)
  BY Zenon DEF Ends, IsSeq
<1>2. /\ Len(a) \in Nat /\ Len(b) \in Nat /\ Len(a) <= Len(b) /\ DOMAIN a = 1 .. Len(a) /\ DOMAIN b = 1 .. Len(b)
      /\ \A i \in 1 .. Len(a) : a[i] = b[Len(b) - Len(a) + i]
  BY <1>1 DEF Ends
<1>3. ASSUME NEW x PROVE Ends(Append(a, x), Append(b, x))
  <2> DEFINE p == Append(a, x)
             q == Append(b, x)
  <2>1. /\ Len(p) = Len(a) + 1 /\ p[Len(a) + 1] = x /\ \A i \in 1 .. Len(a) : p[i] = a[i]
        /\ Len(q) = Len(b) + 1 /\ q[Len(b) + 1] = x /\ \A i \in 1 .. Len(b) : q[i] = b[i]
    BY <1>1
  <2>2. IsSeq(p) /\ IsSeq(q)
    BY Zenon, SeqFacts DEF Ends
  <2> HIDE DEF p, q
  <2>3. Len(p) <= Len(q)
    BY <1>2, <2>1
  <2>4. ASSUME NEW i \in 1 .. Len(p) PROVE p[i] = q[Len(q) - Len(p) + i]
    <3>1. Len(q) - Len(p) + i = Len(b) - Len(a) + i
      BY <1>2, <2>1
    <3>2. CASE i = Len(a) + 1
      BY <1>2, <2>1, <3>1, <3>2
    <3>3. CASE i # Len(a) + 1
      <4>1. i \in 1 .. Len(a) /\ Len(b) - Len(a) + i \in 1 .. Len(b)
        BY <1>2, <2>1, <3>3
      <4> QED BY Zenon, <1>2, <2>1, <3>1, <4>1
    <3> QED BY Zenon, <3>2, <3>3
  <2>5. Ends(p, q)
    BY Zenon, <2>2, <2>3, <2>4 DEF Ends
  <2> QED BY Zenon, <2>5 DEF p, q
<1>4. ASSUME NEW x, a = <<>> PROVE Ends(a, Append(b, x))
  <2>1. Len(a) = 0 /\ Len(Append(b, x)) = Len(b) + 1
    BY <1>1, <1>4
  <2>2. IsSeq(a) /\ IsSeq(Append(b, x))
    BY Zenon, SeqFacts DEF Ends
  <2>3. Len(a) <= Len(Append(b, x)) /\ 1 .. Len(a) = {}
    BY <1>2, <2>1
  <2> QED BY Zenon, <2>2, <2>3 DEF Ends
<1>5. a = SubSeq(b, Len(b) - Len(a) + 1, Len(b))
  <2>1. PICK n \in Nat, m \in Nat : n = Len(a) /\ m = Len(b) /\ n <= m
    BY Zenon, <1>2
  <2>2. PICK k \in Nat : k + n = m /\ k = m - n
    BY <2>1
  <2>3. b \in [1 .. m -> B] /\ a = [i \in 1 .. n |-> a[i]]
    BY <1>1, <2>1
  <2>4. SubSeq(b, k + 1, m) = [i \in 1 .. n |-> b[k + i]]
    <3>1. SubSeq(b, k + 1, m) = [i \in 1 .. (m - (k + 1) + 1) |-> b[(k + 1) + i - 1]]
      BY <1>1, <2>1
    <3>2. m - (k + 1) + 1 = n
      BY <2>2
    <3>3. \A i \in 1 .. n : (k + 1) + i - 1 = k + i
      OBVIOUS
    <3> QED BY Zenon, <3>1, <3>2, <3>3
  <2>5. \A i \in 1 .. n : a[i] = b[k + i]
    BY Zenon, <1>2, <2>1, <2>2
  <2>6. a = SubSeq(b, k + 1, m)
    BY Zenon, <2>3, <2>4, <2>5
  <2> QED BY Zenon, <2>1, <2>2, <2>6
<1> QED BY Zenon, <1>3, <1>4, <1>5

(* The empty sequence, and beginnings. *)
LEMMA SeqParts ==
  ASSUME NEW s, IsSeq(s)
  PROVE  /\ s \o <<>> = s
         /\ Len(s) = 0 => s = <<>>
         /\ \A n \in 0 .. Len(s) : IsSeq(SubSeq(s, 1, n)) /\ Len(SubSeq(s, 1, n)) = n
<1>1. PICK S : s \in Seq(S)
  BY Zenon DEF IsSeq
<1>2. s \o <<>> = s /\ (Len(s) = 0 => s = <<>>)
  BY <1>1
<1>3. ASSUME NEW n \in 0 .. Len(s)
      PROVE  SubSeq(s, 1, n) \in Seq(S) /\ Len(SubSeq(s, 1, n)) = n
  BY <1>1
<1> QED BY Zenon, <1>2, <1>3 DEF IsSeq

-------------------------------------------------------------------------------

(* What every command but MULTI, EXEC, DISCARD, QUIT and RESET leaves alone. *)
Keeps(r, client) ==
  /\ IsClient(r.client) /\ IsSeq(r.propagations)
  /\ r.client.fd = client.fd /\ r.client.in_multi = client.in_multi
  /\ r.client.queued = client.queued

(* A command that changes nothing of its connection. *)
LEMMA AnswerKeeps ==
  ASSUME NEW db, NEW client, IsClient(client), NEW out
  PROVE  Keeps(Answer(db, client, out), client)
BY Zenon, SeqFacts DEF Keeps, Answer, Outcome

(* SUBSCRIBE and UNSUBSCRIBE (pubsub.cpp) change the subscriptions. *)
LEMMA SubscriptionsKeep ==
  ASSUME NEW db, NEW client, IsClient(client), NEW out, NEW channels
  PROVE  Keeps(Answer(db, Subscriptions(client, channels), out), client)
<1> DEFINE new == Subscriptions(client, channels)
<1>1. IsClient(new) /\ new.fd = client.fd /\ new.in_multi = client.in_multi
      /\ new.queued = client.queued
  BY ZenonT(90), ClientUpdates
<1> HIDE DEF new
<1>2. Keeps(Answer(db, new, out), client)
  BY Zenon, <1>1, SeqFacts DEF Keeps, Answer, Outcome
<1> QED BY Zenon, <1>2 DEF new

(* AUTH changes whether the connection is authenticated. *)
LEMMA AuthKeeps ==
  ASSUME NEW db, NEW client, IsClient(client), NEW name, NEW password
  PROVE  Keeps(handle_auth(db, client, name, password), client)
<1> DEFINE new == Auth(client, TRUE)
<1>1. IsClient(new) /\ new.fd = client.fd /\ new.in_multi = client.in_multi
      /\ new.queued = client.queued
  BY ZenonT(90), ClientUpdates
<1> HIDE DEF new
<1>2. Keeps(Answer(db, new, Ok), client)
  BY Zenon, <1>1, SeqFacts DEF Keeps, Answer, Outcome
<1>3. \A text : Keeps(Answer(db, client, Error(text)), client)
  BY Zenon, AnswerKeeps
<1> QED BY Zenon, <1>2, <1>3 DEF handle_auth, new, Auth

(* dispatch_command leaves the transaction of the connection alone. *)
LEMMA DispatchKeeps ==
  ASSUME NEW c, NEW db, NEW client, IsClient(client), NEW t, NEW wall
  PROVE  Keeps(Dispatch(c, db, client, t, wall), client)
<1>1. Keeps(handle_subscribe(db, client, c.channels), client)
  BY Zenon, SubscriptionsKeep DEF handle_subscribe
<1>2. Keeps(handle_unsubscribe(db, client, c.channels), client)
  BY Zenon, SubscriptionsKeep DEF handle_unsubscribe
<1>3. Keeps(handle_publish(db, client, c.channel, c.message), client)
  BY Zenon, AnswerKeeps DEF handle_publish
<1>4. Keeps(handle_setuser(db, client, c.rules), client)
  BY Zenon, AnswerKeeps DEF handle_setuser
<1>5. \A r : Keeps(OnData(c, db, client, r), client)
  BY Zenon, SeqFacts DEF OnData, Keeps, Outcome
<1> QED
  BY Zenon, <1>1, <1>2, <1>3, <1>4, <1>5, AuthKeeps, AnswerKeeps DEF Dispatch

-------------------------------------------------------------------------------

(* The state of a connection whose transaction is over. *)
Released(r, client) ==
  /\ IsClient(r.client) /\ IsSeq(r.propagations)
  /\ r.client.fd = client.fd /\ ~r.client.in_multi /\ r.client.queued = <<>>

(* Clearing the queue and leaving MULTI. *)
LEMMA UnqueuedClient ==
  ASSUME NEW client, IsClient(client)
  PROVE  LET new == Unqueued(client)
         IN  /\ IsClient(new) /\ new.fd = client.fd /\ new.in_multi = FALSE
             /\ new.queued = <<>> /\ new.subscriptions = client.subscriptions
<1> DEFINE x == Multi(client, FALSE)
           y == Queue(x, <<>>)
           z == Watching(y, <<>>)
<1>1. IsClient(x) /\ x.fd = client.fd /\ x.in_multi = FALSE /\ x.subscriptions = client.subscriptions
  <2>1. \A b : LET new == Multi(client, b)
               IN  /\ IsClient(new) /\ new.fd = client.fd /\ new.in_multi = b
                   /\ new.subscriptions = client.subscriptions
    BY ClientUpdates
  <2> QED BY Zenon, <2>1
<1>2. IsClient(y) /\ y.fd = x.fd /\ y.in_multi = x.in_multi /\ y.queued = <<>>
      /\ y.subscriptions = x.subscriptions
  <2> HIDE DEF x
  <2> QED BY <1>1, ClientUpdates, SeqFacts
<1>3. IsClient(z) /\ z.fd = y.fd /\ z.in_multi = y.in_multi /\ z.queued = y.queued
      /\ z.subscriptions = y.subscriptions
  <2> HIDE DEF x, y
  <2> QED BY ZenonT(90), <1>2, ClientUpdates
<1>4. Unqueued(client) = z
  BY Zenon DEF Unqueued, Multi, Queue, Watching
<1> HIDE DEF x, y, z
<1> QED BY Zenon, <1>1, <1>2, <1>3, <1>4

(* f[i] is what i rounds of EXEC come to. *)
Rounds(f, n, start, queued, t, wall) ==
  f = [i \in 0 .. n |->
         IF i = 0 THEN start
         ELSE ExecuteQueued(f[i - 1], queued[i],
                            Dispatch(queued[i], f[i - 1].db, f[i - 1].client, t, wall))]

(* The loop of EXEC has a run, whatever is queued (command.cpp:312). *)
LEMMA ExecRounds ==
  ASSUME NEW n \in Nat, NEW start, NEW queued, NEW t, NEW wall
  PROVE  \E f : Rounds(f, n, start, queued, t, wall)
<1> DEFINE Round(b, i) == ExecuteQueued(b, queued[i], Dispatch(queued[i], b.db, b.client, t, wall))
           S == {m \in 0 .. n : \E f : f = [i \in 0 .. m |-> IF i = 0 THEN start ELSE Round(f[i - 1], i)]}
<1> HIDE DEF Round
<1>1. 0 \in S
  <2> DEFINE f == [i \in 0 .. 0 |-> start]
  <2>1. f = [i \in 0 .. 0 |-> IF i = 0 THEN start ELSE Round(f[i - 1], i)]
    OBVIOUS
  <2>2. 0 \in 0 .. n
    OBVIOUS
  <2> HIDE DEF f
  <2> QED BY Zenon, <2>1, <2>2
<1>2. ASSUME NEW m \in 0 .. n - 1, m \in S PROVE m + 1 \in S
  <2>1. PICK f : f = [i \in 0 .. m |-> IF i = 0 THEN start ELSE Round(f[i - 1], i)]
    BY Zenon, <1>2
  <2> DEFINE g == [i \in 0 .. m + 1 |-> IF i = m + 1 THEN Round(f[m], m + 1) ELSE f[i]]
  <2>2. ASSUME NEW i \in 0 .. m + 1 PROVE g[i] = IF i = 0 THEN start ELSE Round(g[i - 1], i)
    <3>1. CASE i = m + 1
      <4>1. i - 1 = m /\ i # 0 /\ m \in 0 .. m + 1 /\ m # m + 1 /\ m + 1 \in 0 .. m + 1
        BY <3>1
      <4>2. g[i] = Round(f[m], m + 1) /\ g[i - 1] = f[m]
        BY Zenon, <3>1, <4>1
      <4> QED BY Zenon, <3>1, <4>1, <4>2
    <3>2. CASE i \in 0 .. m /\ i # m + 1
      <4>1. g[i] = f[i]
        BY Zenon, <3>2
      <4>2. f[i] = IF i = 0 THEN start ELSE Round(f[i - 1], i)
        BY Zenon, <2>1, <3>2
      <4>3. i # 0 => i - 1 \in 0 .. m + 1 /\ i - 1 # m + 1
        BY <3>2
      <4>4. i # 0 => g[i - 1] = f[i - 1]
        BY Zenon, <4>3
      <4> QED BY Zenon, <4>1, <4>2, <4>4
    <3>3. i = m + 1 \/ (i \in 0 .. m /\ i # m + 1)
      OBVIOUS
    <3> QED BY Zenon, <3>1, <3>2, <3>3
  <2>3. g = [i \in 0 .. m + 1 |-> IF i = 0 THEN start ELSE Round(g[i - 1], i)]
    BY Zenon, <2>2
  <2>4. m + 1 \in 0 .. n
    OBVIOUS
  <2> HIDE DEF g
  <2> QED BY Zenon, <2>3, <2>4
<1>3. n \in S
  <2>1. \A i \in 0 .. n : i \in S
    BY Zenon, <1>1, <1>2, UpTo
  <2>2. n \in 0 .. n
    OBVIOUS
  <2> QED BY Zenon, <2>1, <2>2
<1> QED BY Zenon, <1>3 DEF Round, Rounds

(* EXEC ends the transaction, whatever its commands do (command.cpp:285). *)
LEMMA ExecReleases ==
  ASSUME NEW db, NEW client, IsClient(client), NEW t, NEW wall
  PROVE  Released(Exec(db, client, t, wall), client)
<1> DEFINE queued == client.queued
           n      == Len(queued)
           start  == Outcome(Compared(db, client.watched, t), Unqueued(client), Array(<<>>), <<>>)
           Round(b, i) == ExecuteQueued(b, queued[i], Dispatch(queued[i], b.db, b.client, t, wall))
           after  == CHOOSE f : f = [i \in 0 .. n |-> IF i = 0 THEN start ELSE Round(f[i - 1], i)]
           S      == {i \in 0 .. n : Released(after[i], client)}
<1>1. n \in Nat
  BY ClientFields, SeqFacts DEF IsClient
<1>2. Released(start, client)
  <2>1. IsSeq(<<>>)
    BY Zenon, SeqFacts
  <2> DEFINE new == Unqueued(client)
  <2>2. IsClient(new) /\ new.fd = client.fd /\ new.in_multi = FALSE /\ new.queued = <<>>
    BY Zenon, UnqueuedClient
  <2> HIDE DEF new
  <2>3. \A x, y : Released(Outcome(x, new, y, <<>>), client)
    BY Zenon, <2>1, <2>2 DEF Outcome, Released
  <2> QED BY Zenon, <2>3 DEF new
<1>3. ASSUME NEW b, NEW i, Released(b, client) PROVE Released(Round(b, i), client)
  <2> DEFINE r == Dispatch(queued[i], b.db, b.client, t, wall)
  <2>1. Keeps(r, b.client)
    BY Zenon, <1>3, DispatchKeeps DEF Released
  <2> HIDE DEF r
  <2>2. \A more, out : IsSeq(more) =>
          Released(Outcome(r.db, r.client, out, b.propagations \o r.propagations \o more), client)
    BY Zenon, <1>3, <2>1, SeqFacts DEF Outcome, Released, Keeps
  <2>3. \A x : IsSeq(<<x>>) /\ IsSeq(<<>>)
    BY Zenon, SeqFacts
  <2>4. Released(ExecuteQueued(b, queued[i], r), client)
    BY Zenon, <2>2, <2>3 DEF ExecuteQueued
  <2> QED BY Zenon, <2>4 DEF r
<1> HIDE DEF start, Round, queued
<1>4. after = [i \in 0 .. n |-> IF i = 0 THEN start ELSE Round(after[i - 1], i)]
  <2>1. \E f : f = [i \in 0 .. n |-> IF i = 0 THEN start ELSE Round(f[i - 1], i)]
    <3>1. \E f : Rounds(f, n, start, queued, t, wall)
      BY Zenon, <1>1, ExecRounds
    <3> QED BY Zenon, <3>1 DEF Round, Rounds
  <2> QED BY Zenon, <2>1
<1> HIDE DEF after
<1>5. 0 \in S
  <2>1. 0 \in 0 .. n
    BY <1>1
  <2> QED BY Zenon, <1>2, <1>4, <2>1
<1>6. ASSUME NEW i \in 0 .. n - 1, i \in S PROVE i + 1 \in S
  <2>1. i + 1 \in 0 .. n /\ i + 1 # 0 /\ (i + 1) - 1 = i
    BY <1>1
  <2>2. after[i + 1] = Round(after[i], i + 1)
    BY Zenon, <1>4, <2>1
  <2> QED BY Zenon, <1>3, <1>6, <2>1, <2>2
<1>7. n \in S
  <2>1. \A i \in 0 .. n : i \in S
    <3> HIDE DEF S, n
    <3> QED BY Zenon, <1>1, <1>5, <1>6, UpTo
  <2>2. n \in 0 .. n
    BY <1>1
  <2> QED BY Zenon, <2>1, <2>2
<1>8. Released(Answer(start.db, start.client, NullArray), client)
  BY Zenon, <1>2, SeqFacts DEF Answer, Outcome, Released
<1> QED BY Zenon, <1>7, <1>8 DEF Exec, start, Round, after, queued

-------------------------------------------------------------------------------

(* Whatever a command comes to, a connection stays a connection. *)
Answers(r, client) == IsClient(r.client) /\ IsSeq(r.propagations) /\ r.client.fd = client.fd

(* A reply without a propagation. *)
LEMMA AnswerAnswers ==
  ASSUME NEW client, NEW new, IsClient(new), new.fd = client.fd, NEW db, NEW out
  PROVE  Answers(Answer(db, new, out), client)
BY Zenon, SeqFacts DEF Answers, Answer, Outcome

(* QUIT and RESET. *)
LEMMA ResetAnswers ==
  ASSUME NEW client, IsClient(client), NEW db, NEW op
  PROVE  Answers(Reset(db, client, op), client)
<1> DEFINE x == Unqueued(client)
           y == Subscriptions(x, {})
           z == Auth(y, default_user_auto_auth(db))
           new == Closing(z, op = "QUIT")
<1>1. IsClient(x) /\ x.fd = client.fd
  BY Zenon, UnqueuedClient
<1>2. IsClient(y) /\ y.fd = x.fd
  <2> HIDE DEF x
  <2> QED BY ZenonT(60), <1>1, ClientUpdates
<1>3. IsClient(z) /\ z.fd = y.fd
  <2> HIDE DEF x, y
  <2> QED BY ZenonT(60), <1>2, ClientUpdates
<1>4. IsClient(new) /\ new.fd = z.fd
  <2> HIDE DEF x, y, z
  <2>1. \A b : IsClient(Closing(z, b)) /\ Closing(z, b).fd = z.fd
    BY ZenonT(60), <1>3, ClientUpdates
  <2> QED BY Zenon, <2>1
<1>5. Answers(Answer(remove_subscriber(db, client.fd), new, Reply("simple", op)), client)
  <2> HIDE DEF x, y, z, new
  <2> QED BY Zenon, <1>1, <1>2, <1>3, <1>4, AnswerAnswers
<1> QED BY Zenon, <1>5 DEF Reset, Auth, Closing

(* handle_command (command.cpp:186), for every command. *)
LEMMA HandleAnswers ==
  ASSUME NEW c, NEW db, NEW client, IsClient(client), NEW t, NEW wall
  PROVE  Answers(handle_command(c, db, client, t, wall), client)
<1>1. \A d, out : Answers(Answer(d, client, out), client)
  BY Zenon, AnswerAnswers
<1>2. Answers(Reset(db, client, c.op), client)
  BY Zenon, ResetAnswers
<1>3. Answers(Answer(db, [client EXCEPT !.in_multi = TRUE], Ok), client)
  <2>1. IsClient(Multi(client, TRUE)) /\ Multi(client, TRUE).fd = client.fd
    BY ZenonT(60), ClientUpdates
  <2>2. Answers(Answer(db, Multi(client, TRUE), Ok), client)
    BY Zenon, <2>1, AnswerAnswers
  <2> QED BY Zenon, <2>2 DEF Multi
<1>4. ASSUME NEW x PROVE \A d : Answers(Answer(d, [client EXCEPT !.watched = x], Ok), client)
  <2>1. IsClient(Watching(client, x)) /\ Watching(client, x).fd = client.fd
    BY Zenon, ClientUpdates
  <2>2. \A d : Answers(Answer(d, Watching(client, x), Ok), client)
    BY Zenon, <2>1, AnswerAnswers
  <2> QED BY Zenon, <2>2 DEF Watching
<1>5. Answers(Watch(db, client, c.keys, t), client)
  <2> DEFINE x == client.watched \o [i \in DOMAIN c.keys |->
                    [key |-> c.keys[i], snapshot |-> peek(db.data, t, c.keys[i]).out]]
  <2>1. Watch(db, client, c.keys, t) =
          Answer([db EXCEPT !.data = ReapSet(@, t, {c.keys[i] : i \in DOMAIN c.keys})],
                 [client EXCEPT !.watched = x], Ok)
    BY Zenon DEF Watch
  <2> HIDE DEF x
  <2> QED BY Zenon, <1>4, <2>1
<1>6. Answers(Answer(db, Unqueued(client), Ok), client)
  BY Zenon, UnqueuedClient, AnswerAnswers
<1>7. Answers(Exec(db, client, t, wall), client)
  <2>1. Released(Exec(db, client, t, wall), client)
    BY Zenon, ExecReleases
  <2> QED BY Zenon, <2>1 DEF Released, Answers
<1>8. Answers(Answer(db, [client EXCEPT !.queued = Append(@, c)], Reply("simple", "QUEUED")), client)
  <2> DEFINE q == Append(client.queued, c)
  <2>1. IsSeq(q)
    BY ClientFields, SeqFacts DEF IsClient
  <2> HIDE DEF q
  <2>2. IsClient(Queue(client, q)) /\ Queue(client, q).fd = client.fd
    BY Zenon, <2>1, ClientUpdates
  <2>3. Answers(Answer(db, Queue(client, q), Reply("simple", "QUEUED")), client)
    BY Zenon, <2>2, AnswerAnswers
  <2> QED BY Zenon, <2>3 DEF Queue, q
<1>9. Answers(Dispatch(c, db, client, t, wall), client)
  <2>1. Keeps(Dispatch(c, db, client, t, wall), client)
    BY Zenon, DispatchKeeps
  <2> QED BY Zenon, <2>1 DEF Keeps, Answers
<1>10. Answers(Answer(db, [client EXCEPT !.watched = <<>>], Ok), client)
  BY Zenon, <1>4
<1> QED
  BY Zenon, <1>1, <1>2, <1>3, <1>5, <1>6, <1>7, <1>8, <1>9, <1>10 DEF handle_command

-------------------------------------------------------------------------------
(* Subscriptions: what a connection is told it listens to, and what the    *)
(* store delivers to it.                                                   *)

(* The rest of class Store, by its fields. *)
Db(data, subscribers, pending, user, offset) ==
  [data |-> data, subscribers |-> subscribers, pending_messages |-> pending,
   user |-> user, repl_offset |-> offset]

IsDb(db) == \E d, s, p, u, o : db = Db(d, s, p, u, o)

(* Assignments to its fields. *)
SetData(db, x)         == [db EXCEPT !.data = x]
SetSubscribers(db, x)  == [db EXCEPT !.subscribers = x]
SetPending(db, x)      == [db EXCEPT !.pending_messages = x]
SetUser(db, x)         == [db EXCEPT !.user = x]
SetOffset(db, x)       == [db EXCEPT !.repl_offset = x]

(* Assigning to a field leaves the others. *)
LEMMA DbUpdates ==
  ASSUME NEW db, IsDb(db), NEW x
  PROVE  /\ LET new == SetData(db, x)
            IN  /\ IsDb(new) /\ new.data = x
                /\ new.subscribers = db.subscribers /\ new.pending_messages = db.pending_messages
                /\ new.user = db.user /\ new.repl_offset = db.repl_offset
         /\ LET new == SetSubscribers(db, x)
            IN  /\ IsDb(new) /\ new.subscribers = x
                /\ new.data = db.data /\ new.pending_messages = db.pending_messages
                /\ new.user = db.user /\ new.repl_offset = db.repl_offset
         /\ LET new == SetPending(db, x)
            IN  /\ IsDb(new) /\ new.pending_messages = x
                /\ new.data = db.data /\ new.subscribers = db.subscribers
                /\ new.user = db.user /\ new.repl_offset = db.repl_offset
         /\ LET new == SetUser(db, x)
            IN  /\ IsDb(new) /\ new.user = x
                /\ new.data = db.data /\ new.subscribers = db.subscribers
                /\ new.pending_messages = db.pending_messages /\ new.repl_offset = db.repl_offset
         /\ LET new == SetOffset(db, x)
            IN  /\ IsDb(new) /\ new.repl_offset = x
                /\ new.data = db.data /\ new.subscribers = db.subscribers
                /\ new.pending_messages = db.pending_messages /\ new.user = db.user
<1>1. PICK d, s, p, u, o : db = Db(d, s, p, u, o)
  BY Zenon DEF IsDb
<1>2. \A a, b, c, e, f : IsDb(Db(a, b, c, e, f))
  BY Zenon DEF IsDb
<1>3. SetData(db, x) = Db(x, s, p, u, o)
  BY <1>1 DEF Db, SetData
<1>4. SetSubscribers(db, x) = Db(d, x, p, u, o)
  BY <1>1 DEF Db, SetSubscribers
<1>5. SetPending(db, x) = Db(d, s, x, u, o)
  BY <1>1 DEF Db, SetPending
<1>6. SetUser(db, x) = Db(d, s, p, x, o)
  BY <1>1 DEF Db, SetUser
<1>7. SetOffset(db, x) = Db(d, s, p, u, x)
  BY <1>1 DEF Db, SetOffset
<1>8. \A a, b, c, e, f : LET new == Db(a, b, c, e, f)
        IN  new.data = a /\ new.subscribers = b /\ new.pending_messages = c /\ new.user = e /\ new.repl_offset = f
  BY DEF Db
<1>9. IsDb(SetData(db, x)) /\ SetData(db, x).data = x /\ SetData(db, x).subscribers = db.subscribers
      /\ SetData(db, x).pending_messages = db.pending_messages /\ SetData(db, x).user = db.user /\ SetData(db, x).repl_offset = db.repl_offset
  BY <1>1, <1>2, <1>3, <1>8
<1>10. IsDb(SetSubscribers(db, x)) /\ SetSubscribers(db, x).data = db.data /\ SetSubscribers(db, x).subscribers = x
      /\ SetSubscribers(db, x).pending_messages = db.pending_messages /\ SetSubscribers(db, x).user = db.user /\ SetSubscribers(db, x).repl_offset = db.repl_offset
  BY <1>1, <1>2, <1>4, <1>8
<1>11. IsDb(SetPending(db, x)) /\ SetPending(db, x).data = db.data /\ SetPending(db, x).subscribers = db.subscribers
      /\ SetPending(db, x).pending_messages = x /\ SetPending(db, x).user = db.user /\ SetPending(db, x).repl_offset = db.repl_offset
  BY <1>1, <1>2, <1>5, <1>8
<1>12. IsDb(SetUser(db, x)) /\ SetUser(db, x).data = db.data /\ SetUser(db, x).subscribers = db.subscribers
      /\ SetUser(db, x).pending_messages = db.pending_messages /\ SetUser(db, x).user = x /\ SetUser(db, x).repl_offset = db.repl_offset
  BY <1>1, <1>2, <1>6, <1>8
<1>13. IsDb(SetOffset(db, x)) /\ SetOffset(db, x).data = db.data /\ SetOffset(db, x).subscribers = db.subscribers
      /\ SetOffset(db, x).pending_messages = db.pending_messages /\ SetOffset(db, x).user = db.user /\ SetOffset(db, x).repl_offset = x
  BY <1>1, <1>2, <1>7, <1>8
<1> QED
  BY Zenon, <1>9, <1>10, <1>11, <1>12, <1>13

(* The channels a set of pairs has for a connection. *)
Listens(pairs, fd) == {pair[1] : pair \in {p \in pairs : p[2] = fd}}

(* Every member is a pair of a channel and a connection. *)
Paired(pairs) == \A p \in pairs : p = <<p[1], p[2]>>

Agrees(db, client) ==
  /\ IsDb(db) /\ IsClient(client) /\ Paired(db.subscribers)
  /\ client.subscriptions = Listens(db.subscribers, client.fd)

(* A command comes to r: client and store agree, and nothing has changed   *)
(* for the other connections.                                              *)
Follows(r, db, client) ==
  /\ Agrees(r.db, r.client) /\ r.client.fd = client.fd
  /\ r.db.repl_offset = db.repl_offset
  /\ \A fd : fd # client.fd => Listens(r.db.subscribers, fd) = Listens(db.subscribers, fd)

(* Listening, in terms of the pairs. *)
LEMMA ListensIff ==
  ASSUME NEW P, Paired(P)
  PROVE  \A x, fd : x \in Listens(P, fd) <=> <<x, fd>> \in P
<1>1. ASSUME NEW x, NEW fd, x \in Listens(P, fd) PROVE <<x, fd>> \in P
  BY Zenon, <1>1 DEF Listens, Paired
<1>2. ASSUME NEW x, NEW fd, <<x, fd>> \in P PROVE x \in Listens(P, fd)
  <2>1. <<x, fd>>[1] = x /\ <<x, fd>>[2] = fd
    BY Zenon
  <2> QED BY Zenon, <1>2, <2>1 DEF Listens
<1> QED BY Zenon, <1>1, <1>2

(* Pairs that come and go for one connection. *)
Joined(P, named, fd) == P \cup (named \X {fd})
Parted(P, named, fd) == P \ (named \X {fd})
Gone(P, fd)          == {pair \in P : pair[2] # fd}

(* They make a difference to that connection alone. *)
LEMMA ListensChanges ==
  ASSUME NEW P, Paired(P), NEW fd, NEW named
  PROVE  /\ Paired(Joined(P, named, fd)) /\ Paired(Parted(P, named, fd))
         /\ Listens(Joined(P, named, fd), fd) = Listens(P, fd) \cup named
         /\ Listens(Parted(P, named, fd), fd) = Listens(P, fd) \ named
         /\ \A g : g # fd => Listens(Joined(P, named, fd), g) = Listens(P, g)
         /\ \A g : g # fd => Listens(Parted(P, named, fd), g) = Listens(P, g)
<1> DEFINE Q == Joined(P, named, fd)
           R == Parted(P, named, fd)
<1>1. \A x, g : <<x, g>> \in named \X {fd} <=> x \in named /\ g = fd
  BY Zenon
<1>2. \A p \in named \X {fd} : p = <<p[1], p[2]>>
  OBVIOUS
<1>3. Paired(Q) /\ Paired(R)
  BY Zenon, <1>2 DEF Paired, Joined, Parted
<1>4. /\ \A x, g : <<x, g>> \in Q <=> <<x, g>> \in P \/ (x \in named /\ g = fd)
      /\ \A x, g : <<x, g>> \in R <=> <<x, g>> \in P /\ ~(x \in named /\ g = fd)
  BY Zenon, <1>1 DEF Joined, Parted
<1> HIDE DEF Q, R
<1>5. /\ \A x, g : x \in Listens(P, g) <=> <<x, g>> \in P
      /\ \A x, g : x \in Listens(Q, g) <=> <<x, g>> \in Q
      /\ \A x, g : x \in Listens(R, g) <=> <<x, g>> \in R
  BY Zenon, <1>3, ListensIff
<1>6. Listens(Q, fd) = Listens(P, fd) \cup named /\ \A g : g # fd => Listens(Q, g) = Listens(P, g)
  <2>1. \A x : x \in Listens(Q, fd) <=> x \in Listens(P, fd) \cup named
    BY Zenon, <1>4, <1>5
  <2>2. ASSUME NEW g, g # fd PROVE \A x : x \in Listens(Q, g) <=> x \in Listens(P, g)
    BY Zenon, <1>4, <1>5, <2>2
  <2> QED BY <2>1, <2>2
<1>7. Listens(R, fd) = Listens(P, fd) \ named /\ \A g : g # fd => Listens(R, g) = Listens(P, g)
  <2>1. \A x : x \in Listens(R, fd) <=> x \in Listens(P, fd) \ named
    BY Zenon, <1>4, <1>5
  <2>2. ASSUME NEW g, g # fd PROVE \A x : x \in Listens(R, g) <=> x \in Listens(P, g)
    BY Zenon, <1>4, <1>5, <2>2
  <2> QED BY <2>1, <2>2
<1> QED BY Zenon, <1>3, <1>6, <1>7 DEF Q, R

(* So do those that go with their connection. *)
LEMMA ListensGone ==
  ASSUME NEW P, Paired(P), NEW fd
  PROVE  /\ Paired(Gone(P, fd)) /\ Listens(Gone(P, fd), fd) = {}
         /\ \A g : g # fd => Listens(Gone(P, fd), g) = Listens(P, g)
<1> DEFINE S == Gone(P, fd)
<1>1. \A x, g : <<x, g>>[2] = g
  BY Zenon
<1>2. Paired(S)
  BY Zenon DEF Paired, Gone
<1>3. \A x, g : <<x, g>> \in S <=> <<x, g>> \in P /\ g # fd
  BY Zenon, <1>1 DEF Gone
<1> HIDE DEF S
<1>4. /\ \A x, g : x \in Listens(P, g) <=> <<x, g>> \in P
      /\ \A x, g : x \in Listens(S, g) <=> <<x, g>> \in S
  BY Zenon, <1>2, ListensIff
<1>5. \A x : x \notin Listens(S, fd)
  BY Zenon, <1>3, <1>4
<1>6. ASSUME NEW g, g # fd PROVE \A x : x \in Listens(S, g) <=> x \in Listens(P, g)
  BY Zenon, <1>3, <1>4, <1>6
<1>7. Listens(S, fd) = {}
  BY Zenon, <1>5
<1>8. ASSUME NEW g, g # fd PROVE Listens(S, g) = Listens(P, g)
  BY <1>6, <1>8
<1> QED BY Zenon, <1>2, <1>7, <1>8 DEF S

(* A command that leaves the subscriptions alone. *)
LEMMA SameFollows ==
  ASSUME NEW db, NEW client, Agrees(db, client), NEW d, IsDb(d),
         d.subscribers = db.subscribers, d.repl_offset = db.repl_offset,
         NEW cl, IsClient(cl), cl.fd = client.fd, cl.subscriptions = client.subscriptions,
         NEW out, NEW q
  PROVE  Follows(Outcome(d, cl, out, q), db, client)
<1>1. Outcome(d, cl, out, q).db = d /\ Outcome(d, cl, out, q).client = cl
  BY Zenon DEF Outcome
<1> QED BY Zenon, <1>1 DEF Follows, Agrees

(* A command that changes the subscribers, and those of the client with    *)
(* them.                                                                   *)
LEMMA ChangedFollows ==
  ASSUME NEW db, NEW client, Agrees(db, client), NEW P, Paired(P),
         \A g : g # client.fd => Listens(P, g) = Listens(db.subscribers, g),
         NEW cl, IsClient(cl), cl.fd = client.fd, cl.subscriptions = Listens(P, client.fd), NEW out
  PROVE  Follows(Answer(SetSubscribers(db, P), cl, out), db, client)
<1> DEFINE d == SetSubscribers(db, P)
<1>1. IsDb(d) /\ d.subscribers = P /\ d.repl_offset = db.repl_offset
  BY DbUpdates DEF Agrees
<1> HIDE DEF d
<1>2. Answer(d, cl, out).db = d /\ Answer(d, cl, out).client = cl
  BY Zenon DEF Answer, Outcome
<1>3. Follows(Answer(d, cl, out), db, client)
  BY Zenon, <1>1, <1>2 DEF Follows, Agrees
<1> QED BY Zenon, <1>3 DEF d

(* SUBSCRIBE (pubsub.cpp:15). *)
LEMMA SubscribeFollows ==
  ASSUME NEW db, NEW client, Agrees(db, client), NEW channels
  PROVE  Follows(handle_subscribe(db, client, channels), db, client)
<1> DEFINE named == {channels[i] : i \in DOMAIN channels}
           P     == Joined(db.subscribers, named, client.fd)
           cl    == Subscriptions(client, client.subscriptions \cup named)
<1>1. IsClient(client) /\ Paired(db.subscribers)
      /\ client.subscriptions = Listens(db.subscribers, client.fd)
  BY Zenon DEF Agrees
<1>2. /\ Paired(P) /\ Listens(P, client.fd) = Listens(db.subscribers, client.fd) \cup named
      /\ \A g : g # client.fd => Listens(P, g) = Listens(db.subscribers, g)
  <2> HIDE DEF named
  <2> QED BY <1>1, ListensChanges
<1>3. IsClient(cl) /\ cl.fd = client.fd /\ cl.subscriptions = client.subscriptions \cup named
  <2> HIDE DEF named
  <2> QED BY <1>1, ClientUpdates
<1> HIDE DEF named, P, cl
<1>4. \A out : Follows(Answer(SetSubscribers(db, P), cl, out), db, client)
  BY Zenon, <1>1, <1>2, <1>3, ChangedFollows
<1> QED BY Zenon, <1>4 DEF handle_subscribe, Joined, SetSubscribers, named, P, cl

(* UNSUBSCRIBE (pubsub.cpp:34). *)
LEMMA UnsubscribeFollows ==
  ASSUME NEW db, NEW client, Agrees(db, client), NEW channels
  PROVE  Follows(handle_unsubscribe(db, client, channels), db, client)
<1> DEFINE named == IF channels = <<>> THEN client.subscriptions
                    ELSE {channels[i] : i \in DOMAIN channels}
           P     == Parted(db.subscribers, named, client.fd)
           cl    == Subscriptions(client, client.subscriptions \ named)
<1>1. IsClient(client) /\ Paired(db.subscribers)
      /\ client.subscriptions = Listens(db.subscribers, client.fd)
  BY Zenon DEF Agrees
<1>2. /\ Paired(P) /\ Listens(P, client.fd) = Listens(db.subscribers, client.fd) \ named
      /\ \A g : g # client.fd => Listens(P, g) = Listens(db.subscribers, g)
  <2> HIDE DEF named
  <2> QED BY <1>1, ListensChanges
<1>3. IsClient(cl) /\ cl.fd = client.fd /\ cl.subscriptions = client.subscriptions \ named
  <2> HIDE DEF named
  <2> QED BY <1>1, ClientUpdates
<1> HIDE DEF named, P, cl
<1>4. \A out : Follows(Answer(SetSubscribers(db, P), cl, out), db, client)
  BY Zenon, <1>1, <1>2, <1>3, ChangedFollows
<1> QED BY Zenon, <1>4 DEF handle_unsubscribe, Parted, SetSubscribers, named, P, cl

(* QUIT and RESET (command.cpp:206). *)
LEMMA ResetFollows ==
  ASSUME NEW db, NEW client, Agrees(db, client), NEW op
  PROVE  LET r == Reset(db, client, op)
         IN  Follows(r, db, client) /\ r.client.in_multi = FALSE
<1> DEFINE P   == Gone(db.subscribers, client.fd)
           x   == Unqueued(client)
           y   == Subscriptions(x, {})
           z   == Auth(y, default_user_auto_auth(db))
           new == Closing(z, op = "QUIT")
<1>1. IsClient(client) /\ Paired(db.subscribers)
  BY Zenon DEF Agrees
<1>2. /\ Paired(P) /\ Listens(P, client.fd) = {}
      /\ \A g : g # client.fd => Listens(P, g) = Listens(db.subscribers, g)
  BY <1>1, ListensGone
<1>3. IsClient(x) /\ x.fd = client.fd /\ x.in_multi = FALSE
  BY Zenon, <1>1, UnqueuedClient
<1>4. IsClient(y) /\ y.fd = x.fd /\ y.in_multi = x.in_multi /\ y.subscriptions = {}
  <2> HIDE DEF x
  <2> QED BY <1>3, ClientUpdates
<1>5. IsClient(z) /\ z.fd = y.fd /\ z.in_multi = y.in_multi /\ z.subscriptions = y.subscriptions
  <2> HIDE DEF x, y
  <2>1. \A b : /\ IsClient(Auth(y, b)) /\ Auth(y, b).fd = y.fd
               /\ Auth(y, b).in_multi = y.in_multi /\ Auth(y, b).subscriptions = y.subscriptions
    BY Zenon, <1>4, AuthUpdate
  <2> QED BY Zenon, <2>1
<1>6. IsClient(new) /\ new.fd = z.fd /\ new.in_multi = z.in_multi /\ new.subscriptions = z.subscriptions
  <2> HIDE DEF x, y, z
  <2>1. \A b : /\ IsClient(Closing(z, b)) /\ Closing(z, b).fd = z.fd
               /\ Closing(z, b).in_multi = z.in_multi /\ Closing(z, b).subscriptions = z.subscriptions
    BY ZenonT(90), <1>5, ClientUpdates
  <2> QED BY Zenon, <2>1
<1>7. Reset(db, client, op) = Answer(SetSubscribers(db, P), new, Reply("simple", op))
  BY Zenon DEF Reset, Auth, Closing, remove_subscriber, Gone, SetSubscribers
<1> HIDE DEF P, x, y, z, new
<1>8. Follows(Answer(SetSubscribers(db, P), new, Reply("simple", op)), db, client)
  BY Zenon, <1>1, <1>2, <1>3, <1>4, <1>5, <1>6, ChangedFollows
<1>9. \A d, out : Answer(d, new, out).client = new
  BY Zenon DEF Answer, Outcome
<1> QED BY Zenon, <1>3, <1>4, <1>5, <1>6, <1>7, <1>8, <1>9

(* dispatch_command: SUBSCRIBE and UNSUBSCRIBE apart, the subscriptions    *)
(* stay as they are.                                                       *)
LEMMA DispatchFollows ==
  ASSUME NEW c, NEW db, NEW client, Agrees(db, client), NEW t, NEW wall
  PROVE  Follows(Dispatch(c, db, client, t, wall), db, client)
<1>1. IsDb(db) /\ IsClient(client)
  BY Zenon DEF Agrees
<1>2. \A d, out, q : IsDb(d) /\ d.subscribers = db.subscribers /\ d.repl_offset = db.repl_offset
                     => Follows(Outcome(d, client, out, q), db, client)
  BY Zenon, <1>1, SameFollows
<1>3. \A out : Follows(Answer(db, client, out), db, client)
  BY Zenon, <1>1, <1>2 DEF Answer
<1>4. ASSUME NEW x
      PROVE  /\ IsDb(SetPending(db, x)) /\ SetPending(db, x).subscribers = db.subscribers
             /\ SetPending(db, x).repl_offset = db.repl_offset
             /\ IsDb(SetUser(db, x)) /\ SetUser(db, x).subscribers = db.subscribers
             /\ SetUser(db, x).repl_offset = db.repl_offset
             /\ IsDb(SetData(db, x)) /\ SetData(db, x).subscribers = db.subscribers
             /\ SetData(db, x).repl_offset = db.repl_offset
  BY <1>1, DbUpdates
<1>5. \A x, out, q : /\ Follows(Outcome(SetPending(db, x), client, out, q), db, client)
                     /\ Follows(Outcome(SetUser(db, x), client, out, q), db, client)
                     /\ Follows(Outcome(SetData(db, x), client, out, q), db, client)
  BY Zenon, <1>2, <1>4
<1>6. Follows(handle_publish(db, client, c.channel, c.message), db, client)
  BY Zenon, <1>5 DEF handle_publish, SetPending, Answer
<1>7. Follows(handle_setuser(db, client, c.rules), db, client)
  BY Zenon, <1>3, <1>5 DEF handle_setuser, SetUser, Answer
<1>8. \A r : Follows(OnData(c, db, client, r), db, client)
  BY Zenon, <1>5 DEF OnData, SetData
<1>9. Follows(handle_auth(db, client, c.name, c.password), db, client)
  <2> DEFINE new == Auth(client, TRUE)
  <2>1. IsClient(new) /\ new.fd = client.fd /\ new.subscriptions = client.subscriptions
    BY Zenon, <1>1, AuthUpdate
  <2> HIDE DEF new
  <2>2. Follows(Answer(db, new, Ok), db, client)
    BY Zenon, <1>1, <2>1, SameFollows DEF Answer
  <2> QED BY Zenon, <1>3, <2>2 DEF handle_auth, new, Auth
<1> QED
  BY Zenon, <1>3, <1>6, <1>7, <1>8, <1>9, SubscribeFollows, UnsubscribeFollows DEF Dispatch

(* EXEC (command.cpp:285). *)
LEMMA ExecFollows ==
  ASSUME NEW db, NEW client, Agrees(db, client), NEW t, NEW wall
  PROVE  Follows(Exec(db, client, t, wall), db, client)
<1> DEFINE queued == client.queued
           n      == Len(queued)
           start  == Outcome(Compared(db, client.watched, t), Unqueued(client), Array(<<>>), <<>>)
           Round(b, i) == ExecuteQueued(b, queued[i], Dispatch(queued[i], b.db, b.client, t, wall))
           after  == CHOOSE f : f = [i \in 0 .. n |-> IF i = 0 THEN start ELSE Round(f[i - 1], i)]
           S      == {i \in 0 .. n : Follows(after[i], db, client)}
<1>1. IsDb(db) /\ IsClient(client) /\ n \in Nat
  BY ClientFields, SeqFacts DEF IsClient, Agrees
<1>2. Follows(start, db, client)
  <2> DEFINE new == Unqueued(client)
  <2>1. IsClient(new) /\ new.fd = client.fd /\ new.subscriptions = client.subscriptions
    BY Zenon, <1>1, UnqueuedClient
  <2> HIDE DEF new
  <2>2. \A x : /\ IsDb(SetData(db, x)) /\ SetData(db, x).subscribers = db.subscribers
               /\ SetData(db, x).repl_offset = db.repl_offset
    BY ZenonT(60), <1>1, DbUpdates
  <2>3. \A x, out : Follows(Outcome(SetData(db, x), new, out, <<>>), db, client)
    BY Zenon, <2>1, <2>2, SameFollows
  <2> QED BY Zenon, <2>3 DEF new, Compared, SetData
<1>3. ASSUME NEW b, NEW i, Follows(b, db, client) PROVE Follows(Round(b, i), db, client)
  <2> DEFINE r == Dispatch(queued[i], b.db, b.client, t, wall)
  <2>1. Follows(r, b.db, b.client)
    <3>1. Agrees(b.db, b.client)
      BY Zenon, <1>3 DEF Follows
    <3> QED BY Zenon, <3>1, DispatchFollows
  <2> HIDE DEF r
  <2>2. \A out, q : Outcome(r.db, r.client, out, q).db = r.db /\ Outcome(r.db, r.client, out, q).client = r.client
    BY Zenon DEF Outcome
  <2>3. ExecuteQueued(b, queued[i], r).db = r.db /\ ExecuteQueued(b, queued[i], r).client = r.client
    BY Zenon, <2>2 DEF ExecuteQueued
  <2>4. Follows(ExecuteQueued(b, queued[i], r), db, client)
    BY Zenon, <1>3, <2>1, <2>3 DEF Follows
  <2> QED BY Zenon, <2>4 DEF r
<1> HIDE DEF start, Round, queued
<1>4. after = [i \in 0 .. n |-> IF i = 0 THEN start ELSE Round(after[i - 1], i)]
  <2>1. \E f : f = [i \in 0 .. n |-> IF i = 0 THEN start ELSE Round(f[i - 1], i)]
    <3>1. \E f : Rounds(f, n, start, queued, t, wall)
      BY Zenon, <1>1, ExecRounds
    <3> QED BY Zenon, <3>1 DEF Round, Rounds
  <2> QED BY Zenon, <2>1
<1> HIDE DEF after
<1>5. 0 \in S
  <2>1. 0 \in 0 .. n
    BY <1>1
  <2> QED BY Zenon, <1>2, <1>4, <2>1
<1>6. ASSUME NEW i \in 0 .. n - 1, i \in S PROVE i + 1 \in S
  <2>1. i + 1 \in 0 .. n /\ i + 1 # 0 /\ (i + 1) - 1 = i
    BY <1>1
  <2>2. after[i + 1] = Round(after[i], i + 1)
    BY Zenon, <1>4, <2>1
  <2> QED BY Zenon, <1>3, <1>6, <2>1, <2>2
<1>7. n \in S
  <2>1. \A i \in 0 .. n : i \in S
    <3> HIDE DEF S, n
    <3> QED BY Zenon, <1>1, <1>5, <1>6, UpTo
  <2>2. n \in 0 .. n
    BY <1>1
  <2> QED BY Zenon, <2>1, <2>2
<1>8. Follows(Answer(start.db, start.client, NullArray), db, client)
  <2> DEFINE r == Answer(start.db, start.client, NullArray)
  <2>1. r.db = start.db /\ r.client = start.client
    BY Zenon DEF Answer, Outcome
  <2> HIDE DEF r
  <2>2. Follows(r, db, client)
    BY Zenon, <1>2, <2>1 DEF Follows
  <2> QED BY Zenon, <2>2 DEF r
<1> QED BY Zenon, <1>7, <1>8 DEF Exec, start, Round, after, queued

(* The channels of a client are those the store delivers to it, nobody     *)
(* else's change, and a client in a transaction has none.                  *)
Settled(r, db, client) ==
  /\ Follows(r, db, client)
  /\ r.client.in_multi => r.client.subscriptions = {}

(* handle_command (command.cpp:186), for every command. *)
LEMMA HandleFollows ==
  ASSUME NEW c, NEW db, NEW client, Agrees(db, client), client.in_multi => client.subscriptions = {},
         NEW t, NEW wall
  PROVE  Settled(handle_command(c, db, client, t, wall), db, client)
<1>1. IsDb(db) /\ IsClient(client)
  BY Zenon DEF Agrees
<1>2. ASSUME NEW d, IsDb(d), d.subscribers = db.subscribers, d.repl_offset = db.repl_offset,
             NEW cl, IsClient(cl), cl.fd = client.fd, cl.subscriptions = client.subscriptions,
             cl.in_multi => cl.subscriptions = {}, NEW out
      PROVE  Settled(Answer(d, cl, out), db, client)
  <2>1. Answer(d, cl, out).client = cl
    BY Zenon DEF Answer, Outcome
  <2>2. Follows(Answer(d, cl, out), db, client)
    BY Zenon, <1>2, SameFollows DEF Answer
  <2> QED BY Zenon, <1>2, <2>1, <2>2 DEF Settled
<1>3. \A out : Settled(Answer(db, client, out), db, client)
  BY Zenon, <1>1, <1>2
<1>4. Settled(Reset(db, client, c.op), db, client)
  BY Zenon, ResetFollows DEF Settled
<1>5. client.subscriptions = {} => Settled(Answer(db, [client EXCEPT !.in_multi = TRUE], Ok), db, client)
  <2> DEFINE new == Multi(client, TRUE)
  <2>1. IsClient(new) /\ new.fd = client.fd /\ new.subscriptions = client.subscriptions
    <3>1. \A b : LET cl == Multi(client, b)
                 IN  IsClient(cl) /\ cl.fd = client.fd /\ cl.subscriptions = client.subscriptions
      BY <1>1, ClientUpdates
    <3> QED BY Zenon, <3>1
  <2> HIDE DEF new
  <2>2. client.subscriptions = {} => Settled(Answer(db, new, Ok), db, client)
    BY Zenon, <1>1, <1>2, <2>1
  <2> QED BY Zenon, <2>2 DEF new, Multi
<1>6. ASSUME NEW d, IsDb(d), d.subscribers = db.subscribers, d.repl_offset = db.repl_offset, NEW x
      PROVE  Settled(Answer(d, Watching(client, x), Ok), db, client)
  <2> DEFINE new == Watching(client, x)
  <2>1. IsClient(new) /\ new.fd = client.fd /\ new.subscriptions = client.subscriptions
        /\ new.in_multi = client.in_multi
    BY ZenonT(90), <1>1, ClientUpdates
  <2> HIDE DEF new
  <2>2. Settled(Answer(d, new, Ok), db, client)
    BY Zenon, <1>2, <1>6, <2>1
  <2> QED BY Zenon, <2>2 DEF new
<1>7. Settled(Watch(db, client, c.keys, t), db, client)
  <2>1. \A x : /\ IsDb(SetData(db, x)) /\ SetData(db, x).subscribers = db.subscribers
               /\ SetData(db, x).repl_offset = db.repl_offset
    BY <1>1, DbUpdates
  <2>2. \A x, y : Settled(Answer(SetData(db, x), Watching(client, y), Ok), db, client)
    BY Zenon, <1>6, <2>1
  <2> QED BY Zenon, <2>2 DEF Watch, SetData, Watching
<1>8. Settled(Answer(db, [client EXCEPT !.watched = <<>>], Ok), db, client)
  BY Zenon, <1>1, <1>6 DEF Watching
<1>9. Settled(Answer(db, Unqueued(client), Ok), db, client)
  <2> DEFINE new == Unqueued(client)
  <2>1. IsClient(new) /\ new.fd = client.fd /\ new.in_multi = FALSE
        /\ new.subscriptions = client.subscriptions
    BY Zenon, <1>1, UnqueuedClient
  <2> HIDE DEF new
  <2>2. Settled(Answer(db, new, Ok), db, client)
    BY Zenon, <1>1, <1>2, <2>1
  <2> QED BY Zenon, <2>2 DEF new
<1>10. Settled(Exec(db, client, t, wall), db, client)
  <2>1. Released(Exec(db, client, t, wall), client)
    BY Zenon, <1>1, ExecReleases
  <2> QED BY Zenon, <2>1, ExecFollows DEF Released, Settled
<1>11. Settled(Answer(db, [client EXCEPT !.queued = Append(@, c)], Reply("simple", "QUEUED")), db, client)
  <2> DEFINE q   == Append(client.queued, c)
             new == Queue(client, q)
  <2>1. IsSeq(q)
    BY <1>1, ClientFields, SeqFacts DEF IsClient
  <2> HIDE DEF q
  <2>2. IsClient(new) /\ new.fd = client.fd /\ new.subscriptions = client.subscriptions
        /\ new.in_multi = client.in_multi
    BY ZenonT(90), <1>1, <2>1, ClientUpdates
  <2> HIDE DEF new
  <2>3. Settled(Answer(db, new, Reply("simple", "QUEUED")), db, client)
    BY Zenon, <1>1, <1>2, <2>2
  <2> QED BY Zenon, <2>3 DEF Queue, q, new
<1>12. ~client.in_multi => Settled(Dispatch(c, db, client, t, wall), db, client)
  <2>1. Keeps(Dispatch(c, db, client, t, wall), client)
    BY Zenon, <1>1, DispatchKeeps
  <2>2. Follows(Dispatch(c, db, client, t, wall), db, client)
    BY Zenon, DispatchFollows
  <2> QED BY Zenon, <2>1, <2>2 DEF Keeps, Settled
<1>13. "MULTI" \notin AllowedWhenSubscribed
  BY Zenon DEF AllowedWhenSubscribed
<1> QED
  BY Zenon, <1>3, <1>4, <1>5, <1>7, <1>8, <1>9, <1>10, <1>11, <1>12, <1>13 DEF handle_command

-------------------------------------------------------------------------------
(* The commands that block.                                                *)

DataOps ==
  {"SET", "GET", "STRLEN", "INCR", "TYPE", "LLEN", "LPOP", "ZCARD", "SETBIT", "GETBIT",
   "BITCOUNT", "BITOP", "RPUSH", "LPUSH", "LPOPCOUNT", "LRANGE", "BLPOP", "XADD", "XRANGE",
   "XREAD", "ZADD", "GEOADD", "ZREM", "ZSCORE", "ZRANK", "ZRANGE", "KEYS"}

SessionOps ==
  {"QUIT", "RESET", "MULTI", "EXEC", "DISCARD", "UNWATCH", "PING", "REPLCONF", "PSYNC",
   "WATCH", "SUBSCRIBE", "UNSUBSCRIBE", "PUBLISH", "SETUSER", "AUTH", "WAIT", "ACK"}

(* The names of the commands. *)
LEMMA RequestOps ==
  /\ \A c \in AllRequests : c.op \in DataOps
  /\ \A c \in SessionRequests : c.op \in SessionOps
<1>1. \A c \in SetRequests \cup KeyRequests \cup BitRequests : c.op \in DataOps
  BY Zenon DEF SetRequests, KeyRequests, BitRequests, DataOps
<1>2. \A c \in ListRequests \cup StreamRequests : c.op \in DataOps
  BY Zenon DEF ListRequests, StreamRequests, DataOps
<1>3. \A c \in SortedSetRequests \cup [op : {"KEYS"}, pattern : SUBSET Keys] : c.op \in DataOps
  BY Zenon DEF SortedSetRequests, DataOps
<1>4. \A c \in SessionRequests : c.op \in SessionOps
  BY Zenon DEF SessionRequests, SessionOps
<1> QED BY Zenon, <1>1, <1>2, <1>3, <1>4 DEF AllRequests

(* The arguments of those that may block. *)
LEMMA BlockingRequests ==
  ASSUME NEW c \in AllRequests \cup SessionRequests
  PROVE  /\ c.op = "BLPOP" => IsSeq(c.keys) /\ c.timeout \in Int
         /\ c.op = "XREAD" => c.timeout \in Int
         /\ c.op = "WAIT"  => c.numreplicas \in Int /\ c.timeout \in Int
<1>1. ASSUME c.op = "BLPOP" PROVE c.keys \in Seq(Keys) /\ c.timeout \in Int
  <2>1. c \in [op : {"BLPOP"}, keys : Seq(Keys) \ {<<>>}, timeout : Nat]
    BY Zenon, <1>1 DEF AllRequests, SessionRequests, SetRequests, KeyRequests, BitRequests, ListRequests,
                StreamRequests, SortedSetRequests
  <2> QED BY <2>1
<1>2. ASSUME c.op = "XREAD" PROVE c.timeout \in Int
  <2>1. c \in StreamRequests
    BY Zenon, <1>2 DEF AllRequests, SessionRequests, SetRequests, KeyRequests, BitRequests, ListRequests,
                SortedSetRequests
  <2> QED BY <1>2, <2>1 DEF StreamRequests
<1>3. ASSUME c.op = "WAIT" PROVE c.numreplicas \in Int /\ c.timeout \in Int
  <2>1. c \in SessionRequests
    BY Zenon, <1>3, RequestOps DEF DataOps
  <2> QED BY Zenon, <1>3, <2>1 DEF SessionRequests
<1> QED BY Zenon, <1>1, <1>2, <1>3 DEF IsSeq

(* A reply, and none of them is that of a command that blocks. *)
Prompt(r) == r.out.kind # "blocked"

(* Replies of the handlers. *)
LEMMA PromptReplies ==
  /\ \A s, x : /\ Prompt(Result(s, Integer(x))) /\ Prompt(Result(s, Bulk(x)))
               /\ Prompt(Result(s, Array(x))) /\ Prompt(Result(s, Error(x)))
               /\ Prompt(Result(s, Reply("simple", x))) /\ Prompt(Result(s, Reply("keys", x)))
  /\ \A s : /\ Prompt(Result(s, Ok)) /\ Prompt(Result(s, NullBulk))
            /\ Prompt(Result(s, NullArray)) /\ Prompt(Result(s, WrongType))
BY Zenon DEF Prompt, Result, Integer, Bulk, Array, Error, Ok, NullBulk, NullArray, WrongType, Reply

(* Only BLPOP and XREAD block (store/). *)
LEMMA HandlersArePrompt ==
  ASSUME NEW c, c.op \in DataOps, c.op \notin {"BLPOP", "XREAD"}, NEW s, NEW t, NEW wall
  PROVE  Prompt(dispatch_command(c, s, t, wall))
<1>1. \A x : /\ Prompt(handle_set(x, t, c.key, c.value, c.option))
             /\ Prompt(handle_get(x, t, c.key)) /\ Prompt(handle_strlen(x, t, c.key))
             /\ Prompt(handle_incr(x, c.key))
  BY Zenon, PromptReplies DEF handle_set, handle_get, peek, handle_strlen, handle_incr
<1>2. \A x : /\ Prompt(handle_setbit(x, t, c.key, c.offset, c.bit))
             /\ Prompt(handle_getbit(x, t, c.key, c.offset))
             /\ Prompt(handle_bitcount(x, t, c.key, c.start, c.end, c.unit))
             /\ Prompt(handle_bitop(x, t, c.operation, c.dest, c.sources))
  BY ZenonT(60), PromptReplies DEF handle_setbit, handle_getbit, handle_bitcount, handle_bitop
<1>3. \A x : /\ Prompt(handle_rpush(x, c.key, c.elements)) /\ Prompt(handle_lpush(x, c.key, c.elements))
             /\ Prompt(handle_llen(x, c.key)) /\ Prompt(handle_lrange(x, c.key, c.start, c.stop))
             /\ Prompt(handle_lpop(x, c.key)) /\ Prompt(handle_lpop_count(x, c.key, c.count))
  BY ZenonT(60), PromptReplies
     DEF handle_rpush, handle_lpush, handle_llen, handle_lrange, handle_lpop, handle_lpop_count
<1>4. \A x : /\ Prompt(handle_type(x, t, c.key)) /\ Prompt(handle_keys(x, t, c.pattern))
             /\ Prompt(handle_xadd(x, c.key, c.id, wall))
             /\ Prompt(handle_xrange(x, c.key, c.from, c.to, c.count))
  BY Zenon, PromptReplies DEF handle_type, handle_keys, handle_xadd, handle_xrange
<1>5. \A x : /\ Prompt(handle_zadd(x, t, c.key, c.entries))
             /\ Prompt(handle_geoadd(x, t, c.key, c.entries, c.nx, c.xx, c.ch))
             /\ Prompt(handle_zrem(x, t, c.key, c.members)) /\ Prompt(handle_zcard(x, t, c.key))
             /\ Prompt(handle_zscore(x, t, c.key, c.member)) /\ Prompt(handle_zrank(x, t, c.key, c.member))
             /\ Prompt(handle_zrange(x, t, c.key, c.start, c.stop))
  BY Zenon, PromptReplies
     DEF handle_zadd, handle_geoadd, handle_zrem, handle_zcard, handle_zscore, handle_zrank, handle_zrange
<1>6. \A x : Prompt(Handle(c, x, t, wall))
  BY <1>1, <1>2, <1>3, <1>4, <1>5 DEF Handle, DataOps
<1> QED BY Zenon, <1>6, PromptReplies DEF dispatch_command

(* EXEC answers an array, or nothing. *)
LEMMA ExecIsPrompt ==
  ASSUME NEW db, NEW client, IsClient(client), NEW t, NEW wall
  PROVE  Prompt(Exec(db, client, t, wall))
<1> DEFINE queued == client.queued
           n      == Len(queued)
           start  == Outcome(Compared(db, client.watched, t), Unqueued(client), Array(<<>>), <<>>)
           Round(b, i) == ExecuteQueued(b, queued[i], Dispatch(queued[i], b.db, b.client, t, wall))
           after  == CHOOSE f : f = [i \in 0 .. n |-> IF i = 0 THEN start ELSE Round(f[i - 1], i)]
<1>1. n \in Nat
  BY ClientFields, SeqFacts DEF IsClient
<1>2. Prompt(start) /\ \A d, cl : Prompt(Answer(d, cl, NullArray))
  BY Zenon DEF Prompt, Answer, Outcome, Array, NullArray, Reply
<1>3. \A b, i : Prompt(Round(b, i))
  <2>1. \A d, cl, x, q : Prompt(Outcome(d, cl, Array(x), q))
    BY Zenon DEF Prompt, Outcome, Array, Reply
  <2> QED BY ZenonT(60), <2>1 DEF ExecuteQueued
<1> HIDE DEF start, Round, queued
<1>4. after = [i \in 0 .. n |-> IF i = 0 THEN start ELSE Round(after[i - 1], i)]
  <2>1. \E f : f = [i \in 0 .. n |-> IF i = 0 THEN start ELSE Round(f[i - 1], i)]
    <3>1. \E f : Rounds(f, n, start, queued, t, wall)
      BY Zenon, <1>1, ExecRounds
    <3> QED BY Zenon, <3>1 DEF Round, Rounds
  <2> QED BY Zenon, <2>1
<1> HIDE DEF after
<1>5. Prompt(after[n])
  <2>1. n \in 0 .. n
    BY <1>1
  <2> QED BY Zenon, <1>2, <1>3, <1>4, <2>1
<1> QED BY Zenon, <1>2, <1>5 DEF Exec, start, Round, after, queued

(* Besides them, WAIT.  EXEC never blocks (command.cpp:312). *)
LEMMA HandleBlocks ==
  ASSUME NEW c \in AllRequests \cup SessionRequests, c.op # "ACK",
         NEW db, NEW client, IsClient(client), NEW t, NEW wall,
         handle_command(c, db, client, t, wall).out.kind = "blocked"
  PROVE  c.op \in {"BLPOP", "XREAD", "WAIT"}
<1> SUFFICES ASSUME c.op \notin {"BLPOP", "XREAD", "WAIT"}
             PROVE  Prompt(handle_command(c, db, client, t, wall))
  BY Zenon DEF Prompt
<1>1. /\ \A d, cl, x : /\ Prompt(Answer(d, cl, Error(x))) /\ Prompt(Answer(d, cl, Integer(x)))
                       /\ Prompt(Answer(d, cl, Array(x))) /\ Prompt(Answer(d, cl, Reply("simple", x)))
                       /\ Prompt(Answer(d, cl, Reply("subscribe", x)))
                       /\ Prompt(Answer(d, cl, Reply("unsubscribe", x)))
                       /\ Prompt(Answer(d, cl, Reply("fullresync", x)))
      /\ \A d, cl : Prompt(Answer(d, cl, Ok)) /\ Prompt(Answer(d, cl, NullArray))
  BY Zenon DEF Prompt, Answer, Outcome, Error, Integer, Array, Ok, NullArray, Reply
<1>2. \A d, cl : Prompt(OnData(c, d, cl, dispatch_command(c, d.data, t, wall))) \/ c.op \notin DataOps
  <2>1. \A d, cl, r : OnData(c, d, cl, r).out = r.out
    BY Zenon DEF OnData, Outcome
  <2>2. c.op \in DataOps => \A s : Prompt(dispatch_command(c, s, t, wall))
    BY Zenon, HandlersArePrompt
  <2>3. ASSUME NEW d, NEW cl, NEW r, Prompt(r) PROVE Prompt(OnData(c, d, cl, r))
    BY <2>1, <2>3 DEF Prompt
  <2> QED BY Zenon, <2>2, <2>3
<1>3. c.op \in DataOps \cup SessionOps
  BY Zenon, RequestOps
<1>4. /\ Prompt(handle_subscribe(db, client, c.channels))
      /\ Prompt(handle_unsubscribe(db, client, c.channels))
      /\ Prompt(handle_publish(db, client, c.channel, c.message))
      /\ Prompt(handle_setuser(db, client, c.rules))
      /\ Prompt(handle_auth(db, client, c.name, c.password))
      /\ Prompt(Reset(db, client, c.op)) /\ Prompt(Watch(db, client, c.keys, t))
  BY Zenon, <1>1
     DEF handle_subscribe, handle_unsubscribe, handle_publish, handle_setuser, handle_auth, Reset, Watch
<1>5. Prompt(Exec(db, client, t, wall))
  BY Zenon, ExecIsPrompt
<1>6. c.op \in DataOps => Prompt(Dispatch(c, db, client, t, wall))
  <2>1. c.op \in DataOps => Dispatch(c, db, client, t, wall) = OnData(c, db, client, dispatch_command(c, db.data, t, wall))
    BY Zenon DEF Dispatch, DataOps
  <2> QED BY Zenon, <1>2, <2>1
<1>7. c.op \in SessionOps \ {"QUIT", "RESET", "MULTI", "WATCH", "UNWATCH", "DISCARD", "EXEC"} =>
        Prompt(Dispatch(c, db, client, t, wall))
  <2>1. CASE c.op = "SUBSCRIBE"
    BY Zenon, <1>4, <2>1 DEF Dispatch
  <2>2. CASE c.op = "UNSUBSCRIBE"
    BY Zenon, <1>4, <2>2 DEF Dispatch
  <2>3. CASE c.op = "PUBLISH"
    BY Zenon, <1>4, <2>3 DEF Dispatch
  <2>4. CASE c.op = "SETUSER"
    BY Zenon, <1>4, <2>4 DEF Dispatch
  <2>5. CASE c.op = "AUTH"
    BY Zenon, <1>4, <2>5 DEF Dispatch
  <2>6. CASE c.op \in {"PING", "REPLCONF", "PSYNC"}
    BY Zenon, <1>1, <2>6 DEF Dispatch
  <2> QED BY Zenon, <2>1, <2>2, <2>3, <2>4, <2>5, <2>6 DEF SessionOps
<1>8. CASE c.op \in {"QUIT", "RESET", "MULTI", "WATCH", "UNWATCH", "DISCARD", "EXEC"}
  BY Zenon, <1>1, <1>4, <1>5, <1>8 DEF handle_command
<1>9. CASE c.op \notin {"QUIT", "RESET", "MULTI", "WATCH", "UNWATCH", "DISCARD", "EXEC"}
  <2>1. Prompt(Dispatch(c, db, client, t, wall))
    BY Zenon, <1>3, <1>6, <1>7, <1>9
  <2> QED BY Zenon, <1>1, <1>9, <2>1 DEF handle_command
<1> QED BY Zenon, <1>8, <1>9

===============================================================================
