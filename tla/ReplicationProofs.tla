-------------------------- MODULE ReplicationProofs ---------------------------
(***************************************************************************)
(* Theorems about Replication, for any number of replicas, clients, links  *)
(* and faults: what a replica executes, what it acknowledges, and that     *)
(* replication implements ReplicatedLog.                                   *)
(*                                                                         *)
(* The inductive invariant IInv says of each link what is under way on it. *)
(* To the primary: one request of the handshake, or acknowledgements.  To  *)
(* the replica: one reply of the handshake; or, once it has registered,    *)
(* what is left of the reply to PSYNC and then the next commands of the    *)
(* stream, one after the other, up to the first item that is no command -  *)
(* all of them, as long as the primary keeps the replica and the link      *)
(* stands.                                                                 *)
(***************************************************************************)
EXTENDS Replication, TLAPS

Kinds     == {"PING", "REPLCONF", "PSYNC", "ACK", "line", "error", "fullresync", "rdb", "write", "getack"}
Items     == [kind : Kinds, n : Nat]
Handshake == {"ping", "port", "capa", "psync"}
Early     == {"ping", "port", "capa"}
Phases    == Handshake \cup {"down", "rdb", "loop"}
Servers   == [phase : Phases, link : Nat, offset : Nat]
Waiters   == [client : Clients, count : Nat, target : Nat, timed : BOOLEAN, at : Nat]

Types ==
  /\ stream \in Seq({"write", "getack"})
  /\ "links" \in DOMAIN budget /\ budget.links \in 0 .. MaxLinks
  /\ links \in 0 .. budget.links
  /\ pending \subseteq 1 .. links /\ ended \subseteq 1 .. links
  /\ down \in [Links -> Seq(Items)] /\ up \in [Links -> Seq(Items)]
  /\ rep \in [Replicas -> Servers]
  /\ \A r \in Replicas : rep[r].link <= links
  /\ DOMAIN clients \subseteq 1 .. links /\ DOMAIN replicas \subseteq DOMAIN clients
  /\ offsets \in [Clients -> 0 .. Len(stream)]
  /\ waiters \subseteq Waiters
  /\ \A w \in waiters : w.target \in 0 .. w.at /\ w.at \in 1 .. Len(stream)

(* The sessions: how far each link has come. *)
Sessions ==
  /\ DOMAIN have = DOMAIN joined /\ DOMAIN applied = DOMAIN joined
  /\ DOMAIN joined \subseteq 1 .. links
  /\ \A c \in DOMAIN joined :
       /\ joined[c] \in Nat /\ have[c] \in Nat /\ applied[c] \in Seq(Nat)
       /\ joined[c] <= have[c] /\ have[c] <= Len(stream)

(* What is under way to the primary. *)
Asked == {"PING", "REPLCONF", "PSYNC"}
UpOK(c) ==
  /\ c \notin DOMAIN joined => Len(up[c]) <= 1 /\ \A i \in DOMAIN up[c] : up[c][i].kind \in Asked
  /\ c \in DOMAIN joined =>
       \A i \in DOMAIN up[c] : up[c][i].kind = "ACK" /\ up[c][i].n \in Acked(c)
  /\ c > links => up[c] = <<>> /\ down[c] = <<>>

(* What the primary remembers of a replica. *)
ReplicaOK(c) ==
  c \in DOMAIN replicas => c \in DOMAIN joined /\ replicas[c] \in {joined[c]} \cup Acked(c)

AppliedOK(c) ==
  c \in DOMAIN joined =>
    /\ {applied[c][i] : i \in DOMAIN applied[c]} = Writes(joined[c], have[c])
    /\ \A i, j \in DOMAIN applied[c] : i < j => applied[c][i] < applied[c][j]

IsCommand(item) == item.kind \in {"write", "getack"}

(* What is under way to the replica after the first l items. *)
DownOK(c, l) ==
  /\ \A i \in l + 1 .. Len(down[c]) :
       (\A j \in l + 1 .. i : IsCommand(down[c][j])) =>
          /\ have[c] + i - l <= Len(stream)
          /\ down[c][i].n = have[c] + i - l
          /\ down[c][i].kind = stream[have[c] + i - l]
  /\ (/\ c \in DOMAIN replicas /\ c \notin ended
      /\ \A j \in l + 1 .. Len(down[c]) : IsCommand(down[c][j]))
        => have[c] + Len(down[c]) - l = Len(stream)

(* A replica and its link. *)
Lead(phase) == IF phase = "psync" THEN 2 ELSE IF phase = "rdb" THEN 1 ELSE 0

LinkOK(r, c) ==
  /\ \A s \in Replicas : rep[s].link = c => s = r
  /\ rep[r].phase \in Early =>
       /\ c \notin DOMAIN joined
       /\ \A i \in DOMAIN up[c] : up[c][i].kind # "PSYNC"
  /\ rep[r].phase \in Handshake /\ c \notin DOMAIN joined => Len(up[c]) + Len(down[c]) <= 1
  /\ rep[r].phase = "rdb" /\ c \notin DOMAIN joined => up[c] = <<>> /\ down[c] = <<>>
  /\ rep[r].phase = "loop" => c \in DOMAIN joined
  /\ c \in DOMAIN joined =>
       /\ DownOK(c, Lead(rep[r].phase))
       /\ rep[r].phase \in {"psync", "rdb"} => up[c] = <<>>
       /\ rep[r].phase \in {"rdb", "loop"} => rep[r].offset = have[c]
       /\ rep[r].phase = "psync" /\ down[c] # <<>> => down[c][1].n = have[c]

ServerOK(r) ==
  /\ rep[r].phase = "down" => rep[r].link = 0
  /\ rep[r].phase \in Handshake \cup {"rdb"} => rep[r].link # 0
  /\ rep[r].link # 0 => LinkOK(r, rep[r].link)

(* A link whose replica has given it up. *)
AloneOK(c) ==
  c <= links /\ (\A r \in Replicas : rep[r].link # c) => c \in ended /\ down[c] = <<>>

IInv ==
  /\ Types /\ Sessions
  /\ \A c \in Links : UpOK(c) /\ ReplicaOK(c) /\ AppliedOK(c) /\ AloneOK(c)
  /\ \A r \in Replicas : ServerOK(r)

-------------------------------------------------------------------------------
(* Steps that only take away. *)

(* The first state: no link, no session and nothing under way. *)
LEMMA InitInv == Init => IInv
<1> SUFFICES ASSUME Init PROVE IInv
  BY Zenon
<1>1. Types
  BY ReplicationAssumption DEF Init, Types, Budgets, Off, Servers, Phases, Handshake, Items
<1>2. Sessions
  BY Zenon DEF Init, Sessions
<1>3. ASSUME NEW c \in Links PROVE UpOK(c) /\ ReplicaOK(c) /\ AppliedOK(c) /\ AloneOK(c)
  BY <1>3 DEF Init, UpOK, ReplicaOK, AppliedOK, AloneOK, Links
<1>4. ASSUME NEW r \in Replicas PROVE ServerOK(r)
  BY Zenon, <1>4 DEF Init, ServerOK, Off, Handshake
<1> QED
  BY Zenon, <1>1, <1>2, <1>3, <1>4 DEF IInv

(* The links of replicas are links. *)
LEMMA LinkRange ==
  ASSUME Types, NEW r \in Replicas
  PROVE  rep[r].link \in Nat /\ (rep[r].link # 0 => rep[r].link \in Links)
<1>1. rep[r].link \in Nat /\ rep[r].link <= links
  BY Zenon DEF Types, Servers
<1>2. links \in Nat /\ links <= MaxLinks
  BY ReplicationAssumption DEF Types
<1> QED
  BY <1>1, <1>2, ReplicationAssumption DEF Links

(* A replica that has given up its link, which is empty and ended then. *)
Released(r) ==
  /\ rep'[r].link = 0 /\ rep'[r].phase \in {"down", "loop"}
  /\ rep[r].link # 0 => rep[r].link \in ended' /\ down'[rep[r].link] = <<>>

(* A step that takes from the queues and forgets replicas, and in which    *)
(* links end and replicas give up theirs, preserves the invariant.         *)
LEMMA Shrinking ==
  ASSUME IInv, Types',
         UNCHANGED <<stream, links, have, joined, applied>>,
         DOMAIN replicas' \subseteq DOMAIN replicas,
         \A c \in DOMAIN replicas' : replicas'[c] = replicas[c],
         ended \subseteq ended',
         \A c \in Links :
           /\ Len(up'[c]) <= Len(up[c]) /\ \A i \in 1 .. Len(up'[c]) : up'[c][i] = up[c][i]
           /\ Len(down'[c]) <= Len(down[c]) /\ \A i \in 1 .. Len(down'[c]) : down'[c][i] = down[c][i]
           /\ down'[c] = down[c] \/ c \in ended',
         \A r \in Replicas : rep'[r] = rep[r] \/ Released(r)
  PROVE  IInv'
<1> USE DEF IInv
<1>1. Sessions'
  BY Zenon DEF Sessions, Types
<1>2. \A c \in Links : up[c] \in Seq(Items) /\ up'[c] \in Seq(Items)
                      /\ down[c] \in Seq(Items) /\ down'[c] \in Seq(Items)
  BY Zenon DEF Types
<1>3. ASSUME NEW c \in Links PROVE UpOK(c)' /\ ReplicaOK(c)' /\ AppliedOK(c)' /\ AloneOK(c)'
  <2>1. UpOK(c)'
    <3>1. Acked(c)' = Acked(c)
      BY Zenon DEF Acked
    <3>2. UpOK(c)
      BY Zenon
    <3>3. DOMAIN up[c] = 1 .. Len(up[c]) /\ DOMAIN up'[c] = 1 .. Len(up'[c])
      BY <1>2
    <3>4. Len(up[c]) \in Nat /\ Len(up'[c]) \in Nat /\ Len(down[c]) \in Nat /\ Len(down'[c]) \in Nat
      BY <1>2
    <3>5. up[c] = <<>> => up'[c] = <<>>
      BY <1>2
    <3>6. down[c] = <<>> => down'[c] = <<>>
      BY <1>2
    <3> QED
      BY SMTT(30), <3>1, <3>2, <3>3, <3>4, <3>5, <3>6 DEF UpOK
  <2>2. ReplicaOK(c)'
    BY Zenon DEF ReplicaOK, Acked
  <2>3. AppliedOK(c)'
    BY DEF AppliedOK, Writes
  <2>4. AloneOK(c)'
    <3>1. down[c] = <<>> => down'[c] = <<>>
      BY <1>2
    <3>2. CASE \A r \in Replicas : rep[r].link # c
      BY Zenon, <3>1, <3>2 DEF AloneOK
    <3>3. CASE \E r \in Replicas : rep[r].link = c
      BY <3>3 DEF AloneOK, Released, Links
    <3> QED
      BY Zenon, <3>2, <3>3
  <2> QED
    BY Zenon, <2>1, <2>2, <2>3, <2>4
<1>4. ASSUME NEW r \in Replicas PROVE ServerOK(r)'
  <2>1. CASE Released(r)
    BY Zenon, <2>1 DEF ServerOK, Released, Handshake
  <2>2. CASE rep'[r] = rep[r] /\ rep[r].link = 0
    BY Zenon, <2>2 DEF ServerOK
  <2>3. CASE rep'[r] = rep[r] /\ rep[r].link # 0
    <3>1. PICK c \in Links : c = rep[r].link /\ LinkOK(r, c)
      BY Zenon, <2>3, LinkRange DEF ServerOK
    <3>2. \A s \in Replicas : rep'[s].link = c => rep[s].link = c
      BY Zenon, <2>3, <3>1 DEF Released, Links
    <3>3. DOMAIN up[c] = 1 .. Len(up[c]) /\ DOMAIN up'[c] = 1 .. Len(up'[c])
          /\ Len(up[c]) \in Nat /\ Len(up'[c]) \in Nat /\ Len(down[c]) \in Nat /\ Len(down'[c]) \in Nat
      BY <1>2, <3>1
    <3>4. (up[c] = <<>> => up'[c] = <<>>) /\ (down[c] = <<>> => down'[c] = <<>>)
      BY <1>2, <3>1
    <3>5. \A l \in Nat : DownOK(c, l) => DownOK(c, l)'
      <4> SUFFICES ASSUME NEW l \in Nat, DownOK(c, l) PROVE DownOK(c, l)'
        BY Zenon
      <4>1. \A i \in l + 1 .. Len(down'[c]) : i \in l + 1 .. Len(down[c]) /\ i \in 1 .. Len(down'[c])
        BY SMTT(30), <3>1, <3>3
      <4>2. \A i \in l + 1 .. Len(down'[c]) : \A j \in l + 1 .. i :
              j \in 1 .. Len(down'[c]) /\ down'[c][j] = down[c][j]
        BY SMTT(60), <3>1, <3>3
      <4>3. \A i \in l + 1 .. Len(down'[c]) : i \in l + 1 .. i
        BY <3>3
      <4>4. ASSUME NEW i \in l + 1 .. Len(down'[c]), \A j \in l + 1 .. i : IsCommand(down'[c][j])
            PROVE  /\ have'[c] + i - l <= Len(stream') /\ down'[c][i].n = have'[c] + i - l
                   /\ down'[c][i].kind = stream'[have'[c] + i - l]
        <5>1. \A j \in l + 1 .. i : IsCommand(down[c][j])
          BY Zenon, <4>2, <4>4
        <5> QED
          BY Zenon, <5>1, <4>1, <4>2, <4>3, <4>4 DEF DownOK
      <4>5. c \in DOMAIN replicas' /\ c \notin ended' => c \in DOMAIN replicas /\ c \notin ended /\ down'[c] = down[c]
        BY Zenon, <3>1
      <4>6. c \in DOMAIN replicas' /\ c \notin ended' /\ (\A j \in l + 1 .. Len(down'[c]) : IsCommand(down'[c][j]))
              => have'[c] + Len(down'[c]) - l = Len(stream')
        BY Zenon, <4>5 DEF DownOK
      <4> QED
        BY Zenon, <4>4, <4>6 DEF DownOK, IsCommand
    <3>6. Lead(rep[r].phase) \in Nat
      BY Zenon DEF Lead
    <3>7. down'[c] # <<>> => down'[c][1] = down[c][1]
      <4>1. down'[c] # <<>> => 1 \in 1 .. Len(down'[c])
        BY SMTT(30), <1>2, <3>1
      <4> QED
        BY Zenon, <4>1, <3>1
    <3>8. LinkOK(r, c)'
      <4>1. joined' = joined /\ have' = have /\ rep'[r] = rep[r]
        BY Zenon, <2>3
      <4>2. \A i \in DOMAIN up'[c] : i \in DOMAIN up[c] /\ up'[c][i] = up[c][i]
        BY SMTT(30), <3>1, <3>3
      <4>3. Len(up'[c]) <= Len(up[c]) /\ Len(down'[c]) <= Len(down[c])
        BY Zenon, <3>1
      <4>4. \A s \in Replicas : rep'[s].link = c => s = r
        BY Zenon, <3>1, <3>2 DEF LinkOK
      <4>5. c \in DOMAIN joined => DownOK(c, Lead(rep[r].phase))'
        BY Zenon, <3>1, <3>5, <3>6, <4>1 DEF LinkOK, Lead
      <4>6. rep[r].phase \in Handshake /\ c \notin DOMAIN joined => Len(up'[c]) + Len(down'[c]) <= 1
        <5>1. rep[r].phase \in Handshake /\ c \notin DOMAIN joined => Len(up[c]) + Len(down[c]) <= 1
          BY <3>1, Zenon DEF LinkOK
        <5>2. \A i, j, m, n \in Nat : m + n <= 1 /\ i <= m /\ j <= n => i + j <= 1
          BY SMTT(30)
        <5> QED
          BY <3>3, <4>3, <5>1, <5>2, Zenon
      <4>7. down'[c] # <<>> => down[c] # <<>>
        BY Zenon, <3>4
      <4> QED
        BY ZenonT(60), <3>1, <3>4, <3>7, <4>1, <4>2, <4>4, <4>5, <4>6, <4>7 DEF LinkOK
    <3> QED
      BY Zenon, <2>3, <3>1, <3>8 DEF ServerOK
  <2> QED
    BY Zenon, <2>1, <2>2, <2>3
<1> QED
  BY Zenon, <1>1, <1>3, <1>4

(* What a budget has for links does not change. *)
Kept == "links" \in DOMAIN budget' /\ budget'.links = budget.links

(* A step takes from the other fields only. *)
LEMMA BudgetKept ==
  ASSUME Types, Fault \/ (\E n \in Nat : Stalls(n)) \/ UNCHANGED budget
                  \/ budget' = [budget EXCEPT !.flips = @ - 1]
  PROVE  Kept
<1>1. CASE Fault
  BY Zenon, <1>1 DEF Types, Fault, Kept
<1>2. CASE \E n \in Nat : Stalls(n)
  BY Zenon, <1>2 DEF Types, Stalls, Kept
<1>3. CASE UNCHANGED budget
  BY Zenon, <1>3 DEF Types, Kept
<1>4. CASE budget' = [budget EXCEPT !.flips = @ - 1]
  BY Zenon, <1>4 DEF Types, Kept
<1> QED
  BY Zenon, <1>1, <1>2, <1>3, <1>4

(* A step that has nothing to do with the links. *)
LEMMA Quiet ==
  ASSUME IInv, Types', UNCHANGED <<stream, replicas, links, ended, down, up, rep, history>>
  PROVE  IInv'
<1>1. \A c \in Links : Len(up[c]) <= Len(up[c]) /\ Len(down[c]) <= Len(down[c])
  BY DEF IInv, Types
<1>2. UNCHANGED <<stream, links, have, joined, applied>> /\ UNCHANGED <<replicas, ended, down, up, rep>>
  BY Zenon DEF history
<1> QED
  BY Zenon, <1>1, <1>2, Shrinking

(* ACL SETUSER. *)
LEMMA FlipInv == IInv /\ Flip => IInv'
<1> SUFFICES ASSUME IInv, Flip PROVE IInv'
  BY Zenon
<1>1. Kept
  BY Zenon, BudgetKept DEF IInv, Flip
<1>2. Types'
  BY Zenon, <1>1 DEF IInv, Types, Flip, Kept, network
<1> QED
  BY Zenon, <1>2, Quiet DEF Flip, network

(* WAIT that is answered at once. *)
LEMMA WaitAnsweredInv ==
  ASSUME NEW cl \in Clients, IInv, WaitAnswered(cl)
  PROVE  IInv'
<1>1. Types'
  BY Zenon DEF IInv, Types, WaitAnswered, network
<1> QED
  BY Zenon, <1>1, Quiet DEF WaitAnswered, network

(* serve_waiters and expire_waiters. *)
LEMMA EndIterationInv ==
  ASSUME NEW expired \in SUBSET Timed, IInv, EndIteration(expired)
  PROVE  IInv'
<1>1. Types'
  BY Zenon DEF IInv, Types, EndIteration, network
<1> QED
  BY Zenon, <1>1, Quiet DEF EndIteration, network

(* A connection is accepted, or turned away. *)
LEMMA AcceptInv ==
  ASSUME NEW c \in Links, IInv, Accept(c)
  PROVE  IInv'
<1> USE DEF Accept
<1>1. c \in 1 .. links /\ pending' \subseteq pending
  BY Zenon DEF IInv, Types
<1>2. CASE clients' = Put(clients, c, ~locked) /\ UNCHANGED <<ended, up, budget>>
  <2>1. DOMAIN clients' = DOMAIN clients \cup {c}
    BY <1>2 DEF Put
  <2>2. Types'
    BY Zenon, <1>1, <1>2, <2>1 DEF IInv, Types
  <2> QED
    BY Zenon, <1>2, <2>2, Quiet
<1>3. CASE ended' = ended \cup {c} /\ up' = [up EXCEPT ![c] = <<>>] /\ UNCHANGED clients /\ Fault
  <2>1. Kept
    BY Zenon, <1>3, BudgetKept DEF IInv
  <2>2. up' \in [Links -> Seq(Items)] /\ up'[c] = <<>> /\ \A d \in Links \ {c} : up'[d] = up[d]
    BY <1>3 DEF IInv, Types
  <2>3. Types'
    BY Zenon, <1>1, <1>3, <2>1, <2>2 DEF IInv, Types, Kept
  <2>4. \A d \in Links : Len(up[d]) \in Nat /\ Len(down[d]) <= Len(down[d])
    BY DEF IInv, Types
  <2>5. \A d \in Links : Len(up'[d]) <= Len(up[d]) /\ \A i \in 1 .. Len(up'[d]) : up'[d][i] = up[d][i]
    BY SMTT(30), <2>2, <2>4
  <2>6. UNCHANGED <<stream, links, have, joined, applied>> /\ UNCHANGED <<replicas, down, rep>>
    BY Zenon DEF history
  <2> QED
    BY Zenon, <1>3, <2>3, <2>4, <2>5, <2>6, Shrinking
<1> QED
  BY Zenon, <1>2, <1>3

(* close_client, for whatever reason. *)
LEMMA CloseInv ==
  ASSUME NEW c \in Links, IInv, c \in DOMAIN clients, CloseClient(c), Kept,
         UNCHANGED <<stream, offsets, waiters, links, pending, rep>>
  PROVE  IInv'
<1> USE DEF CloseClient
<1>1. c \in 1 .. links
  BY Zenon DEF IInv, Types
<1>2. /\ DOMAIN clients' = DOMAIN clients \ {c} /\ DOMAIN replicas' = DOMAIN replicas \ {c}
      /\ \A d \in DOMAIN replicas' : replicas'[d] = replicas[d]
  BY Zenon DEF Without
<1>3. up' \in [Links -> Seq(Items)] /\ up'[c] = <<>> /\ \A d \in Links \ {c} : up'[d] = up[d]
  BY DEF IInv, Types
<1>4. Types'
  BY Zenon, <1>1, <1>2, <1>3 DEF IInv, Types, Kept
<1>5. \A d \in Links : Len(up[d]) \in Nat /\ Len(down[d]) <= Len(down[d])
  BY SMTT(30) DEF IInv, Types
<1>6. \A d \in Links : Len(up'[d]) <= Len(up[d]) /\ \A i \in 1 .. Len(up'[d]) : up'[d][i] = up[d][i]
  BY <1>3, <1>5
<1>7. UNCHANGED <<stream, links, have, joined, applied>> /\ UNCHANGED <<down, rep>>
  BY Zenon DEF history
<1> QED
  BY Zenon, <1>2, <1>4, <1>5, <1>6, <1>7, Shrinking

(* A break, which loses the end of both queues. *)
LEMMA BreakInv ==
  ASSUME NEW c \in Links, IInv, Break(c)
  PROVE  IInv'
<1> USE DEF Break
<1>1. c \in 1 .. links /\ Kept
  BY SMTT(60), BudgetKept DEF IInv, Types, Links
<1>2. PICK m \in 0 .. Len(down[c]) : down' = [down EXCEPT ![c] = SubSeq(@, 1, m)]
  BY Zenon
<1>3. PICK n \in 0 .. Len(up[c]) : up' = [up EXCEPT ![c] = SubSeq(@, 1, n)]
  BY Zenon
<1>4. \A s \in Seq(Items) : Len(s) \in Nat /\ \A k \in 0 .. Len(s) :
        /\ SubSeq(s, 1, k) \in Seq(Items) /\ Len(SubSeq(s, 1, k)) = k
        /\ \A i \in 1 .. k : SubSeq(s, 1, k)[i] = s[i]
  BY SMTT(30)
<1>5. \A d \in Links : up[d] \in Seq(Items) /\ down[d] \in Seq(Items)
  BY Zenon DEF IInv, Types
<1>6. /\ down'[c] = SubSeq(down[c], 1, m) /\ up'[c] = SubSeq(up[c], 1, n)
      /\ \A d \in Links \ {c} : down'[d] = down[d] /\ up'[d] = up[d]
      /\ down' \in [Links -> Seq(Items)] /\ up' \in [Links -> Seq(Items)]
  BY Zenon, <1>2, <1>3, <1>4, <1>5 DEF IInv, Types
<1>7. Types'
  BY Zenon, <1>1, <1>6 DEF IInv, Types, Kept
<1>8. \A d \in Links :
        /\ Len(up'[d]) <= Len(up[d]) /\ \A i \in 1 .. Len(up'[d]) : up'[d][i] = up[d][i]
        /\ Len(down'[d]) <= Len(down[d]) /\ \A i \in 1 .. Len(down'[d]) : down'[d][i] = down[d][i]
        /\ down'[d] = down[d] \/ d \in ended'
  <2> TAKE d \in Links
  <2>1. CASE d = c
    BY SMTT(30), <2>1, <1>4, <1>5, <1>6
  <2>2. CASE d # c
    BY <2>2, <1>4, <1>5, <1>6
  <2> QED
    BY Zenon, <2>1, <2>2
<1>9. UNCHANGED <<stream, links, have, joined, applied>> /\ UNCHANGED <<replicas, rep>>
  BY Zenon DEF history
<1> QED
  BY Zenon, <1>7, <1>8, <1>9, Shrinking

(* A replica gives up its link, to run without it or because it dies. *)
LEMMA ReleaseInv ==
  ASSUME NEW r \in Replicas, NEW c \in Links, rep[r].link = c, NEW off \in {Off, Unlinked},
         IInv, Kept,
         down' = [down EXCEPT ![c] = <<>>], ended' = ended \cup {c}, rep' = [rep EXCEPT ![r] = off],
         UNCHANGED <<stream, clients, replicas, offsets, waiters, links, pending, up, history>>
  PROVE  IInv'
<1>1. c \in 1 .. links
  BY SMTT(30) DEF IInv, Types, Links
<1>2. /\ down' \in [Links -> Seq(Items)] /\ down'[c] = <<>>
      /\ \A d \in Links \ {c} : down'[d] = down[d]
  BY DEF IInv, Types
<1>3. off \in Servers /\ off.link = 0 /\ off.phase \in {"down", "loop"}
  BY SMTT(30) DEF Off, Unlinked, Servers, Phases
<1>4. rep'[r] = off /\ rep' \in [Replicas -> Servers] /\ \A q \in Replicas \ {r} : rep'[q] = rep[q]
  BY Zenon, <1>3 DEF IInv, Types
<1>5. Types'
  <2>1. links \in Nat
    BY ReplicationAssumption DEF IInv, Types
  <2>2. \A q \in Replicas : rep'[q].link <= links
    BY SMTT(30), <2>1, <1>3, <1>4 DEF IInv, Types
  <2> QED
    BY Zenon, <1>1, <1>2, <1>4, <2>2 DEF IInv, Types, Kept
<1>6. \A d \in Links : Len(up[d]) <= Len(up[d]) /\ Len(down[d]) \in Nat
  BY DEF IInv, Types
<1>7. \A d \in Links :
        /\ Len(down'[d]) <= Len(down[d]) /\ \A i \in 1 .. Len(down'[d]) : down'[d][i] = down[d][i]
        /\ down'[d] = down[d] \/ d \in ended'
  BY <1>2, <1>6
<1>8. \A q \in Replicas : rep'[q] = rep[q] \/ Released(q)
  BY Zenon, <1>2, <1>3, <1>4 DEF Released
<1>9. UNCHANGED <<stream, links, have, joined, applied>> /\ UNCHANGED <<replicas, up>>
  BY Zenon DEF history
<1> QED
  BY Zenon, <1>5, <1>6, <1>7, <1>8, <1>9, Shrinking

(* The same of a replica that has none. *)
LEMMA AloneInv ==
  ASSUME NEW r \in Replicas, rep[r].link = 0, NEW off \in {Off, Unlinked},
         IInv, Kept, rep' = [rep EXCEPT ![r] = off],
         UNCHANGED <<stream, clients, replicas, offsets, waiters, links, pending, ended, down, up, history>>
  PROVE  IInv'
<1>1. off \in Servers /\ off.link = 0 /\ off.phase \in {"down", "loop"}
  BY DEF Off, Unlinked, Servers, Phases
<1>2. rep'[r] = off /\ rep' \in [Replicas -> Servers] /\ \A q \in Replicas \ {r} : rep'[q] = rep[q]
  BY Zenon, <1>1 DEF IInv, Types
<1>3. Types'
  <2>1. links \in Nat
    BY ReplicationAssumption DEF IInv, Types
  <2>2. \A q \in Replicas : rep'[q].link <= links
    BY Zenon, <2>1, <1>1, <1>2 DEF IInv, Types
  <2> QED
    BY Zenon, <1>2, <2>2 DEF IInv, Types, Kept
<1>4. \A d \in Links : Len(up[d]) <= Len(up[d]) /\ Len(down[d]) <= Len(down[d])
  BY DEF IInv, Types
<1>5. \A q \in Replicas : rep'[q] = rep[q] \/ Released(q)
  BY Zenon, <1>1, <1>2 DEF Released
<1>6. UNCHANGED <<stream, links, have, joined, applied>> /\ UNCHANGED <<replicas, ended, down, up>>
  BY Zenon DEF history
<1> QED
  BY Zenon, <1>3, <1>4, <1>5, <1>6, Shrinking

(* The death of a replica. *)
LEMMA DieInv ==
  ASSUME NEW r \in Replicas, IInv, Die(r)
  PROVE  IInv'
<1>1. Kept
  BY Zenon, BudgetKept DEF IInv, Die
<1>2. CASE rep[r].link = 0
  BY Zenon, <1>1, <1>2, AloneInv DEF Die
<1>3. CASE rep[r].link # 0
  <2>1. PICK c \in Links : c = rep[r].link
    BY Zenon, <1>3, LinkRange DEF IInv
  <2> QED
    BY Zenon, <1>1, <1>3, <2>1, ReleaseInv DEF Die
<1> QED
  BY Zenon, <1>2, <1>3

(* The end of a link, or a protocol error on it. *)
LEMMA LinkGoneInv ==
  ASSUME NEW r \in Replicas, IInv, LinkGone(r) \/ LinkError(r)
  PROVE  IInv'
<1>1. rep[r].link # 0
  BY SMTT(30) DEF LinkGone, LinkError, IInv, Types
<1>2. PICK c \in Links : c = rep[r].link
  BY Zenon, <1>1, LinkRange DEF IInv
<1>3. Kept
  BY Zenon, BudgetKept DEF IInv, LinkGone, LinkError
<1> QED
  BY Zenon, <1>2, <1>3, ReleaseInv DEF LinkGone, LinkError, Unlink

-------------------------------------------------------------------------------
(* Steps on one link. *)

(* A map is the same at d. *)
Same(f, g, d) == (d \in DOMAIN g <=> d \in DOMAIN f) /\ (d \in DOMAIN f => g[d] = f[d])

(* A step that is about one link, and perhaps about the replica at its     *)
(* end, preserves the invariant if it does so there.                       *)
LEMMA OneLink ==
  ASSUME NEW c \in Links, IInv, Types', Sessions', UNCHANGED <<stream, ended>>,
         \A d \in Links \ {c} :
           /\ d <= links' <=> d <= links
           /\ up'[d] = up[d] /\ down'[d] = down[d]
           /\ Same(replicas, replicas', d) /\ Same(joined, joined', d)
           /\ Same(have, have', d) /\ Same(applied, applied', d),
         \A q \in Replicas : rep'[q] = rep[q] \/ (rep'[q].link = c /\ rep[q].link \in {0, c}),
         UpOK(c)', ReplicaOK(c)', AppliedOK(c)', AloneOK(c)',
         \A q \in Replicas : rep'[q].link = c => ServerOK(q)'
  PROVE  IInv'
<1>1. ASSUME NEW d \in Links \ {c} PROVE UpOK(d)' /\ ReplicaOK(d)' /\ AppliedOK(d)' /\ AloneOK(d)'
  <2>1. UpOK(d) /\ ReplicaOK(d) /\ AppliedOK(d) /\ AloneOK(d) /\ links \in Nat /\ links' \in Nat /\ d \in Nat
    BY SMTT(60), <1>1, ReplicationAssumption DEF IInv, Types, Links
  <2>2. DOMAIN have = DOMAIN joined /\ DOMAIN applied = DOMAIN joined
    BY Zenon DEF IInv, Sessions
  <2>3. d \in DOMAIN joined => Acked(d)' = Acked(d)
    BY Zenon, <1>1, <2>2 DEF Acked, Same
  <2>4. UpOK(d)'
    BY <1>1, <2>1, <2>3 DEF UpOK, Same
  <2>5. ReplicaOK(d)'
    BY Zenon, <1>1, <2>1, <2>3 DEF ReplicaOK, Same
  <2>6. AppliedOK(d)'
    BY <1>1, <2>1, <2>2 DEF AppliedOK, Writes, Same
  <2>7. AloneOK(d)'
    <3>1. \A q \in Replicas : rep[q].link = d => rep'[q].link = d
      BY <1>1 DEF Links
    <3> QED
      BY Zenon, <1>1, <2>1, <3>1 DEF AloneOK
  <2> QED
    BY Zenon, <2>4, <2>5, <2>6, <2>7
<1>2. ASSUME NEW q \in Replicas, rep'[q].link # c PROVE ServerOK(q)'
  <2>1. rep'[q] = rep[q] /\ ServerOK(q)
    BY Zenon, <1>2 DEF IInv
  <2>2. CASE rep[q].link = 0
    BY Zenon, <2>1, <2>2 DEF ServerOK
  <2>3. CASE rep[q].link # 0
    <3>1. PICK d \in Links : d = rep[q].link /\ LinkOK(q, d)
      BY Zenon, <2>1, <2>3, LinkRange DEF IInv, ServerOK
    <3>2. d # c
      BY Zenon, <1>2, <2>1, <3>1
    <3>3. \A p \in Replicas : rep'[p].link = d => rep[p].link = d
      BY Zenon, <3>2
    <3>4. up'[d] = up[d] /\ down'[d] = down[d] /\ Same(replicas, replicas', d)
          /\ Same(joined, joined', d) /\ Same(have, have', d)
      BY Zenon, <3>2
    <3>5. DOMAIN have = DOMAIN joined
      BY Zenon DEF IInv, Sessions
    <3>6. \A l \in Nat : d \in DOMAIN joined /\ DownOK(d, l) => DownOK(d, l)'
      BY ZenonT(60), <3>4, <3>5 DEF DownOK, Same, IsCommand
    <3>7. Lead(rep[q].phase) \in Nat /\ Lead(rep[q].phase)' = Lead(rep[q].phase)
      BY Zenon, <2>1 DEF Lead
    <3>8. d \in DOMAIN joined => DownOK(d, Lead(rep[q].phase))'
      BY Zenon, <2>1, <3>1, <3>6, <3>7 DEF LinkOK, Lead
    <3>9. LinkOK(q, d)'
      <4>1. /\ d \in DOMAIN joined' <=> d \in DOMAIN joined
            /\ d \in DOMAIN joined => have'[d] = have[d]
        BY Zenon, <3>4, <3>5 DEF Same
      <4>2. \A p \in Replicas : rep'[p].link = d => p = q
        BY Zenon, <3>1, <3>3 DEF LinkOK
      <4> QED
        BY Zenon, <2>1, <3>1, <3>4, <3>8, <4>1, <4>2 DEF LinkOK
    <3> QED
      BY Zenon, <2>1, <2>3, <3>1, <3>9 DEF ServerOK
  <2> QED
    BY Zenon, <2>2, <2>3
<1> QED
  BY Zenon, <1>1, <1>2 DEF IInv

(* Items are what they are made from. *)
LEMMA ItemFacts ==
  ASSUME NEW kind \in Kinds, NEW n \in Nat
  PROVE  Item(kind, n) \in Items /\ Item(kind, n).kind = kind /\ Item(kind, n).n = n
  BY Zenon DEF Item, Items

(* connect_to_master: a new link with a PING on it, or none. *)
LEMMA StartInv ==
  ASSUME NEW r \in Replicas, IInv, Start(r)
  PROVE  IInv'
<1>1. rep[r].phase = "down" /\ rep[r].link = 0
  BY Zenon DEF Start, IInv, ServerOK
<1>2. CASE rep' = [rep EXCEPT ![r] = Unlinked] /\ UNCHANGED <<links, pending, up>> /\ Fault
  <2>1. Kept
    BY Zenon, <1>2, BudgetKept DEF IInv
  <2> QED
    BY Zenon, <1>1, <1>2, <2>1, AloneInv DEF Start
<1>3. CASE /\ links' = links + 1 /\ pending' = pending \cup {links'}
           /\ up' = [up EXCEPT ![links'] = <<Item("PING", 0)>>]
           /\ rep' = [rep EXCEPT ![r] = [phase |-> "ping", link |-> links', offset |-> 0]]
           /\ UNCHANGED budget
  <2>1. /\ links \in Nat /\ links + 1 \in Links /\ links + 1 <= budget.links
        /\ budget.links \in Nat /\ \A d \in Links : d \in Nat
    <3>1. links \in 0 .. budget.links /\ budget.links \in 0 .. MaxLinks /\ links < budget.links
      BY Zenon DEF IInv, Types, Start
    <3> QED
      BY <3>1, ReplicationAssumption DEF Links
  <2>2. PICK c \in Links : c = links + 1
    BY Zenon, <2>1
  <2>3. up[c] = <<>> /\ down[c] = <<>>
    BY <2>1, <2>2 DEF IInv, UpOK
  <2>4. c \notin DOMAIN joined /\ c \notin DOMAIN replicas
    BY <2>1, <2>2 DEF IInv, Sessions, Types
  <2>5. \A q \in Replicas : rep[q].link # c
    BY SMTT(30), <2>1, <2>2, LinkRange DEF IInv, Types
  <2>6. \A d \in Links \ {c} : up'[d] = up[d]
    BY Zenon, <1>3, <2>2 DEF IInv, Types
  <2>7. up'[c] = <<Item("PING", 0)>> /\ Item("PING", 0) \in Items /\ Item("PING", 0).kind = "PING"
    <3>1. up'[c] = <<Item("PING", 0)>>
      BY Zenon, <1>3, <2>2 DEF IInv, Types
    <3> QED
      BY <3>1, ItemFacts DEF Kinds
  <2>8. up' \in [Links -> Seq(Items)]
    BY <1>3, <2>2, <2>7 DEF IInv, Types
  <2>9. /\ rep' \in [Replicas -> Servers] /\ \A q \in Replicas \ {r} : rep'[q] = rep[q]
        /\ rep'[r].phase = "ping" /\ rep'[r].link = c
    BY Zenon, <1>3, <2>1, <2>2 DEF IInv, Types, Servers, Phases, Handshake
  <2>10. Types'
    <3>1. \A q \in Replicas : rep'[q].link <= links'
      BY SMTT(30), <1>3, <2>1, <2>2, <2>9, LinkRange DEF IInv, Types
    <3>2. 1 .. links \subseteq 1 .. links'
      BY <1>3, <2>1
    <3>3. pending' \subseteq 1 .. links' /\ links' \in 0 .. budget.links
      BY SMTT(30), <1>3, <2>1, <3>2 DEF IInv, Types
    <3> QED
      BY Zenon, <1>3, <2>8, <2>9, <3>1, <3>2, <3>3 DEF IInv, Types, Start
  <2>11. Sessions'
    <3>1. 1 .. links \subseteq 1 .. links'
      BY <1>3, <2>1
    <3> QED
      BY Zenon, <3>1 DEF IInv, Sessions, Start, history
  <2>12. UNCHANGED <<stream, ended, down, replicas, have, joined, applied>>
    BY Zenon DEF Start, history
  <2>13. \A d \in Links \ {c} : d <= links' <=> d <= links
    BY <1>3, <2>1, <2>2
  <2>14. UpOK(c)' /\ ReplicaOK(c)' /\ AppliedOK(c)' /\ AloneOK(c)'
    <3>1. ~(c > links')
      BY <1>3, <2>1, <2>2
    <3>2. Len(up'[c]) = 1 /\ \A i \in DOMAIN up'[c] : up'[c][i].kind = "PING"
      BY <2>7
    <3> QED
      BY SMTT(30), <2>4, <2>9, <2>12, <3>1, <3>2 DEF UpOK, ReplicaOK, AppliedOK, AloneOK, Asked
  <2>15. ServerOK(r)'
    <3>1. \A q \in Replicas : rep'[q].link = c => q = r
      BY Zenon, <2>5, <2>9
    <3>2. Len(up'[c]) + Len(down'[c]) <= 1 /\ \A i \in DOMAIN up'[c] : up'[c][i].kind = "PING"
      BY <2>3, <2>7, <2>12
    <3>3. LinkOK(r, c)'
      BY Zenon, <2>4, <2>9, <2>12, <3>1, <3>2 DEF LinkOK
    <3>4. rep'[r].link # 0
      BY <2>1, <2>2, <2>9
    <3> QED
      BY Zenon, <2>9, <3>3, <3>4 DEF ServerOK
  <2>16. \A q \in Replicas : rep'[q].link = c => ServerOK(q)'
    BY Zenon, <2>5, <2>9, <2>15
  <2>17. \A q \in Replicas : rep'[q] = rep[q] \/ (rep'[q].link = c /\ rep[q].link \in {0, c})
    BY Zenon, <1>1, <2>9
  <2> QED
    BY Zenon, <2>6, <2>10, <2>11, <2>12, <2>13, <2>14, <2>16, <2>17, OneLink DEF Same
<1> QED
  BY Zenon, <1>2, <1>3 DEF Start

(* Taking the first item from a queue. *)
LEMMA TailFacts ==
  ASSUME NEW s \in Seq(Items), s # <<>>
  PROVE  /\ Len(s) \in Nat /\ Len(s) >= 1 /\ Head(s) = s[1] /\ s[1] \in Items
         /\ Tail(s) \in Seq(Items) /\ Len(Tail(s)) = Len(s) - 1
         /\ \A i \in 1 .. Len(s) - 1 : Tail(s)[i] = s[i + 1]
  OBVIOUS

(* When an item before the commands is taken the rest stays in order. *)
LEMMA Shift ==
  ASSUME NEW c \in Links, NEW l \in Nat, Types, have[c] \in Nat, down[c] # <<>>, DownOK(c, l + 1),
         down'[c] = Tail(down[c]), have'[c] = have[c], UNCHANGED <<stream, ended, replicas>>
  PROVE  DownOK(c, l)'
<1>1. down[c] \in Seq(Items)
  BY Zenon DEF Types
<1>2. Len(down[c]) \in Nat /\ Len(down'[c]) = Len(down[c]) - 1
      /\ \A i \in 1 .. Len(down[c]) - 1 : down'[c][i] = down[c][i + 1]
  BY Zenon, <1>1, TailFacts
<1>3. ASSUME NEW i \in l + 1 .. Len(down'[c]), \A j \in l + 1 .. i : IsCommand(down'[c][j])
      PROVE  /\ have'[c] + i - l <= Len(stream') /\ down'[c][i].n = have'[c] + i - l
             /\ down'[c][i].kind = stream'[have'[c] + i - l]
  <2>1. i + 1 \in l + 1 + 1 .. Len(down[c]) /\ i \in Nat
    BY SMTT(30), <1>2, <1>3
  <2>2. ASSUME NEW j \in l + 1 + 1 .. i + 1 PROVE IsCommand(down[c][j])
    <3>1. j - 1 \in l + 1 .. i /\ j - 1 \in 1 .. Len(down[c]) - 1 /\ j - 1 + 1 = j
      BY SMTT(30), <1>2, <2>1, <2>2
    <3>2. down'[c][j - 1] = down[c][j]
      BY Zenon, <1>2, <3>1
    <3> QED
      BY Zenon, <1>3, <3>1, <3>2 DEF IsCommand
  <2>3. /\ have[c] + (i + 1) - (l + 1) <= Len(stream) /\ down[c][i + 1].n = have[c] + (i + 1) - (l + 1)
        /\ down[c][i + 1].kind = stream[have[c] + (i + 1) - (l + 1)]
    BY Zenon, <2>1, <2>2 DEF DownOK
  <2>4. have[c] + (i + 1) - (l + 1) = have[c] + i - l
    BY <2>1
  <2>5. down'[c][i] = down[c][i + 1]
    BY SMTT(30), <1>2, <1>3
  <2> QED
    BY Zenon, <2>3, <2>4, <2>5
<1>4. ASSUME c \in DOMAIN replicas, c \notin ended, \A j \in l + 1 .. Len(down'[c]) : IsCommand(down'[c][j])
      PROVE  have'[c] + Len(down'[c]) - l = Len(stream')
  <2>1. ASSUME NEW j \in l + 1 + 1 .. Len(down[c]) PROVE IsCommand(down[c][j])
    <3>1. j - 1 \in l + 1 .. Len(down'[c]) /\ j - 1 \in 1 .. Len(down[c]) - 1 /\ j - 1 + 1 = j
      BY SMTT(30), <1>2, <2>1
    <3>2. down'[c][j - 1] = down[c][j]
      BY Zenon, <1>2, <3>1
    <3> QED
      BY Zenon, <1>4, <3>1, <3>2 DEF IsCommand
  <2>2. have[c] + Len(down[c]) - (l + 1) = Len(stream)
    BY Zenon, <1>4, <2>1 DEF DownOK
  <2> QED
    BY SMTT(30), <1>2, <2>2
<1>5. replicas' = replicas /\ ended' = ended
  BY Zenon
<1> QED
  BY Zenon, <1>3, <1>4, <1>5 DEF DownOK, IsCommand

(* The handshake: what it waits for next, and asks for. *)
LEMMA HandshakeFacts ==
  /\ DOMAIN Following = Handshake
  /\ Following["ping"] = "port" /\ Following["port"] = "capa"
  /\ Following["capa"] = "psync" /\ Following["psync"] = "rdb"
  /\ Asks["ping"] = <<Item("REPLCONF", 0)>> /\ Asks["port"] = <<Item("REPLCONF", 0)>>
  /\ Asks["capa"] = <<Item("PSYNC", 0)>> /\ Asks["psync"] = <<>>
  BY Zenon DEF Following, Asks, Handshake

(* A reply of the handshake, that to PSYNC included. *)
LEMMA ReadLineInv ==
  ASSUME NEW r \in Replicas, IInv, ReadLine(r)
  PROVE  IInv'
<1>1. rep[r].phase \in Handshake /\ rep[r].link # 0
  BY Zenon, HandshakeFacts DEF ReadLine, IInv, ServerOK
<1>2. PICK c \in Links : c = rep[r].link /\ LinkOK(r, c)
  BY Zenon, <1>1, LinkRange DEF IInv, ServerOK
<1>3. PICK p \in Handshake : p = rep[r].phase
  BY Zenon, <1>1
<1>4. down[c] \in Seq(Items) /\ up[c] \in Seq(Items) /\ down[c] # <<>>
  BY Zenon, <1>2 DEF ReadLine, IInv, Types
<1>5. /\ Len(down[c]) \in Nat /\ Len(down[c]) >= 1 /\ Head(down[c]) = down[c][1] /\ down[c][1] \in Items
      /\ Tail(down[c]) \in Seq(Items) /\ Len(Tail(down[c])) = Len(down[c]) - 1
  BY Zenon, <1>4, TailFacts
<1>6. /\ down' \in [Links -> Seq(Items)] /\ down'[c] = Tail(down[c])
      /\ \A d \in Links \ {c} : down'[d] = down[d]
  BY Zenon, <1>2, <1>5 DEF ReadLine, IInv, Types
<1>7. Asks[p] \in Seq(Items)
  <2>1. Item("REPLCONF", 0) \in Items /\ Item("PSYNC", 0) \in Items
    BY Zenon, ItemFacts DEF Kinds
  <2>2. <<Item("REPLCONF", 0)>> \in Seq(Items) /\ <<Item("PSYNC", 0)>> \in Seq(Items) /\ <<>> \in Seq(Items)
    BY <2>1
  <2> QED
    BY Zenon, <2>2, HandshakeFacts DEF Handshake
<1>8. /\ up' \in [Links -> Seq(Items)] /\ up'[c] = (IF c \in ended THEN up[c] ELSE up[c] \o Asks[p])
      /\ \A d \in Links \ {c} : up'[d] = up[d]
  <2>1. up' = IF c \in ended THEN up ELSE [up EXCEPT ![c] = @ \o Asks[p]]
    BY Zenon, <1>2, <1>3 DEF ReadLine, Sent
  <2>2. up[c] \o Asks[p] \in Seq(Items) /\ up \in [Links -> Seq(Items)]
    BY <1>4, <1>7 DEF IInv, Types
  <2> QED
    BY Zenon, <2>1, <2>2
<1>9. /\ rep' = [rep EXCEPT ![r] = [phase |-> Following[p], link |-> c, offset |-> down[c][1].n]]
      /\ UNCHANGED <<stream, clients, replicas, offsets, waiters, budget, links, pending, ended, history>>
  BY Zenon, <1>2, <1>3, <1>5 DEF ReadLine
<1>10. /\ rep' \in [Replicas -> Servers] /\ \A q \in Replicas \ {r} : rep'[q] = rep[q]
       /\ rep'[r].phase = Following[p] /\ rep'[r].link = c /\ rep'[r].offset = down[c][1].n
  <2>1. Following[p] \in Phases /\ c \in Nat /\ down[c][1].n \in Nat
    BY SMTT(30), <1>5, HandshakeFacts DEF Handshake, Phases, Items, Links
  <2>2. rep \in [Replicas -> Servers]
    BY Zenon DEF IInv, Types
  <2> QED
    BY Zenon, <1>9, <2>1, <2>2 DEF Servers
<1>11. Types'
  <2>1. \A q \in Replicas : rep'[q].link <= links
    <3>1. \A q \in Replicas : rep[q].link <= links
      BY Zenon DEF IInv, Types
    <3> QED
      BY Zenon, <1>2, <1>10, <3>1
  <2> QED
    BY Zenon, <1>6, <1>8, <1>9, <1>10, <2>1 DEF IInv, Types
<1>12. UNCHANGED <<stream, ended, links, replicas, have, joined, applied>>
  BY Zenon, <1>9 DEF history
<1>13. Sessions'
  BY Zenon, <1>12 DEF IInv, Sessions
<1>14. UpOK(c) /\ ReplicaOK(c)' /\ AppliedOK(c)' /\ AloneOK(c)' /\ c <= links
  <2>1. UpOK(c) /\ ReplicaOK(c) /\ AppliedOK(c) /\ c <= links
    BY Zenon, <1>2 DEF IInv, Types
  <2>2. Acked(c)' = Acked(c) /\ Writes(joined[c], have[c])' = Writes(joined[c], have[c])
    BY Zenon, <1>12 DEF Acked, Writes
  <2>3. ReplicaOK(c)' /\ AppliedOK(c)'
    BY Zenon, <1>12, <2>1, <2>2 DEF ReplicaOK, AppliedOK
  <2>4. AloneOK(c)'
    BY Zenon, <1>10 DEF AloneOK
  <2> QED
    BY Zenon, <2>1, <2>3, <2>4
<1>15. \A q \in Replicas : rep'[q].link = c => q = r
  BY Zenon, <1>2, <1>10 DEF LinkOK
<1>16. rep'[r].link # 0
  BY Zenon, <1>1, <1>2, <1>10
<1>17. UpOK(c)' /\ LinkOK(r, c)'
  <2>1. CASE c \notin DOMAIN joined
    <3>1. Len(down[c]) = 1 /\ Len(up[c]) = 0
      <4>1. Len(up[c]) + Len(down[c]) <= 1
        BY <1>1, <1>2, <2>1, Zenon DEF LinkOK
      <4>2. Len(up[c]) \in Nat
        BY <1>4
      <4>3. \A m, n \in Nat : m + n <= 1 /\ n >= 1 => n = 1 /\ m = 0
        OBVIOUS
      <4> QED
        BY <1>5, <4>1, <4>2, <4>3, Zenon
    <3>2. down'[c] = <<>> /\ up[c] = <<>> /\ up[c] \o Asks[p] = Asks[p]
      <4>1. Len(Tail(down[c])) = 0
        BY <1>5, <3>1
      <4>2. \A s \in Seq(Items) : (Len(s) = 0 => s = <<>>) /\ <<>> \o s = s
        OBVIOUS
      <4> QED
        BY <1>4, <1>5, <1>6, <1>7, <3>1, <4>1, <4>2, Zenon
    <3>3. up'[c] = <<>> \/ up'[c] = Asks[p]
      BY Zenon, <3>2, <1>8
    <3>4. /\ Len(up'[c]) <= 1 /\ Len(up'[c]) + Len(down'[c]) <= 1 
          /\ \A i \in DOMAIN up'[c] : up'[c][i].kind \in {"REPLCONF", "PSYNC"}
          /\ p \in {"ping", "port", "psync"} => \A i \in DOMAIN up'[c] : up'[c][i].kind = "REPLCONF"
          /\ p = "psync" => up'[c] = <<>>
      <4>1. Item("REPLCONF", 0).kind = "REPLCONF" /\ Item("PSYNC", 0).kind = "PSYNC"
        BY ItemFacts DEF Kinds
      <4>2. Len(<<>>) = 0 /\ DOMAIN <<>> = {}
        OBVIOUS
      <4>3. \A x : Len(<<x>>) = 1 /\ DOMAIN <<x>> = {1} /\ <<x>>[1] = x
        OBVIOUS
      <4>4. CASE up'[c] = <<>>
        BY <3>2, <4>2, <4>4
      <4>5. CASE up'[c] = Asks[p] /\ p = "psync"
        BY <3>2, <4>2, <4>5, HandshakeFacts
      <4>6. CASE up'[c] = Asks[p] /\ p \in {"ping", "port"}
        <5>1. up'[c] = <<Item("REPLCONF", 0)>> /\ down'[c] = <<>>
          BY Zenon, <3>2, <4>6, HandshakeFacts
        <5>2. \A i \in DOMAIN up'[c] : up'[c][i].kind = "REPLCONF"
          BY <4>1, <4>3, <5>1
        <5> QED
          BY <4>2, <4>3, <4>6, <5>1, <5>2
      <4>7. CASE up'[c] = Asks[p] /\ p = "capa"
        BY <3>2, <4>1, <4>2, <4>3, <4>7, HandshakeFacts
      <4> QED
        BY <3>3, <4>4, <4>5, <4>6, <4>7, Zenon DEF Handshake
    <3>5. UpOK(c)'
      <4>1. ~(c > links')
        BY <1>12, <1>14, ReplicationAssumption DEF Links, IInv, Types
      <4> QED
        BY Zenon, <2>1, <3>4, <4>1, <1>12 DEF UpOK, Asked
    <3>6. LinkOK(r, c)'
      BY Zenon, <2>1, <3>2, <3>4, <1>10, <1>12, <1>15, HandshakeFacts DEF LinkOK, Handshake, Early
    <3> QED
      BY Zenon, <3>5, <3>6
  <2>2. CASE c \in DOMAIN joined
    <3>1. p = "psync" /\ up[c] = <<>> /\ DownOK(c, 2) /\ down[c][1].n = have[c]
      BY Zenon, <2>2, <1>2, <1>3, <1>4 DEF LinkOK, Handshake, Early, Lead
    <3>2. up'[c] = <<>> /\ Following[p] = "rdb"
      BY SMTT(30), <3>1, <1>8, HandshakeFacts
    <3>3. DownOK(c, 1)'
      <4>1. Types /\ have[c] \in Nat
        BY Zenon, <2>2 DEF IInv, Sessions
      <4>2. DownOK(c, 1 + 1) /\ 1 \in Nat
        BY <3>1
      <4>3. have'[c] = have[c] /\ UNCHANGED <<stream, ended, replicas>>
        BY Zenon, <1>12
      <4> QED
        BY Zenon, <4>1, <4>2, <4>3, <1>4, <1>6, Shift
    <3>4. UpOK(c)'
      BY SMTT(30), <2>2, <3>2, <1>12, <1>14 DEF UpOK, Links, IInv, Types
    <3>5. LinkOK(r, c)'
      BY Zenon, <2>2, <3>1, <3>2, <3>3, <1>10, <1>12, <1>15 DEF LinkOK, Lead, Handshake, Early
    <3> QED
      BY Zenon, <3>4, <3>5
  <2> QED
    BY Zenon, <2>1, <2>2
<1>18. ServerOK(r)'
  BY Zenon, <1>10, <1>16, <1>17, HandshakeFacts DEF ServerOK, Handshake
<1>19. \A q \in Replicas : rep'[q] = rep[q] \/ (rep'[q].link = c /\ rep[q].link \in {0, c})
  BY Zenon, <1>2, <1>10
<1> QED
  BY Zenon, <1>6, <1>8, <1>11, <1>12, <1>13, <1>14, <1>15, <1>17, <1>18, <1>19, OneLink DEF Same

(* The snapshot is read and the loop entered. *)
LEMMA ReadSnapshotInv ==
  ASSUME NEW r \in Replicas, IInv, ReadSnapshot(r)
  PROVE  IInv'
<1>1. rep[r].phase = "rdb" /\ rep[r].link # 0
  BY Zenon DEF ReadSnapshot, IInv, ServerOK
<1>2. PICK c \in Links : c = rep[r].link /\ LinkOK(r, c)
  BY Zenon, <1>1, LinkRange DEF IInv, ServerOK
<1>3. down[c] \in Seq(Items) /\ down[c] # <<>>
  BY Zenon, <1>2 DEF ReadSnapshot, IInv, Types
<1>4. Tail(down[c]) \in Seq(Items)
  BY Zenon, <1>3, TailFacts
<1>5. /\ down' \in [Links -> Seq(Items)] /\ down'[c] = Tail(down[c])
      /\ \A d \in Links \ {c} : down'[d] = down[d]
  BY Zenon, <1>2, <1>4 DEF ReadSnapshot, IInv, Types
<1>6. /\ rep' = [rep EXCEPT ![r].phase = "loop"]
      /\ UNCHANGED <<stream, clients, replicas, offsets, waiters, budget, links, pending, ended, up, history>>
  BY Zenon DEF ReadSnapshot
<1>7. /\ rep' \in [Replicas -> Servers] /\ \A q \in Replicas \ {r} : rep'[q] = rep[q]
      /\ rep'[r].phase = "loop" /\ rep'[r].link = c /\ rep'[r].offset = rep[r].offset
  <2>1. rep \in [Replicas -> Servers] /\ "loop" \in Phases
    BY Zenon DEF IInv, Types, Phases
  <2> QED
    BY Zenon, <1>2, <1>6, <2>1 DEF Servers
<1>8. Types'
  <2>1. \A q \in Replicas : rep[q].link <= links
    BY Zenon DEF IInv, Types
  <2>2. \A q \in Replicas : rep'[q].link <= links
    BY Zenon, <1>2, <1>7, <2>1
  <2> QED
    BY Zenon, <1>5, <1>6, <1>7, <2>2 DEF IInv, Types
<1>9. UNCHANGED <<stream, ended, links, replicas, up, have, joined, applied>>
  BY Zenon, <1>6 DEF history
<1>10. Sessions'
  BY Zenon, <1>9 DEF IInv, Sessions
<1>11. /\ c \in DOMAIN joined /\ DownOK(c, 1) /\ up[c] = <<>> /\ rep[r].offset = have[c]
  BY Zenon, <1>1, <1>2, <1>3 DEF LinkOK, Lead
<1>12. ~(c > links') /\ c <= links
  BY <1>2, <1>9, ReplicationAssumption DEF IInv, Types, Links
<1>13. UpOK(c)' /\ ReplicaOK(c)' /\ AppliedOK(c)' /\ AloneOK(c)'
  <2>1. UpOK(c) /\ ReplicaOK(c) /\ AppliedOK(c)
    BY Zenon DEF IInv
  <2>2. Acked(c)' = Acked(c) /\ Writes(joined[c], have[c])' = Writes(joined[c], have[c])
    BY Zenon, <1>9 DEF Acked, Writes
  <2>3. UpOK(c)' /\ ReplicaOK(c)'
    BY Zenon, <1>9, <1>11, <1>12, <2>1, <2>2 DEF UpOK, ReplicaOK
  <2>4. AppliedOK(c)'
    BY Zenon, <1>9, <2>1, <2>2 DEF AppliedOK
  <2>5. AloneOK(c)'
    BY Zenon, <1>7 DEF AloneOK
  <2> QED
    BY Zenon, <2>3, <2>4, <2>5
<1>14. \A q \in Replicas : rep'[q].link = c => q = r
  BY Zenon, <1>2, <1>7 DEF LinkOK
<1>15. DownOK(c, 0)'
  <2>1. Types /\ have[c] \in Nat
    BY Zenon, <1>11 DEF IInv, Sessions
  <2>2. DownOK(c, 0 + 1) /\ 0 \in Nat
    BY <1>11
  <2>3. have'[c] = have[c] /\ UNCHANGED <<stream, ended, replicas>>
    BY Zenon, <1>9
  <2> QED
    BY Zenon, <2>1, <2>2, <2>3, <1>3, <1>5, Shift
<1>16. LinkOK(r, c)'
  BY Zenon, <1>7, <1>9, <1>11, <1>14, <1>15 DEF LinkOK, Lead, Handshake, Early
<1>17. ServerOK(r)'
  BY Zenon, <1>1, <1>2, <1>7, <1>16 DEF ServerOK, Handshake
<1>18. \A q \in Replicas : rep'[q] = rep[q] \/ (rep'[q].link = c /\ rep[q].link \in {0, c})
  BY Zenon, <1>2, <1>7
<1>19. \A d \in Links \ {c} :
         /\ d <= links' <=> d <= links
         /\ up'[d] = up[d] /\ down'[d] = down[d]
         /\ Same(replicas, replicas', d) /\ Same(joined, joined', d)
         /\ Same(have, have', d) /\ Same(applied, applied', d)
  BY Zenon, <1>5, <1>9 DEF Same
<1>20. UNCHANGED <<stream, ended>>
  BY Zenon, <1>9
<1> QED
  BY Zenon, <1>8, <1>10, <1>13, <1>14, <1>17, <1>18, <1>19, <1>20, OneLink

(* The next command is the one after the position reached; when it is      *)
(* taken the rest stays in order.                                          *)
LEMMA NextCommand ==
  ASSUME NEW c \in Links, Types, have[c] \in Nat, down[c] # <<>>, DownOK(c, 0), IsCommand(down[c][1])
  PROVE  /\ have[c] + 1 <= Len(stream) /\ down[c][1].n = have[c] + 1
         /\ down[c][1].kind = stream[have[c] + 1]
<1>1. down[c] \in Seq(Items)
  BY Zenon DEF Types
<1>2. Len(down[c]) \in Nat /\ Len(down[c]) >= 1
  BY Zenon, <1>1, TailFacts
<1>3. 1 \in 0 + 1 .. Len(down[c]) /\ (\A j \in 0 + 1 .. 1 : j = 1) /\ have[c] + 1 - 0 = have[c] + 1
  BY <1>2
<1>4. \A j \in 0 + 1 .. 1 : IsCommand(down[c][j])
  BY Zenon, <1>3
<1>5. /\ have[c] + 1 - 0 <= Len(stream) /\ down[c][1].n = have[c] + 1 - 0
      /\ down[c][1].kind = stream[have[c] + 1 - 0]
  BY Zenon, <1>3, <1>4 DEF DownOK
<1> QED
  BY Zenon, <1>3, <1>5

(* A command is taken, and the position moves. *)
LEMMA ShiftCommand ==
  ASSUME NEW c \in Links, Types, have[c] \in Nat, down[c] # <<>>, DownOK(c, 0), IsCommand(down[c][1]),
         down'[c] = Tail(down[c]), have'[c] = have[c] + 1, UNCHANGED <<stream, ended, replicas>>
  PROVE  DownOK(c, 0)'
<1>1. down[c] \in Seq(Items)
  BY Zenon DEF Types
<1>2. Len(down[c]) \in Nat /\ Len(down[c]) >= 1 /\ Len(down'[c]) = Len(down[c]) - 1
      /\ \A i \in 1 .. Len(down[c]) - 1 : down'[c][i] = down[c][i + 1]
  BY Zenon, <1>1, TailFacts
<1>3. ASSUME NEW i \in 0 + 1 .. Len(down'[c]), \A j \in 0 + 1 .. i : IsCommand(down'[c][j])
      PROVE  /\ have'[c] + i - 0 <= Len(stream') /\ down'[c][i].n = have'[c] + i - 0
             /\ down'[c][i].kind = stream'[have'[c] + i - 0]
  <2>1. i + 1 \in 0 + 1 .. Len(down[c]) /\ i \in Nat
    BY <1>2, <1>3
  <2>2. ASSUME NEW j \in 0 + 1 .. i + 1 PROVE IsCommand(down[c][j])
    <3>1. CASE j = 1
      BY Zenon, <3>1
    <3>2. CASE j # 1
      <4>1. j - 1 \in 0 + 1 .. i /\ j - 1 \in 1 .. Len(down[c]) - 1 /\ j - 1 + 1 = j
        BY <1>2, <2>1, <2>2, <3>2
      <4>2. down'[c][j - 1] = down[c][j]
        BY Zenon, <1>2, <4>1
      <4> QED
        BY Zenon, <1>3, <4>1, <4>2 DEF IsCommand
    <3> QED
      BY Zenon, <3>1, <3>2
  <2>3. /\ have[c] + (i + 1) - 0 <= Len(stream) /\ down[c][i + 1].n = have[c] + (i + 1) - 0
        /\ down[c][i + 1].kind = stream[have[c] + (i + 1) - 0]
    BY Zenon, <2>1, <2>2 DEF DownOK
  <2>4. have[c] + (i + 1) - 0 = have'[c] + i - 0
    BY SMTT(30), <2>1
  <2>5. down'[c][i] = down[c][i + 1]
    BY <1>2, <1>3
  <2> QED
    BY Zenon, <2>3, <2>4, <2>5
<1>4. ASSUME c \in DOMAIN replicas, c \notin ended, \A j \in 0 + 1 .. Len(down'[c]) : IsCommand(down'[c][j])
      PROVE  have'[c] + Len(down'[c]) - 0 = Len(stream')
  <2>1. ASSUME NEW j \in 0 + 1 .. Len(down[c]) PROVE IsCommand(down[c][j])
    <3>1. CASE j = 1
      BY Zenon, <3>1
    <3>2. CASE j # 1
      <4>1. j - 1 \in 0 + 1 .. Len(down'[c]) /\ j - 1 \in 1 .. Len(down[c]) - 1 /\ j - 1 + 1 = j
        BY SMTT(30), <1>2, <2>1, <3>2
      <4>2. down'[c][j - 1] = down[c][j]
        BY Zenon, <1>2, <4>1
      <4> QED
        BY Zenon, <1>4, <4>1, <4>2 DEF IsCommand
    <3> QED
      BY Zenon, <3>1, <3>2
  <2>2. have[c] + Len(down[c]) - 0 = Len(stream)
    BY Zenon, <1>4, <2>1 DEF DownOK
  <2> QED
    BY SMTT(30), <1>2, <2>2
<1> QED
  BY Zenon, <1>3, <1>4 DEF DownOK, IsCommand

(* The writes executed, and one more. *)
LEMMA OneMoreWrite ==
  ASSUME NEW s \in Seq(Nat), NEW n \in Nat, \A i \in DOMAIN s : s[i] < n,
         \A i, j \in DOMAIN s : i < j => s[i] < s[j]
  PROVE  /\ {Append(s, n)[i] : i \in DOMAIN Append(s, n)} = {s[i] : i \in DOMAIN s} \cup {n}
         /\ \A i, j \in DOMAIN Append(s, n) : i < j => Append(s, n)[i] < Append(s, n)[j]
<1>1. /\ DOMAIN s = 1 .. Len(s) /\ DOMAIN Append(s, n) = 1 .. Len(s) + 1 /\ Len(s) \in Nat
      /\ Append(s, n)[Len(s) + 1] = n /\ \A i \in 1 .. Len(s) : Append(s, n)[i] = s[i]
  OBVIOUS
<1>2. \A i \in 1 .. Len(s) + 1 : i = Len(s) + 1 \/ i \in 1 .. Len(s)
  BY <1>1
<1>3. Len(s) + 1 \in 1 .. Len(s) + 1 /\ \A i \in 1 .. Len(s) : i \in 1 .. Len(s) + 1
  BY <1>1
<1>4. {Append(s, n)[i] : i \in DOMAIN Append(s, n)} = {s[i] : i \in DOMAIN s} \cup {n}
  BY <1>1, <1>2, <1>3, Zenon
<1>5. ASSUME NEW i \in 1 .. Len(s) + 1, NEW j \in 1 .. Len(s) + 1, i < j
      PROVE  Append(s, n)[i] < Append(s, n)[j]
  <2>1. i \in 1 .. Len(s)
    BY <1>1, <1>5
  <2>2. CASE j = Len(s) + 1
    BY Zenon, <1>1, <2>1, <2>2
  <2>3. CASE j \in 1 .. Len(s)
    BY Zenon, <1>1, <1>5, <2>1, <2>3
  <2> QED
    BY Zenon, <1>2, <2>2, <2>3
<1> QED
  BY Zenon, <1>1, <1>4, <1>5

(* A command from the primary, with the acknowledgement if it asks for one. *)
LEMMA LinkCommandInv ==
  ASSUME NEW r \in Replicas, IInv, LinkCommand(r)
  PROVE  IInv'
<1>1. PICK c \in Links : c = rep[r].link /\ LinkOK(r, c)
  BY Zenon, LinkRange DEF LinkCommand, IInv, ServerOK
<1>2. down[c] \in Seq(Items) /\ up[c] \in Seq(Items) /\ down[c] # <<>>
  BY Zenon, <1>1 DEF LinkCommand, IInv, Types
<1>3. Head(down[c]) = down[c][1] /\ Tail(down[c]) \in Seq(Items)
  BY Zenon, <1>2, TailFacts
<1>4. /\ rep[r].phase = "loop" /\ IsCommand(down[c][1])
      /\ c \in DOMAIN joined /\ DownOK(c, 0) /\ rep[r].offset = have[c]
  BY Zenon, <1>1, <1>3 DEF LinkCommand, LinkOK, Lead, IsCommand
<1>5. /\ DOMAIN have = DOMAIN joined /\ DOMAIN applied = DOMAIN joined
      /\ joined[c] \in Nat /\ have[c] \in Nat /\ applied[c] \in Seq(Nat)
      /\ joined[c] <= have[c] /\ have[c] <= Len(stream)
  BY Zenon, <1>4 DEF IInv, Sessions
<1>6. PICK n \in Nat : n = have[c] + 1
  BY <1>5
<1>7. n <= Len(stream) /\ down[c][1].n = n /\ down[c][1].kind = stream[n] /\ Len(stream) \in Nat
  <2>1. Types /\ Len(stream) \in Nat
    BY SMTT(30) DEF IInv, Types
  <2> QED
    BY Zenon, <1>2, <1>4, <1>5, <1>6, <2>1, NextCommand
<1>8. /\ down' \in [Links -> Seq(Items)] /\ down'[c] = Tail(down[c])
      /\ \A d \in Links \ {c} : down'[d] = down[d]
  BY Zenon, <1>1, <1>3 DEF LinkCommand, IInv, Types
<1>9. /\ up' = IF stream[n] = "getack" THEN Sent(up, c, <<Ack(have[c])>>) ELSE up
      /\ rep' = [rep EXCEPT ![r].offset = @ + 1]
      /\ have' = [have EXCEPT ![c] = n]
      /\ applied' = IF stream[n] = "write" THEN [applied EXCEPT ![c] = Append(@, n)] ELSE applied
      /\ UNCHANGED <<stream, clients, replicas, offsets, waiters, budget, links, pending, ended, joined>>
  BY Zenon, <1>1, <1>3, <1>4, <1>7 DEF LinkCommand
<1>10. /\ up' \in [Links -> Seq(Items)] /\ \A d \in Links \ {c} : up'[d] = up[d]
       /\ up'[c] = up[c] \/ (stream[n] = "getack" /\ up'[c] = up[c] \o <<Ack(have[c])>>)
  <2>1. Ack(have[c]) \in Items
    BY Zenon, <1>5, ItemFacts DEF Ack, Kinds
  <2>2. <<Ack(have[c])>> \in Seq(Items)
    BY <2>1
  <2>3. up \in [Links -> Seq(Items)] /\ up[c] \o <<Ack(have[c])>> \in Seq(Items)
    BY <1>2, <2>2 DEF IInv, Types
  <2>4. CASE up' = up
    BY Zenon, <2>3, <2>4
  <2>5. CASE stream[n] = "getack" /\ up' = [up EXCEPT ![c] = @ \o <<Ack(have[c])>>]
    BY Zenon, <2>3, <2>5
  <2> QED
    BY Zenon, <1>9, <2>4, <2>5 DEF Sent
<1>11. /\ rep' \in [Replicas -> Servers] /\ \A q \in Replicas \ {r} : rep'[q] = rep[q]
       /\ rep'[r].phase = "loop" /\ rep'[r].link = c /\ rep'[r].offset = n
  <2>1. rep \in [Replicas -> Servers]
    BY Zenon DEF IInv, Types
  <2> QED
    BY Zenon, <1>1, <1>4, <1>6, <1>9, <2>1 DEF Servers
<1>12. Types'
  <2>1. \A q \in Replicas : rep[q].link <= links
    BY Zenon DEF IInv, Types
  <2>2. \A q \in Replicas : rep'[q].link <= links
    BY Zenon, <1>1, <1>11, <2>1
  <2> QED
    BY ZenonT(60), <1>8, <1>9, <1>10, <1>11, <2>2 DEF IInv, Types
<1>13. /\ DOMAIN have' = DOMAIN have /\ have'[c] = n
       /\ \A d \in DOMAIN have \ {c} : have'[d] = have[d]
  BY Zenon, <1>4, <1>5, <1>9
<1>14. /\ DOMAIN applied' = DOMAIN applied /\ \A d \in DOMAIN applied \ {c} : applied'[d] = applied[d]
       /\ applied'[c] = IF stream[n] = "write" THEN Append(applied[c], n) ELSE applied[c]
  BY Zenon, <1>4, <1>5, <1>9
<1>15. Sessions'
  <2>1. applied'[c] \in Seq(Nat)
    BY <1>5, <1>14
  <2>2. joined[c] <= n
    BY <1>5, <1>6
  <2> QED
    BY Zenon, <1>5, <1>6, <1>7, <1>9, <1>13, <1>14, <2>1, <2>2 DEF IInv, Sessions
<1>16. Acked(c) \subseteq Acked(c)' /\ (stream[n] = "getack" => have[c] \in Acked(c)')
  BY <1>4, <1>5, <1>6, <1>9, <1>13 DEF Acked
<1>17. UpOK(c)'
  <2>1. \A i \in DOMAIN up[c] : up[c][i].kind = "ACK" /\ up[c][i].n \in Acked(c)
    BY Zenon, <1>4 DEF IInv, UpOK
  <2>2. ~(c > links')
    BY <1>1, <1>9, ReplicationAssumption DEF IInv, Types, Links
  <2>3. CASE up'[c] = up[c]
    BY Zenon, <1>4, <1>9, <1>16, <2>1, <2>2, <2>3 DEF UpOK
  <2>4. CASE stream[n] = "getack" /\ up'[c] = up[c] \o <<Ack(have[c])>>
    <3>1. Ack(have[c]).kind = "ACK" /\ Ack(have[c]).n = have[c]
      BY SMTT(30), <1>5, ItemFacts DEF Ack, Kinds
    <3>2. \A x : \A i \in DOMAIN (up[c] \o <<x>>) :
            (up[c] \o <<x>>)[i] = x \/ (i \in DOMAIN up[c] /\ (up[c] \o <<x>>)[i] = up[c][i])
      BY SMTT(30), <1>2
    <3>3. \A i \in DOMAIN up'[c] : up'[c][i].kind = "ACK" /\ up'[c][i].n \in Acked(c)'
      BY SMTT(30), <1>16, <2>1, <2>4, <3>1, <3>2
    <3> QED
      BY Zenon, <1>4, <1>9, <2>2, <3>3 DEF UpOK
  <2> QED
    BY Zenon, <1>10, <2>3, <2>4
<1>18. ReplicaOK(c)' /\ AloneOK(c)'
  BY Zenon, <1>9, <1>11, <1>16 DEF IInv, ReplicaOK, AloneOK
<1>19. AppliedOK(c)'
  <2>1. /\ {applied[c][i] : i \in DOMAIN applied[c]} = Writes(joined[c], have[c])
        /\ \A i, j \in DOMAIN applied[c] : i < j => applied[c][i] < applied[c][j]
    BY Zenon, <1>4 DEF IInv, AppliedOK
  <2>2. Writes(joined[c], n)' = Writes(joined[c], have[c]) \cup (IF stream[n] = "write" THEN {n} ELSE {})
    BY SMTT(30), <1>5, <1>6, <1>7, <1>9 DEF Writes
  <2>3. \A i \in DOMAIN applied[c] : applied[c][i] < n
    <3>1. \A m \in Writes(joined[c], have[c]) : m < n
      BY SMTT(30), <1>5, <1>6 DEF Writes
    <3> QED
      BY Zenon, <2>1, <3>1
  <2>4. CASE stream[n] # "write"
    BY Zenon, <1>9, <1>13, <1>14, <2>1, <2>2, <2>4 DEF AppliedOK
  <2>5. CASE stream[n] = "write"
    <3> DEFINE s == Append(applied[c], n)
    <3>1. /\ {s[i] : i \in DOMAIN s} = {applied[c][i] : i \in DOMAIN applied[c]} \cup {n}
          /\ \A i, j \in DOMAIN s : i < j => s[i] < s[j]
      BY Zenon, <1>5, <2>1, <2>3, OneMoreWrite
    <3>2. {s[i] : i \in DOMAIN s} = Writes(joined[c], n)'
      BY Zenon, <2>1, <2>2, <2>5, <3>1
    <3>3. applied'[c] = s /\ have'[c] = n /\ joined' = joined
      BY Zenon, <1>9, <1>13, <1>14, <2>5
    <3> QED
      BY Zenon, <3>1, <3>2, <3>3 DEF AppliedOK
  <2> QED
    BY Zenon, <2>4, <2>5
<1>20. \A q \in Replicas : rep'[q].link = c => q = r
  BY Zenon, <1>1, <1>11 DEF LinkOK
<1>21. DownOK(c, 0)'
  BY Zenon, <1>2, <1>4, <1>5, <1>6, <1>8, <1>9, <1>13, ShiftCommand DEF IInv
<1>22. LinkOK(r, c)'
  BY Zenon, <1>4, <1>9, <1>11, <1>13, <1>20, <1>21 DEF LinkOK, Lead, Handshake, Early
<1>23. ServerOK(r)'
  BY Zenon, <1>11, <1>22 DEF ServerOK, Handshake
<1>24. \A q \in Replicas : rep'[q] = rep[q] \/ (rep'[q].link = c /\ rep[q].link \in {0, c})
  BY Zenon, <1>1, <1>11
<1>25. \A d \in Links \ {c} : Same(have, have', d) /\ Same(applied, applied', d)
  BY Zenon, <1>13, <1>14 DEF Same
<1> QED
  BY Zenon, <1>8, <1>9, <1>10, <1>12, <1>15, <1>17, <1>18, <1>19, <1>20, <1>23, <1>24, <1>25, OneLink DEF Same


-------------------------------------------------------------------------------
(* The steps of the primary: the requests of the replicas, and the         *)
(* propagation of writes and GETACKs.                                      *)

(* Positions between two others. *)
LEMMA Between ==
  /\ \A a, b, l, n \in Nat : b <= l =>
       \A m \in a + 1 .. b : m \in 1 .. l /\ m <= l /\ m <= l + n
  /\ \A a, l \in Nat : a + 1 <= l => a + 1 \in a + 1 .. l
  /\ \A k \in Nat : \A n \in 1 .. k : n \in Nat /\ n > 0
OBVIOUS

(* The request of a link is one of the handshake, and the only one, until  *)
(* the replica registers; afterwards it is an acknowledgement.             *)
LEMMA Requested ==
  ASSUME NEW c \in Links, IInv, up[c] # <<>>
  PROVE  /\ c \notin DOMAIN joined => Head(up[c]).kind \in Asked /\ Tail(up[c]) = <<>>
         /\ c \in DOMAIN joined => Head(up[c]).kind = "ACK" /\ Head(up[c]).n \in Acked(c)
<1>1. up[c] \in Seq(Items) /\ UpOK(c)
  BY Zenon DEF IInv, Types
<1>2. /\ Len(up[c]) \in Nat /\ Len(up[c]) >= 1 /\ Head(up[c]) = up[c][1]
      /\ Tail(up[c]) \in Seq(Items) /\ Len(Tail(up[c])) = Len(up[c]) - 1
  BY Zenon, <1>1, TailFacts
<1>3. 1 \in DOMAIN up[c]
  BY <1>1, <1>2
<1>4. ASSUME c \notin DOMAIN joined PROVE Tail(up[c]) = <<>>
  <2>1. Len(up[c]) <= 1
    BY Zenon, <1>1, <1>4 DEF UpOK
  <2>2. Len(Tail(up[c])) = 0
    <3>1. \A m \in Nat : m >= 1 /\ m <= 1 => m - 1 = 0
      OBVIOUS
    <3> QED
      BY <1>2, <2>1, <3>1, Zenon
  <2>3. \A s \in Seq(Items) : Len(s) = 0 => s = <<>>
    OBVIOUS
  <2> QED
    BY <1>2, <2>2, <2>3, Zenon
<1> QED
  BY Zenon, <1>1, <1>2, <1>3, <1>4 DEF UpOK

(* A request of the handshake that does not register: it is answered with  *)
(* at most one item.                                                       *)
LEMMA AnsweredInv ==
  ASSUME NEW c \in Links, IInv, Types', c <= links, c \notin DOMAIN joined, up[c] # <<>>,
         NEW reply \in Seq(Items), Len(reply) <= 1,
         up' = [up EXCEPT ![c] = <<>>], down' = Sent(down, c, reply),
         UNCHANGED <<stream, replicas, links, ended, rep, have, joined, applied>>
  PROVE  IInv'
<1>1. /\ up \in [Links -> Seq(Items)] /\ down \in [Links -> Seq(Items)]
      /\ up[c] \in Seq(Items) /\ down[c] \in Seq(Items)
  BY Zenon DEF IInv, Types
<1>2. up'[c] = <<>> /\ \A d \in Links \ {c} : up'[d] = up[d] /\ down'[d] = down[d]
  BY Zenon, <1>1 DEF Sent
<1>3. down'[c] = IF c \in ended THEN down[c] ELSE down[c] \o reply
  BY Zenon, <1>1 DEF Sent
<1>4. Sessions'
  BY Zenon DEF IInv, Sessions
<1>5. UpOK(c)' /\ ReplicaOK(c)' /\ AppliedOK(c)'
  <2>1. ~(c > links')
    BY ReplicationAssumption DEF IInv, Types, Links
  <2>2. Len(<<>>) = 0 /\ DOMAIN <<>> = {}
    OBVIOUS
  <2>3. ReplicaOK(c) /\ AppliedOK(c)
    BY Zenon DEF IInv
  <2>4. Acked(c)' = Acked(c) /\ Writes(joined[c], have[c])' = Writes(joined[c], have[c])
    BY Zenon DEF Acked, Writes
  <2>5. UpOK(c)'
    BY <1>2, <2>1, <2>2 DEF UpOK
  <2>6. ReplicaOK(c)' /\ AppliedOK(c)'
    BY Zenon, <2>3, <2>4 DEF ReplicaOK, AppliedOK
  <2> QED
    BY Zenon, <2>5, <2>6
<1>6. AloneOK(c)'
  BY Zenon, <1>3 DEF IInv, AloneOK
<1>7. ASSUME NEW q \in Replicas, rep'[q].link = c PROVE ServerOK(q)'
  <2>1. rep'[q] = rep[q] /\ rep[q].link = c /\ c # 0 /\ ServerOK(q) /\ LinkOK(q, c)
    <3>1. c # 0 /\ rep'[q] = rep[q]
      BY DEF Links
    <3> QED
      BY Zenon, <1>7, <3>1 DEF IInv, ServerOK
  <2>2. rep[q].phase \in Handshake
    <3>1. rep[q].phase \in Phases
      BY Zenon DEF IInv, Types, Servers
    <3> QED
      BY Zenon, <2>1, <3>1 DEF ServerOK, LinkOK, Phases
  <2>3. down[c] = <<>>
    <3>1. Len(up[c]) + Len(down[c]) <= 1
      BY <2>1, <2>2, Zenon DEF LinkOK
    <3>2. Len(up[c]) \in Nat /\ Len(up[c]) >= 1 /\ Len(down[c]) \in Nat
      BY <1>1, TailFacts
    <3>3. \A m, n \in Nat : m + n <= 1 /\ m >= 1 => n = 0
      OBVIOUS
    <3>4. Len(down[c]) = 0
      BY <3>1, <3>2, <3>3, Zenon
    <3> QED
      BY <1>1, <3>4
  <2>4. Len(up'[c]) + Len(down'[c]) <= 1
    <3>1. down'[c] = <<>> \/ down'[c] = reply
      BY <1>3, <2>3
    <3>2. Len(reply) \in Nat /\ Len(<<>>) = 0
      OBVIOUS
    <3>3. \A m \in Nat : m <= 1 => 0 + m <= 1
      OBVIOUS
    <3>4. 0 \in Nat /\ 0 <= 1
      OBVIOUS
    <3> QED
      BY <1>2, <3>1, <3>2, <3>3, <3>4, Zenon
  <2>5. LinkOK(q, c)'
    <3>1. DOMAIN up'[c] = {}
      BY <1>2
    <3>2. ~(rep[q].phase \in {"rdb", "loop"})
      BY Zenon, <2>2 DEF Handshake
    <3> QED
      BY <2>1, <2>4, <3>1, <3>2, Zenon DEF LinkOK
  <2> QED
    BY Zenon, <2>1, <2>2, <2>5 DEF ServerOK, Handshake
<1> QED
  BY Zenon, <1>2, <1>4, <1>5, <1>6, <1>7, OneLink DEF Same

(* PSYNC: the replica is registered at the present offset, with nothing    *)
(* but the reply before it.                                                *)
LEMMA JoinInv ==
  ASSUME NEW c \in Links, IInv, Types', c <= links, c \notin DOMAIN joined, up[c] # <<>>,
         Head(up[c]).kind = "PSYNC",
         up' = [up EXCEPT ![c] = <<>>], down' = Sent(down, c, handle_psync(Len(stream))),
         replicas' = Put(replicas, c, Len(stream)), have' = Put(have, c, Len(stream)),
         joined' = Put(joined, c, Len(stream)), applied' = Put(applied, c, <<>>),
         UNCHANGED <<stream, links, ended, rep>>
  PROVE  IInv'
<1>1. /\ up \in [Links -> Seq(Items)] /\ down \in [Links -> Seq(Items)]
      /\ up[c] \in Seq(Items) /\ down[c] \in Seq(Items) /\ Len(stream) \in Nat
  BY SMTT(30) DEF IInv, Types
<1>2. up'[c] = <<>> /\ \A d \in Links \ {c} : up'[d] = up[d] /\ down'[d] = down[d]
  BY Zenon, <1>1 DEF Sent
<1>3. down'[c] = IF c \in ended THEN down[c] ELSE down[c] \o handle_psync(Len(stream))
  BY Zenon, <1>1 DEF Sent
<1>4. /\ DOMAIN joined' = DOMAIN joined \cup {c} /\ joined'[c] = Len(stream)
      /\ DOMAIN have' = DOMAIN have \cup {c} /\ have'[c] = Len(stream)
      /\ DOMAIN applied' = DOMAIN applied \cup {c} /\ applied'[c] = <<>>
      /\ DOMAIN replicas' = DOMAIN replicas \cup {c} /\ replicas'[c] = Len(stream)
  BY Zenon DEF Put
<1>5. \A d \in Links \ {c} : /\ Same(joined, joined', d) /\ Same(have, have', d)
                             /\ Same(applied, applied', d) /\ Same(replicas, replicas', d)
  BY Zenon DEF Put, Same
<1>6. Sessions'
  <2>1. c \in 1 .. links'
    BY SMTT(30), ReplicationAssumption DEF IInv, Types, Links
  <2>2. \A d \in DOMAIN joined : joined'[d] = joined[d] /\ have'[d] = have[d] /\ applied'[d] = applied[d]
    BY Zenon DEF Put, IInv, Sessions
  <2>3. joined'[c] <= have'[c] /\ have'[c] <= Len(stream') /\ <<>> \in Seq(Nat)
    <3>1. Len(stream) \in Nat /\ joined'[c] = Len(stream) /\ have'[c] = Len(stream) /\ stream' = stream
      BY Zenon, <1>1, <1>4
    <3> QED
      BY <3>1
  <2> QED
    BY Zenon, <1>1, <1>4, <2>1, <2>2, <2>3 DEF IInv, Sessions
<1>7. UpOK(c)' /\ ReplicaOK(c)' /\ AppliedOK(c)'
  <2>1. ~(c > links')
    BY SMTT(30), ReplicationAssumption DEF IInv, Types, Links
  <2>2. DOMAIN <<>> = {}
    OBVIOUS
  <2>3. Writes(joined[c], have[c])' = {}
    BY SMTT(30), <1>1, <1>4 DEF Writes
  <2>4. {<<>>[i] : i \in DOMAIN <<>>} = {}
    BY Zenon, <2>2
  <2>5. AppliedOK(c)'
    BY Zenon, <1>4, <2>2, <2>3, <2>4 DEF AppliedOK
  <2> QED
    BY Zenon, <1>2, <1>4, <2>1, <2>2, <2>5 DEF UpOK, ReplicaOK
<1>8. AloneOK(c)'
  BY Zenon, <1>3 DEF IInv, AloneOK
<1>9. ASSUME NEW q \in Replicas, rep'[q].link = c PROVE ServerOK(q)'
  <2>1. rep'[q] = rep[q] /\ rep[q].link = c /\ c # 0 /\ ServerOK(q) /\ LinkOK(q, c)
    <3>1. c # 0 /\ rep'[q] = rep[q]
      BY DEF Links
    <3> QED
      BY Zenon, <1>9, <3>1 DEF IInv, ServerOK
  <2>2. rep[q].phase = "psync"
    <3>1. rep[q].phase \in Phases
      BY Zenon DEF IInv, Types, Servers
    <3>2. 1 \in DOMAIN up[c] /\ up[c][1].kind = "PSYNC"
      <4>1. Len(up[c]) \in Nat /\ Len(up[c]) >= 1 /\ Head(up[c]) = up[c][1]
        BY Zenon, <1>1, TailFacts
      <4> QED
        BY <1>1, <4>1
    <3> QED
      BY Zenon, <2>1, <3>1, <3>2 DEF ServerOK, LinkOK, Phases, Handshake, Early
  <2>3. down[c] = <<>>
    <3>1. Len(up[c]) + Len(down[c]) <= 1
      BY Zenon, <2>1, <2>2 DEF LinkOK, Handshake
    <3>2. Len(up[c]) \in Nat /\ Len(up[c]) >= 1 /\ Len(down[c]) \in Nat
      BY <1>1, TailFacts
    <3>3. \A m, n \in Nat : m + n <= 1 /\ m >= 1 => n = 0
      OBVIOUS
    <3>4. Len(down[c]) = 0
      BY <3>1, <3>2, <3>3, Zenon
    <3> QED
      BY <1>1, <3>4
  <2>4. down'[c] = IF c \in ended THEN <<>> ELSE handle_psync(Len(stream))
    <3>1. handle_psync(Len(stream)) \in Seq(Items)
      BY <1>1, ItemFacts DEF handle_psync, Kinds
    <3> QED
      BY <1>3, <2>3, <3>1
  <2>5. DownOK(c, 2)' /\ (down'[c] # <<>> => down'[c][1].n = Len(stream))
    <3>1. CASE c \in ended
      <4>1. ended' = ended /\ down'[c] = <<>> /\ \A i \in 2 + 1 .. Len(down'[c]) : FALSE
        BY <2>4, <3>1
      <4> QED
        BY Zenon, <3>1, <4>1 DEF DownOK
    <3>2. CASE c \notin ended
      <4>1. Len(down'[c]) = 2 /\ down'[c][1] = Item("fullresync", Len(stream))
        BY <2>4, <3>2 DEF handle_psync
      <4>2. Item("fullresync", Len(stream)).n = Len(stream)
        BY Zenon, <1>1, ItemFacts DEF Kinds
      <4>3. \A i \in 2 + 1 .. Len(down'[c]) : FALSE
        BY <4>1
      <4>4. have'[c] + Len(down'[c]) - 2 = Len(stream')
        <5>1. Len(stream) \in Nat /\ have'[c] = Len(stream) /\ stream' = stream /\ Len(down'[c]) = 2
          BY Zenon, <1>1, <1>4, <4>1
        <5> QED
          BY <5>1
      <4> QED
        BY Zenon, <4>1, <4>2, <4>3, <4>4 DEF DownOK
    <3> QED
      BY Zenon, <3>1, <3>2
  <2>6. LinkOK(q, c)'
    BY Zenon, <1>2, <1>4, <2>1, <2>2, <2>5 DEF LinkOK, Lead, Early, Handshake
  <2> QED
    BY Zenon, <2>1, <2>2, <2>6 DEF ServerOK, Handshake
<1> QED
  BY Zenon, <1>2, <1>5, <1>6, <1>7, <1>8, <1>9, OneLink

(* What is no command, sent after the commands, leaves them as they are. *)
LEMMA NoCommand ==
  ASSUME NEW c \in Links, Types, DownOK(c, 0), NEW item \in Items, ~IsCommand(item),
         down'[c] = down[c] \o <<item>>, have'[c] = have[c], UNCHANGED <<stream, ended>>
  PROVE  DownOK(c, 0)'
<1>1. down[c] \in Seq(Items)
  BY Zenon DEF Types
<1>2. /\ Len(down[c]) \in Nat /\ Len(down'[c]) = Len(down[c]) + 1 /\ down'[c][Len(down[c]) + 1] = item
      /\ \A i \in 1 .. Len(down[c]) : down'[c][i] = down[c][i]
  BY <1>1
<1>3. ASSUME NEW i \in 0 + 1 .. Len(down'[c]), \A j \in 0 + 1 .. i : IsCommand(down'[c][j])
      PROVE  i \in 0 + 1 .. Len(down[c]) /\ down'[c][i] = down[c][i] /\ \A j \in 0 + 1 .. i : IsCommand(down[c][j])
  <2>1. i # Len(down[c]) + 1
    BY Zenon, <1>2, <1>3
  <2>2. i \in 1 .. Len(down[c]) /\ \A j \in 0 + 1 .. i : j \in 1 .. Len(down[c])
    BY SMTT(30), <1>2, <1>3, <2>1
  <2> QED
    BY SMTT(30), <1>2, <1>3, <2>2 DEF IsCommand
<1>4. ~\A j \in 0 + 1 .. Len(down'[c]) : IsCommand(down'[c][j])
  BY <1>2
<1>5. \A i \in 0 + 1 .. Len(down'[c]) : (\A j \in 0 + 1 .. i : IsCommand(down'[c][j])) =>
        /\ have'[c] + i - 0 <= Len(stream') /\ down'[c][i].n = have'[c] + i - 0
        /\ down'[c][i].kind = stream'[have'[c] + i - 0]
  BY Zenon, <1>3 DEF DownOK
<1> QED
  BY Zenon, <1>4, <1>5 DEF DownOK, IsCommand

(* REPLCONF ACK: it is remembered, or refused and answered with an error. *)
LEMMA AckInv ==
  ASSUME NEW c \in Links, IInv, Types', c <= links, c \in DOMAIN joined, up[c] # <<>>,
         NEW reply \in {<<>>, <<Item("error", 0)>>}, NEW n, n \in Acked(c),
         up' = [up EXCEPT ![c] = Tail(@)], down' = Sent(down, c, reply),
         replicas' = replicas \/ replicas' = [replicas EXCEPT ![c] = n],
         UNCHANGED <<stream, links, ended, rep, have, joined, applied>>
  PROVE  IInv'
<1>1. /\ up \in [Links -> Seq(Items)] /\ down \in [Links -> Seq(Items)]
      /\ up[c] \in Seq(Items) /\ down[c] \in Seq(Items)
  BY Zenon DEF IInv, Types
<1>2. up'[c] = Tail(up[c]) /\ \A d \in Links \ {c} : up'[d] = up[d] /\ down'[d] = down[d]
  BY Zenon, <1>1 DEF Sent
<1>3. down'[c] = down[c] \/ down'[c] = down[c] \o <<Item("error", 0)>>
  <2>1. down[c] \o <<>> = down[c]
    BY SMTT(30), <1>1
  <2>2. down'[c] = IF c \in ended THEN down[c] ELSE down[c] \o reply
    BY Zenon, <1>1 DEF Sent
  <2> QED
    BY Zenon, <2>1, <2>2
<1>4. Sessions'
  BY Zenon DEF IInv, Sessions
<1>5. DOMAIN replicas' = DOMAIN replicas /\ \A d \in Links \ {c} : Same(replicas, replicas', d)
  BY Zenon DEF Same
<1>6. Acked(c)' = Acked(c)
  BY Zenon DEF Acked
<1>7. UpOK(c)'
  <2>1. ~(c > links')
    BY SMTT(30), ReplicationAssumption DEF IInv, Types, Links
  <2>2. \A i \in DOMAIN up[c] : up[c][i].kind = "ACK" /\ up[c][i].n \in Acked(c)
    BY Zenon DEF IInv, UpOK
  <2>3. \A i \in DOMAIN up'[c] : i + 1 \in DOMAIN up[c] /\ up'[c][i] = up[c][i + 1]
    BY SMTT(30), <1>1, <1>2
  <2> QED
    BY ZenonT(60), <1>6, <2>1, <2>2, <2>3 DEF UpOK
<1>8. ReplicaOK(c)' /\ AppliedOK(c)'
  <2>1. ReplicaOK(c) /\ AppliedOK(c)
    BY Zenon DEF IInv
  <2>2. Writes(joined[c], have[c])' = Writes(joined[c], have[c])
    BY Zenon DEF Writes
  <2>3. c \in DOMAIN replicas' => c \in DOMAIN replicas /\ replicas'[c] \in {replicas[c], n}
    BY Zenon, <1>5
  <2>4. ReplicaOK(c)'
    BY Zenon, <1>6, <2>1, <2>3 DEF ReplicaOK
  <2>5. AppliedOK(c)'
    BY Zenon, <2>1, <2>2 DEF AppliedOK
  <2> QED
    BY Zenon, <2>4, <2>5
<1>9. AloneOK(c)'
  BY Zenon DEF IInv, AloneOK, Sent
<1>10. ASSUME NEW q \in Replicas, rep'[q].link = c PROVE ServerOK(q)'
  <2>1. rep'[q] = rep[q] /\ rep[q].link = c /\ c # 0 /\ ServerOK(q) /\ LinkOK(q, c)
    <3>1. c # 0 /\ rep'[q] = rep[q]
      BY DEF Links
    <3> QED
      BY Zenon, <1>10, <3>1 DEF IInv, ServerOK
  <2>2. rep[q].phase = "loop"
    <3>1. rep[q].phase \in Phases
      BY Zenon DEF IInv, Types, Servers
    <3> QED
      BY Zenon, <2>1, <3>1 DEF ServerOK, LinkOK, Phases, Handshake, Early
  <2>3. DownOK(c, 0)
    BY Zenon, <2>1, <2>2 DEF LinkOK, Lead
  <2>4. DownOK(c, 0)'
    <3>1. CASE down'[c] = down[c]
      BY Zenon, <1>5, <2>3, <3>1 DEF DownOK, IsCommand
    <3>2. CASE down'[c] = down[c] \o <<Item("error", 0)>>
      <4>1. Item("error", 0) \in Items /\ Item("error", 0).kind = "error"
        BY Zenon, ItemFacts DEF Kinds
      <4>2. ~IsCommand(Item("error", 0))
        BY Zenon, <4>1 DEF IsCommand
      <4> QED
        BY Zenon, <2>3, <3>2, <4>1, <4>2, NoCommand DEF IInv
    <3> QED
      BY Zenon, <1>3, <3>1, <3>2
  <2>5. LinkOK(q, c)'
    BY Zenon, <2>1, <2>2, <2>4 DEF LinkOK, Lead, Early, Handshake
  <2> QED
    BY Zenon, <2>1, <2>2, <2>5 DEF ServerOK, Handshake
<1> QED
  BY Zenon, <1>2, <1>4, <1>5, <1>7, <1>8, <1>9, <1>10, OneLink DEF Same

(* A request of a replica, whatever it is and whether it is permitted. *)
LEMMA RequestInv ==
  ASSUME NEW c \in Links, IInv, Request(c)
  PROVE  IInv'
<1> DEFINE kind  == Head(up[c]).kind
           reply == Reply(c, kind)
           joins == Permitted(c) /\ kind = "PSYNC"
           acks  == Permitted(c) /\ kind = "ACK" /\ c \in DOMAIN replicas
<1>1. c \in DOMAIN clients /\ c \in 1 .. links /\ c <= links /\ up[c] # <<>>
  <2>1. c \in DOMAIN clients /\ up[c] # <<>>
    BY Zenon DEF Request
  <2>2. DOMAIN clients \subseteq 1 .. links /\ links \in Nat
    <3>1. links \in 0 .. budget.links /\ DOMAIN clients \subseteq 1 .. links
      BY Zenon DEF IInv, Types
    <3> QED
      BY <3>1
  <2> QED
    BY <2>1, <2>2
<1>2. CASE CloseClient(c) /\ Stalls(1)
  <2>1. Kept
    BY Zenon, <1>2, BudgetKept DEF IInv
  <2> QED
    BY Zenon, <1>1, <1>2, <2>1, CloseInv DEF Request
<1>3. CASE /\ down' = Sent(down, c, reply) /\ up' = [up EXCEPT ![c] = Tail(@)]
           /\ replicas' = IF joins THEN Put(replicas, c, Len(stream))
                          ELSE IF acks THEN [replicas EXCEPT ![c] = Head(up[c]).n] ELSE replicas
           /\ have' = IF joins THEN Put(have, c, Len(stream)) ELSE have
           /\ joined' = IF joins THEN Put(joined, c, Len(stream)) ELSE joined
           /\ applied' = IF joins THEN Put(applied, c, <<>>) ELSE applied
           /\ UNCHANGED <<clients, ended, budget>>
  <2>1. /\ kind \in Asked \cup {"ACK"} /\ (c \notin DOMAIN joined => kind # "ACK" /\ Tail(up[c]) = <<>>)
        /\ c \in DOMAIN joined => kind = "ACK" /\ Head(up[c]).n \in Acked(c)
    BY Zenon, <1>1, Requested DEF Asked
  <2>2. up[c] \in Seq(Items) /\ Tail(up[c]) \in Seq(Items) /\ Len(stream) \in Nat
    BY <1>1, TailFacts DEF IInv, Types
  <2>3. /\ joins => reply = handle_psync(Len(stream))
        /\ ~joins => reply \in {<<>>, <<Item("error", 0)>>, <<Item("line", 0)>>}
        /\ kind = "ACK" => reply \in {<<>>, <<Item("error", 0)>>}
    <3>1. CASE ~Permitted(c)
      BY Zenon, <3>1 DEF Reply
    <3>2. CASE Permitted(c) /\ kind = "PSYNC"
      BY Zenon, <3>2 DEF Reply
    <3>3. CASE Permitted(c) /\ kind \in {"PING", "REPLCONF"}
      BY Zenon, <3>3 DEF Reply
    <3>4. CASE Permitted(c) /\ kind = "ACK"
      BY Zenon, <3>4 DEF Reply
    <3> QED
      BY Zenon, <2>1, <3>1, <3>2, <3>3, <3>4 DEF Asked
  <2> HIDE DEF reply
  <2>4. reply \in Seq(Items)
    <3>1. Item("error", 0) \in Items /\ Item("line", 0) \in Items
      BY Zenon, ItemFacts DEF Kinds
    <3>2. handle_psync(Len(stream)) \in Seq(Items)
      BY <2>2, ItemFacts DEF handle_psync, Kinds
    <3>3. <<Item("error", 0)>> \in Seq(Items) /\ <<Item("line", 0)>> \in Seq(Items) /\ <<>> \in Seq(Items)
      BY <3>1
    <3> QED
      BY <2>3, <3>2, <3>3, Zenon
  <2>5. UNCHANGED <<stream, clients, offsets, waiters, budget, links, pending, ended, rep>>
    BY Zenon, <1>3 DEF Request
  <2>6. Types'
    <3>1. DOMAIN replicas' \subseteq DOMAIN replicas \cup {c}
      BY Zenon, <1>3 DEF Put
    <3>2. up \in [Links -> Seq(Items)] /\ down \in [Links -> Seq(Items)]
      BY Zenon DEF IInv, Types
    <3>3. up' \in [Links -> Seq(Items)] /\ down' \in [Links -> Seq(Items)]
      <4>1. down[c] \o reply \in Seq(Items)
        BY <2>4, <3>2
      <4> QED
        BY Zenon, <1>3, <2>2, <3>2, <4>1 DEF Sent
    <3> QED
      BY Zenon, <1>1, <2>5, <3>1, <3>3 DEF IInv, Types
  <2>7. CASE c \in DOMAIN joined
    BY Zenon, <1>1, <1>3, <2>1, <2>3, <2>5, <2>6, <2>7, AckInv
  <2>8. CASE c \notin DOMAIN joined /\ joins
    <3>1. up' = [up EXCEPT ![c] = <<>>]
      BY Zenon, <1>3, <2>1, <2>8
    <3> QED
      BY Zenon, <1>1, <1>3, <2>3, <2>5, <2>6, <2>8, <3>1, JoinInv
  <2>9. CASE c \notin DOMAIN joined /\ ~joins
    <3>1. up' = [up EXCEPT ![c] = <<>>]
      BY Zenon, <1>3, <2>1, <2>9
    <3>2. \A x : Len(<<x>>) <= 1 /\ Len(<<>>) <= 1
      OBVIOUS
    <3>3. Len(reply) <= 1
      BY <2>3, <2>9, <3>2, Zenon
    <3>4. UNCHANGED <<replicas, have, joined, applied>>
      BY Zenon, <1>3, <2>1, <2>9
    <3> QED
      BY Zenon, <1>1, <1>3, <2>4, <2>5, <2>6, <2>9, <3>1, <3>3, <3>4, AnsweredInv
  <2> QED
    BY Zenon, <2>7, <2>8, <2>9
<1> QED
  BY Zenon, <1>2, <1>3 DEF Request

-------------------------------------------------------------------------------
(* Propagation. *)

(* What send_to_replicas does, link by link: the stream grows by n         *)
(* commands, of which a replica is sent the first ones.                    *)
Sending(kind, n, reach) ==
  /\ stream' \in Seq({"write", "getack"}) /\ Len(stream) \in Nat /\ Len(stream') = Len(stream) + n
  /\ \A i \in 1 .. Len(stream) : stream'[i] = stream[i]
  /\ \A i \in 1 .. n : stream'[Len(stream) + i] = kind
  /\ DOMAIN replicas' \subseteq DOMAIN replicas
  /\ \A c \in DOMAIN replicas' : replicas'[c] = replicas[c] /\ reach[c] = n
  /\ down' \in [Links -> Seq(Items)]
  /\ \A c \in Links \ (DOMAIN replicas \ ended) : down'[c] = down[c]
  /\ \A c \in DOMAIN replicas \ ended :
       /\ Len(down'[c]) = Len(down[c]) + reach[c]
       /\ \A i \in 1 .. Len(down[c]) : down'[c][i] = down[c][i]
       /\ \A i \in 1 .. reach[c] : /\ down'[c][Len(down[c]) + i].kind = kind
                                   /\ down'[c][Len(down[c]) + i].n = Len(stream) + i
  /\ Kept

(* Appending to a queue. *)
LEMMA Concatenated ==
  ASSUME NEW s \in Seq(Items), NEW t \in Seq(Items)
  PROVE  /\ s \o t \in Seq(Items) /\ Len(s \o t) = Len(s) + Len(t)
         /\ \A i \in 1 .. Len(s) : (s \o t)[i] = s[i]
         /\ \A i \in 1 .. Len(t) : (s \o t)[Len(s) + i] = t[i]
  OBVIOUS

(* send_to_replicas does that. *)
LEMMA SendFacts ==
  ASSUME NEW kind \in {"write", "getack"}, NEW n \in Nat, NEW reach \in [DOMAIN replicas -> 0 .. n],
         IInv, send_to_replicas(kind, n, reach)
  PROVE  Sending(kind, n, reach)
<1>1. /\ stream \in Seq({"write", "getack"}) /\ Len(stream) \in Nat /\ down \in [Links -> Seq(Items)]
      /\ DOMAIN replicas \subseteq Links
  BY ReplicationAssumption DEF IInv, Types, Links
<1>2. [i \in 1 .. n |-> kind] \in Seq({"write", "getack"}) /\ Len([i \in 1 .. n |-> kind]) = n
  OBVIOUS
<1>3. /\ stream' \in Seq({"write", "getack"}) /\ Len(stream') = Len(stream) + n
      /\ \A i \in 1 .. Len(stream) : stream'[i] = stream[i]
      /\ \A i \in 1 .. n : stream'[Len(stream) + i] = kind
  <2>1. stream' = stream \o [i \in 1 .. n |-> kind]
    BY Zenon DEF send_to_replicas
  <2> QED
    BY <1>1, <1>2, <2>1
<1>4. /\ DOMAIN replicas' \subseteq DOMAIN replicas
      /\ \A c \in DOMAIN replicas' : replicas'[c] = replicas[c] /\ reach[c] = n
  <2>1. /\ DOMAIN replicas' = {c \in DOMAIN replicas : ~(reach[c] < n)}
        /\ \A c \in DOMAIN replicas' : replicas'[c] = replicas[c]
    BY Zenon DEF send_to_replicas, Without
  <2>2. \A c \in DOMAIN replicas : reach[c] \in 0 .. n
    BY Zenon
  <2> QED
    BY <2>1, <2>2
<1>5. ASSUME NEW c \in DOMAIN replicas \ ended
      PROVE  /\ down'[c] \in Seq(Items) /\ Len(down'[c]) = Len(down[c]) + reach[c]
             /\ \A i \in 1 .. Len(down[c]) : down'[c][i] = down[c][i]
             /\ \A i \in 1 .. reach[c] : /\ down'[c][Len(down[c]) + i].kind = kind
                                         /\ down'[c][Len(down[c]) + i].n = Len(stream) + i
  <2> DEFINE block == [i \in 1 .. reach[c] |-> Item(kind, Len(stream) + i)]
  <2>1. reach[c] \in Nat /\ down[c] \in Seq(Items)
    BY <1>1, <1>5
  <2>2. \A i \in 1 .. reach[c] :
          /\ Item(kind, Len(stream) + i) \in Items
          /\ Item(kind, Len(stream) + i).kind = kind /\ Item(kind, Len(stream) + i).n = Len(stream) + i
    BY <1>1, <2>1, ItemFacts DEF Kinds
  <2>3. /\ block \in Seq(Items) /\ Len(block) = reach[c]
        /\ \A i \in 1 .. reach[c] : block[i].kind = kind /\ block[i].n = Len(stream) + i
    BY SMTT(30), <2>1, <2>2
  <2>4. down'[c] = down[c] \o block
    BY Zenon, <1>1, <1>5 DEF send_to_replicas
  <2> HIDE DEF block
  <2>5. /\ down[c] \o block \in Seq(Items) /\ Len(down[c] \o block) = Len(down[c]) + Len(block)
        /\ \A i \in 1 .. Len(down[c]) : (down[c] \o block)[i] = down[c][i]
        /\ \A i \in 1 .. Len(block) : (down[c] \o block)[Len(down[c]) + i] = block[i]
    BY Zenon, <2>1, <2>3, Concatenated
  <2> QED
    BY Zenon, <2>3, <2>4, <2>5
<1>6. \A c \in Links \ (DOMAIN replicas \ ended) : down'[c] = down[c]
  BY Zenon DEF send_to_replicas
<1>7. down' \in [Links -> Seq(Items)]
  <2>1. \A c \in Links : down'[c] \in Seq(Items)
    BY Zenon, <1>1, <1>5, <1>6
  <2>2. down' = [c \in Links |-> down'[c]]
    BY Zenon DEF send_to_replicas
  <2> QED
    BY Zenon, <2>1, <2>2
<1>8. Kept
  BY Zenon DEF send_to_replicas, Stalls, Kept, IInv, Types
<1> QED
  BY Zenon, <1>1, <1>3, <1>4, <1>5, <1>6, <1>7, <1>8 DEF Sending

(* What is under way to a replica stays in order, with what it is sent. *)
LEMMA SendDown ==
  ASSUME NEW kind \in {"write", "getack"}, NEW n \in Nat, NEW reach \in [DOMAIN replicas -> 0 .. n],
         Sending(kind, n, reach), Types, NEW c \in Links, NEW l \in Nat, have[c] \in Nat, DownOK(c, l),
         UNCHANGED <<have, ended>>
  PROVE  DownOK(c, l)'
<1>1. Len(down[c]) \in Nat /\ Len(stream) \in Nat /\ Len(stream') = Len(stream) + n
  BY SMTT(30) DEF Types, Sending
<1>9. have[c] \in Int /\ Len(down[c]) \in Int /\ Len(stream) \in Int
  BY <1>1
<1>2. ASSUME NEW i \in l + 1 .. Len(down[c]), \A j \in l + 1 .. i : IsCommand(down[c][j])
      PROVE  /\ have[c] + i - l <= Len(stream') /\ down[c][i].n = have[c] + i - l
             /\ down[c][i].kind = stream'[have[c] + i - l]
  <2>1. /\ have[c] + i - l <= Len(stream) /\ down[c][i].n = have[c] + i - l
        /\ down[c][i].kind = stream[have[c] + i - l]
    BY Zenon, <1>2 DEF DownOK
  <2>2. have[c] + i - l \in 1 .. Len(stream) /\ have[c] + i - l <= Len(stream')
    BY SMTT(60), <1>1, <2>1
  <2> QED
    BY Zenon, <2>1, <2>2 DEF Sending
<1>3. CASE c \notin DOMAIN replicas \ ended
  <2>1. down'[c] = down[c] /\ ~(c \in DOMAIN replicas' /\ c \notin ended')
    BY Zenon, <1>3 DEF Sending
  <2> QED
    BY Zenon, <1>2, <2>1 DEF DownOK, IsCommand
<1>4. CASE c \in DOMAIN replicas \ ended
  <2>1. /\ reach[c] \in 0 .. n /\ Len(down'[c]) = Len(down[c]) + reach[c]
        /\ \A i \in 1 .. Len(down[c]) : down'[c][i] = down[c][i]
        /\ \A i \in 1 .. reach[c] : /\ down'[c][Len(down[c]) + i].kind = kind
                                    /\ down'[c][Len(down[c]) + i].n = Len(stream) + i
    <3>1. reach[c] \in 0 .. n
      BY Zenon, <1>4
    <3> QED
      BY Zenon, <1>4, <3>1 DEF Sending
  <2>2. ASSUME NEW i \in Int, i >= Len(down[c]), \A j \in l + 1 .. i : IsCommand(down'[c][j])
        PROVE  have[c] + Len(down[c]) - l = Len(stream)
    <3>1. \A j \in l + 1 .. Len(down[c]) : j \in l + 1 .. i /\ j \in 1 .. Len(down[c])
      BY SMTT(30), <1>1, <2>2
    <3>2. \A j \in l + 1 .. Len(down[c]) : IsCommand(down[c][j])
      BY Zenon, <2>1, <2>2, <3>1
    <3> QED
      BY Zenon, <1>4, <3>2 DEF DownOK
  <2>3. ASSUME NEW i \in l + 1 .. Len(down'[c]), \A j \in l + 1 .. i : IsCommand(down'[c][j])
        PROVE  /\ have[c] + i - l <= Len(stream') /\ down'[c][i].n = have[c] + i - l
               /\ down'[c][i].kind = stream'[have[c] + i - l]
    <3>1. CASE i <= Len(down[c])
      <4>1. i \in l + 1 .. Len(down[c]) /\ i \in 1 .. Len(down[c])
            /\ \A j \in l + 1 .. i : j \in 1 .. Len(down[c])
        BY SMTT(30), <1>1, <2>1, <2>3, <3>1
      <4>2. \A j \in l + 1 .. i : IsCommand(down[c][j])
        BY Zenon, <2>1, <2>3, <4>1
      <4> QED
        BY Zenon, <1>2, <2>1, <4>1, <4>2
    <3>2. CASE i > Len(down[c])
      <4>1. PICK k \in 1 .. reach[c] : i = Len(down[c]) + k
        <5>1. i - Len(down[c]) \in 1 .. reach[c] /\ i = Len(down[c]) + (i - Len(down[c]))
          BY SMTT(30), <1>1, <2>1, <2>3, <3>2
        <5> QED
          BY Zenon, <5>1
      <4>2. have[c] + Len(down[c]) - l = Len(stream)
        <5>1. i \in Int /\ i >= Len(down[c])
          BY SMTT(30), <1>1, <2>3, <3>2
        <5> QED
          BY Zenon, <2>2, <2>3, <5>1
      <4>3. have[c] + i - l = Len(stream) + k /\ k \in 1 .. n /\ Len(stream) + k <= Len(stream')
        <5>1. k \in 1 .. n
          BY <2>1
        <5>2. Len(stream) + k <= Len(stream')
          BY <1>1, <5>1
        <5>3. PICK h \in Int, d \in Int, m \in Int : h = have[c] /\ d = Len(down[c]) /\ m = Len(stream)
          BY Zenon, <1>9
        <5>4. h + d - l = m
          BY Zenon, <4>2, <5>3
        <5>5. h + (d + k) - l = m + k
          BY <5>4
        <5> QED
          BY Zenon, <4>1, <5>1, <5>2, <5>3, <5>5
      <4>4. stream'[Len(stream) + k] = kind
        BY Zenon, <4>3 DEF Sending
      <4> QED
        BY Zenon, <2>1, <4>1, <4>3, <4>4
    <3>3. i <= Len(down[c]) \/ i > Len(down[c])
      BY <1>1
    <3> QED
      BY Zenon, <3>1, <3>2, <3>3
  <2>4. ASSUME c \in DOMAIN replicas', \A j \in l + 1 .. Len(down'[c]) : IsCommand(down'[c][j])
        PROVE  have[c] + Len(down'[c]) - l = Len(stream')
    <3>1. reach[c] = n
      BY Zenon, <2>4 DEF Sending
    <3>2. Len(down'[c]) \in Int /\ Len(down'[c]) >= Len(down[c])
      BY <1>1, <2>1
    <3>3. have[c] + Len(down[c]) - l = Len(stream)
      BY Zenon, <2>2, <2>4, <3>2
    <3>4. PICK h \in Int, d \in Int, m \in Int : h = have[c] /\ d = Len(down[c]) /\ m = Len(stream)
      BY Zenon, <1>9
    <3>5. h + d - l = m
      BY Zenon, <3>3, <3>4
    <3>6. h + (d + n) - l = m + n
      BY <3>5
    <3> QED
      BY Zenon, <1>1, <2>1, <3>1, <3>4, <3>6
  <2>5. have' = have /\ ended' = ended
    BY Zenon
  <2> QED
    BY Zenon, <2>3, <2>4, <2>5 DEF DownOK, IsCommand
<1> QED
  BY Zenon, <1>3, <1>4

(* Propagation preserves the invariant: what cannot be sent to is dropped. *)
LEMMA SendInv ==
  ASSUME NEW kind \in {"write", "getack"}, NEW n \in Nat, NEW reach \in [DOMAIN replicas -> 0 .. n],
         IInv, Types', Sending(kind, n, reach), UNCHANGED <<links, ended, up, rep, history>>
  PROVE  IInv'
<1>1. UNCHANGED <<links, ended, up, rep, have, joined, applied>>
  BY Zenon DEF history
<1>2. DOMAIN replicas \subseteq 1 .. links /\ DOMAIN replicas \subseteq DOMAIN joined
  <2>1. DOMAIN replicas \subseteq 1 .. links /\ 1 .. links \subseteq Links
    BY SMTT(30), ReplicationAssumption DEF IInv, Types, Links
  <2> QED
    BY Zenon, <2>1 DEF IInv, ReplicaOK
<1>3. Len(stream) \in Nat /\ Len(stream') = Len(stream) + n /\ \A i \in 1 .. Len(stream) : stream'[i] = stream[i]
  BY Zenon DEF Sending
<1>4. Sessions'
  <2>1. Sessions
    BY Zenon DEF IInv
  <2> QED
    BY <1>1, <1>3, <2>1 DEF Sessions
<1>5. ASSUME NEW c \in DOMAIN joined PROVE Acked(c)' = Acked(c) /\ Writes(joined[c], have[c])' = Writes(joined[c], have[c])
  <2>1. joined[c] \in Nat /\ have[c] \in Nat /\ have[c] <= Len(stream)
    BY Zenon, <1>5 DEF IInv, Sessions
  <2>2. \A m \in joined[c] .. have[c] - 1 : m + 1 \in 1 .. Len(stream)
    <3>1. Len(stream) \in Nat
      BY Zenon, <1>3
    <3> QED
      BY SMTT(30), <2>1, <3>1
  <2>3. Acked(c)' = Acked(c)
    <3>1. \A m \in joined[c] .. have[c] - 1 : stream'[m + 1] = stream[m + 1]
      BY Zenon, <1>3, <2>2
    <3> QED
      BY Zenon, <1>1, <3>1 DEF Acked
  <2>4. \A m \in joined[c] + 1 .. have[c] : m \in 1 .. Len(stream) /\ m <= Len(stream) /\ m <= Len(stream')
    <3>1. \A m \in joined[c] + 1 .. have[c] : m \in 1 .. Len(stream) /\ m <= Len(stream) /\ m <= Len(stream) + n
      BY Zenon, <1>3, <2>1, Between
    <3> QED
      BY Zenon, <1>3, <3>1
  <2>5. Writes(joined[c], have[c])' = Writes(joined[c], have[c])
    <3>1. \A m \in joined[c] + 1 .. have[c] : stream'[m] = stream[m]
      BY Zenon, <1>3, <2>4
    <3> QED
      BY Zenon, <1>1, <2>4, <3>1 DEF Writes
  <2> QED
    BY Zenon, <2>3, <2>5
<1>6. ASSUME NEW c \in Links PROVE UpOK(c)' /\ ReplicaOK(c)' /\ AppliedOK(c)' /\ AloneOK(c)'
  <2>1. c > links => c \notin DOMAIN replicas
    BY <1>2 DEF IInv, Types, Links
  <2>2. UpOK(c)'
    <3>1. UpOK(c)
      BY Zenon DEF IInv
    <3>2. c > links => down'[c] = down[c]
      BY Zenon, <2>1 DEF Sending
    <3>3. c \in DOMAIN joined => Acked(c)' = Acked(c)
      BY Zenon, <1>5
    <3> QED
      BY Zenon, <1>1, <3>1, <3>2, <3>3 DEF UpOK
  <2>3. ReplicaOK(c)'
    BY Zenon, <1>1, <1>2, <1>5 DEF IInv, ReplicaOK, Sending
  <2>4. AppliedOK(c)'
    <3>1. AppliedOK(c)
      BY Zenon DEF IInv
    <3>2. c \in DOMAIN joined => Writes(joined[c], have[c])' = Writes(joined[c], have[c])
      BY Zenon, <1>5
    <3> QED
      BY Zenon, <1>1, <3>1, <3>2 DEF AppliedOK
  <2>5. AloneOK(c)'
    <3>1. AloneOK(c)
      BY Zenon DEF IInv
    <3>2. c \in ended => down'[c] = down[c]
      BY Zenon DEF Sending
    <3> QED
      BY Zenon, <1>1, <3>1, <3>2 DEF AloneOK
  <2> QED
    BY Zenon, <2>2, <2>3, <2>4, <2>5
<1>7. ASSUME NEW r \in Replicas PROVE ServerOK(r)'
  <2>1. rep' = rep /\ ServerOK(r)
    BY Zenon, <1>1 DEF IInv
  <2>2. CASE rep[r].link = 0
    BY Zenon, <2>1, <2>2 DEF ServerOK
  <2>3. CASE rep[r].link # 0
    <3>1. PICK c \in Links : c = rep[r].link /\ LinkOK(r, c)
      BY Zenon, <2>1, <2>3, LinkRange DEF IInv, ServerOK
    <3>2. c \notin DOMAIN joined => down'[c] = down[c]
      BY Zenon, <1>2 DEF Sending
    <3>3. c \in DOMAIN joined => have[c] \in Nat /\ have[c] <= Len(stream)
      BY Zenon DEF IInv, Sessions
    <3>4. Lead(rep[r].phase) \in Nat
      BY Zenon DEF Lead
    <3>5. c \in DOMAIN joined => DownOK(c, Lead(rep[r].phase)) /\ DownOK(c, Lead(rep[r].phase))'
      <4> SUFFICES ASSUME c \in DOMAIN joined
                   PROVE  DownOK(c, Lead(rep[r].phase)) /\ DownOK(c, Lead(rep[r].phase))'
        BY Zenon
      <4>1. PICK l \in Nat : l = Lead(rep[r].phase)
        BY Zenon, <3>4
      <4>2. DownOK(c, l)
        BY Zenon, <3>1, <4>1 DEF LinkOK
      <4>3. DownOK(c, l)'
        BY Zenon, <1>1, <3>3, <4>2, SendDown DEF IInv
      <4>4. l = Lead(rep'[r].phase)
        BY Zenon, <2>1, <4>1
      <4> QED
        BY Zenon, <4>1, <4>2, <4>3, <4>4
    <3>6. c \in DOMAIN joined /\ rep[r].phase = "psync" /\ down'[c] # <<>> => down'[c][1].n = have[c]
      <4> SUFFICES ASSUME c \in DOMAIN joined, rep[r].phase = "psync", down'[c] # <<>>
                   PROVE  down'[c][1].n = have[c]
        BY Zenon
      <4>1. down[c] \in Seq(Items) /\ (down[c] # <<>> => down[c][1].n = have[c])
        BY Zenon, <3>1 DEF LinkOK, IInv, Types
      <4>2. CASE c \notin DOMAIN replicas \ ended
        BY Zenon, <4>1, <4>2 DEF Sending
      <4>3. CASE c \in DOMAIN replicas \ ended
        <5>1. down[c] # <<>>
          <6> SUFFICES ASSUME down[c] = <<>> PROVE FALSE
            BY Zenon
          <6>1. Len(down[c]) = 0 /\ \A j \in 2 + 1 .. Len(down[c]) : FALSE
            OBVIOUS
          <6>2. DownOK(c, 2)
            BY Zenon, <3>5 DEF Lead
          <6>3. have[c] + Len(down[c]) - 2 = Len(stream)
            BY Zenon, <4>3, <6>1, <6>2 DEF DownOK
          <6> QED
            BY SMTT(30), <1>3, <3>3, <6>1, <6>3
        <5>2. 1 \in 1 .. Len(down[c])
          <6>1. down[c] \in Seq(Items)
            BY Zenon, <4>1
          <6>2. \A t \in Seq(Items) : t # <<>> => 1 \in 1 .. Len(t)
            OBVIOUS
          <6> QED
            BY Zenon, <5>1, <6>1, <6>2
        <5> QED
          BY Zenon, <4>1, <4>3, <5>1, <5>2 DEF Sending
      <4> QED
        BY Zenon, <4>2, <4>3
    <3>7. LinkOK(r, c)'
      BY Zenon, <1>1, <2>1, <3>1, <3>2, <3>5, <3>6 DEF LinkOK, Early
    <3> QED
      BY Zenon, <2>1, <2>3, <3>1, <3>7 DEF ServerOK
  <2> QED
    BY Zenon, <2>2, <2>3
<1> QED
  BY Zenon, <1>4, <1>6, <1>7 DEF IInv

(* A write, or a transaction of several. *)
LEMMA WriteInv ==
  ASSUME NEW cl \in Clients, IInv, Write(cl)
  PROVE  IInv'
<1>1. PICK n \in 1 .. MaxBatch : \E reach \in [DOMAIN replicas -> 0 .. n] :
        /\ send_to_replicas("write", n, reach) /\ offsets' = [offsets EXCEPT ![cl] = Len(stream')]
        /\ UNCHANGED <<clients, waiters, links, pending, ended, up, rep, history>>
  BY Zenon DEF Write
<1>2. PICK reach \in [DOMAIN replicas -> 0 .. n] :
        /\ send_to_replicas("write", n, reach) /\ offsets' = [offsets EXCEPT ![cl] = Len(stream')]
        /\ UNCHANGED <<clients, waiters, links, pending, ended, up, rep, history>>
  BY Zenon, <1>1
<1>3. n \in Nat
  OBVIOUS
<1>4. Sending("write", n, reach)
  BY Zenon, <1>2, <1>3, SendFacts
<1>5. Types'
  <2>1. Len(stream) \in Nat /\ Len(stream') \in Nat /\ Len(stream) <= Len(stream')
    <3>1. Len(stream) \in Nat /\ Len(stream') = Len(stream) + n
      BY Zenon, <1>4 DEF Sending
    <3> QED
      BY <1>3, <3>1
  <2>2. 0 .. Len(stream) \subseteq 0 .. Len(stream') /\ 1 .. Len(stream) \subseteq 1 .. Len(stream')
        /\ Len(stream') \in 0 .. Len(stream')
    BY <2>1
  <2>3. offsets' \in [Clients -> 0 .. Len(stream')]
    BY Zenon, <1>2, <2>2 DEF IInv, Types
  <2>4. \A w \in waiters' : w.target \in 0 .. w.at /\ w.at \in 1 .. Len(stream')
    BY Zenon, <1>2, <2>2 DEF IInv, Types
  <2> QED
    BY Zenon, <1>2, <1>4, <2>3, <2>4 DEF IInv, Types, Sending, Kept
<1> QED
  BY Zenon, <1>2, <1>3, <1>4, <1>5, SendInv

(* WAIT that waits, which propagates a GETACK. *)
LEMMA WaitBlocksInv ==
  ASSUME NEW cl \in Clients, IInv, WaitBlocks(cl)
  PROVE  IInv'
<1>1. PICK count \in Counts, timed \in BOOLEAN, reach \in [DOMAIN replicas -> 0 .. 1] :
        /\ send_to_replicas("getack", 1, reach)
        /\ waiters' = waiters \cup {[client |-> cl, count |-> count, target |-> offsets[cl],
                                     timed |-> timed, at |-> Len(stream')]}
        /\ UNCHANGED <<clients, offsets, links, pending, ended, up, rep, history>>
  BY Zenon DEF WaitBlocks
<1>2. Sending("getack", 1, reach)
  BY Zenon, <1>1, SendFacts
<1>3. Types'
  <2>1. Len(stream) \in Nat /\ Len(stream') \in Nat /\ Len(stream') = Len(stream) + 1
    <3>1. Len(stream) \in Nat /\ Len(stream') = Len(stream) + 1
      BY Zenon, <1>2 DEF Sending
    <3> QED
      BY <3>1
  <2>2. 0 .. Len(stream) \subseteq 0 .. Len(stream') /\ 1 .. Len(stream) \subseteq 1 .. Len(stream')
        /\ Len(stream') \in 1 .. Len(stream') /\ Len(stream') \in Nat
    BY <2>1
  <2>3. offsets[cl] \in 0 .. Len(stream) /\ offsets' \in [Clients -> 0 .. Len(stream')]
    BY Zenon, <1>1, <2>2 DEF IInv, Types
  <2>4. waiters' \subseteq Waiters /\ \A w \in waiters' : w.target \in 0 .. w.at /\ w.at \in 1 .. Len(stream')
    <3> DEFINE new == [client |-> cl, count |-> count, target |-> offsets[cl], timed |-> timed, at |-> Len(stream')]
    <3>1. new \in Waiters /\ new.target \in 0 .. new.at /\ new.at \in 1 .. Len(stream')
      BY SMTT(30), <2>1, <2>2, <2>3, ReplicationAssumption DEF Waiters
    <3>2. waiters \subseteq Waiters /\ \A w \in waiters : w.target \in 0 .. w.at /\ w.at \in 1 .. Len(stream')
      BY Zenon, <2>2 DEF IInv, Types
    <3>3. waiters' = waiters \cup {new}
      BY Zenon, <1>1
    <3> HIDE DEF new
    <3> QED
      BY Zenon, <3>1, <3>2, <3>3
  <2> QED
    BY Zenon, <1>1, <1>2, <2>3, <2>4 DEF IInv, Types, Sending, Kept
<1> QED
  BY Zenon, <1>1, <1>2, <1>3, SendInv

-------------------------------------------------------------------------------
(* Every step of the primary, the replicas and the faults preserves the    *)
(* invariant.                                                              *)
LEMMA NextInv == IInv /\ [Next]_vars => IInv'
<1> SUFFICES ASSUME IInv, [Next]_vars PROVE IInv'
  BY Zenon
<1>1. ASSUME NEW cl \in Clients, Write(cl) \/ WaitAnswered(cl) \/ WaitBlocks(cl) PROVE IInv'
  BY Zenon, <1>1, WriteInv, WaitAnsweredInv, WaitBlocksInv
<1>2. CASE Flip
  BY Zenon, <1>2, FlipInv
<1>3. ASSUME NEW c \in Links, Serve(c) \/ Break(c) PROVE IInv'
  <2>1. CASE Accept(c)
    BY Zenon, <2>1, AcceptInv
  <2>2. CASE Request(c)
    BY Zenon, <2>2, RequestInv
  <2>3. CASE ClientGone(c)
    <3>1. Kept
      BY Zenon, <2>3, BudgetKept DEF IInv, ClientGone
    <3> QED
      BY Zenon, <2>3, <3>1, CloseInv DEF ClientGone
  <2>4. CASE Break(c)
    BY Zenon, <2>4, BreakInv
  <2> QED
    BY Zenon, <1>3, <2>1, <2>2, <2>3, <2>4 DEF Serve
<1>4. ASSUME NEW expired \in SUBSET Timed, EndIteration(expired) PROVE IInv'
  BY Zenon, <1>4, EndIterationInv
<1>5. ASSUME NEW r \in Replicas, Start(r) \/ Run(r) \/ Die(r) PROVE IInv'
  BY Zenon, <1>5, StartInv, DieInv, ReadLineInv, ReadSnapshotInv, LinkGoneInv, LinkCommandInv DEF Run
<1>6. CASE UNCHANGED vars
  <2>1. Types'
    BY Zenon, <1>6 DEF IInv, Types, vars, network
  <2> QED
    BY Zenon, <1>6, <2>1, Quiet DEF vars, network
<1> QED
  BY Zenon, <1>1, <1>2, <1>3, <1>4, <1>5, <1>6 DEF Next

(* The invariant holds in every state. *)
THEOREM Invariance == Spec => []IInv
  BY InitInv, NextInv, PTL DEF Spec

(* The state of the primary, the links and the replicas keeps its type: a  *)
(* replica is a client, waiters wait for what was propagated, and no       *)
(* acknowledgement is ahead of the stream.                                 *)
THEOREM TypeCorrect == Spec => []TypeOK
<1>1. IInv => TypeOK
  <2> SUFFICES ASSUME IInv PROVE TypeOK
    BY Zenon
  <2>1. ASSUME NEW c \in DOMAIN replicas PROVE replicas[c] \in 0 .. Len(stream)
    <3>1. c \in Links /\ Len(stream) \in Nat
      BY SMTT(60), <2>1, ReplicationAssumption DEF IInv, Types, Links
    <3>2. c \in DOMAIN joined /\ replicas[c] \in {joined[c]} \cup Acked(c)
      BY Zenon, <2>1, <3>1 DEF IInv, ReplicaOK
    <3>3. joined[c] \in Nat /\ have[c] \in Nat /\ joined[c] <= have[c] /\ have[c] <= Len(stream)
      BY Zenon, <3>2 DEF IInv, Sessions
    <3> QED
      BY <3>1, <3>2, <3>3 DEF Acked
  <2>2. \A r \in Replicas : rep[r].link \in 0 .. links
    BY ReplicationAssumption DEF IInv, Types, Servers
  <2> QED
    BY Zenon, <2>1, <2>2 DEF IInv, Types, Sessions, TypeOK
<1> QED
  BY <1>1, Invariance, PTL

(* A replica executes exactly the writes propagated since it registered,   *)
(* in their order, whatever dies, breaks or cannot be sent to.             *)
THEOREM StreamApplied == Spec => []AppliesTheStream
<1>1. IInv => AppliesTheStream
  <2> SUFFICES ASSUME IInv, NEW c \in DOMAIN applied
               PROVE  /\ {applied[c][i] : i \in DOMAIN applied[c]} = Writes(joined[c], have[c])
                      /\ \A i, j \in DOMAIN applied[c] : i < j => applied[c][i] < applied[c][j]
    BY Zenon DEF AppliesTheStream
  <2>1. c \in DOMAIN joined /\ c \in Links
    BY ReplicationAssumption DEF IInv, Sessions, Types, Links
  <2> QED
    BY Zenon, <2>1 DEF IInv, AppliedOK
<1> QED
  BY <1>1, Invariance, PTL

(* What a replica acknowledges it has executed, up to a GETACK; and what   *)
(* the primary remembers of it is that or the offset at PSYNC.             *)
THEOREM AcksHonest == Spec => []AcksAreHonest
<1>1. IInv => AcksAreHonest
  <2> SUFFICES ASSUME IInv, NEW c \in Links
               PROVE  /\ c \in DOMAIN replicas => replicas[c] \in {joined[c]} \cup Acked(c)
                      /\ \A i \in DOMAIN up[c] :
                           up[c][i].kind = "ACK" => c \in DOMAIN have /\ up[c][i].n \in Acked(c)
    BY Zenon DEF AcksAreHonest
  <2>1. DOMAIN have = DOMAIN joined
    BY Zenon DEF IInv, Sessions
  <2> QED
    BY Zenon, <2>1 DEF IInv, ReplicaOK, UpOK, Asked
<1> QED
  BY <1>1, Invariance, PTL

(* The cardinality of ReplicatedLog is that of this module. *)
LEMMA SameCardinality == \A S : Log!Cardinality(S) = Cardinality(S)
  BY Zenon DEF Log!Cardinality, Cardinality

(* Steps that answer nothing and leave the stream and the sessions alone. *)
LEMMA Silent ==
  ASSUME UNCHANGED <<stream, have>>, answers' = {}
  PROVE  Log!Next
  BY Zenon DEF Log!Next, Log!Answer

(* Every step of Replication is one of ReplicatedLog, if no more replicas  *)
(* are counted than have what is waited for.                               *)
LEMMA StepImplements ==
  ASSUME IInv, [Next]_vars, \A t \in Nat : count_acked(t) <= Cardinality(Log!Having(t))
  PROVE  [Log!Next]_<<Len(stream), have, answers>>
<1>1. ASSUME NEW cl \in Clients, Write(cl) PROVE Log!Next
  <2>1. PICK n \in 1 .. MaxBatch : \E reach \in [DOMAIN replicas -> 0 .. n] : send_to_replicas("write", n, reach)
    BY Zenon, <1>1 DEF Write
  <2>2. n \in Nat /\ n > 0
    BY Zenon, ReplicationAssumption, Between
  <2>3. Len(stream') = Len(stream) + n /\ Len(stream) \in Nat
    <3>1. PICK reach \in [DOMAIN replicas -> 0 .. n] : send_to_replicas("write", n, reach)
      BY Zenon, <2>1
    <3>2. Sending("write", n, reach)
      BY Zenon, <2>2, <3>1, SendFacts
    <3> QED
      BY Zenon, <3>2 DEF Sending
  <2> QED
    <3>1. answers' = {} /\ have' = have
      BY Zenon, <1>1 DEF Write, history
    <3>2. Len(stream') \in Nat /\ Len(stream') > Len(stream)
      BY <2>2, <2>3
    <3> QED
      BY Zenon, <3>1, <3>2 DEF Log!Next, Log!Grow
<1>2. ASSUME NEW cl \in Clients, WaitBlocks(cl) PROVE Log!Next
  <2>1. PICK reach \in [DOMAIN replicas -> 0 .. 1] : send_to_replicas("getack", 1, reach)
    BY Zenon, <1>2 DEF WaitBlocks
  <2>2. Len(stream') = Len(stream) + 1 /\ Len(stream) \in Nat
    BY Zenon, <2>1, SendFacts DEF Sending
  <2> QED
    <3>1. answers' = {} /\ have' = have
      BY Zenon, <1>2 DEF WaitBlocks, history
    <3>2. Len(stream') \in Nat /\ Len(stream') > Len(stream)
      BY <2>2
    <3> QED
      BY Zenon, <3>1, <3>2 DEF Log!Next, Log!Grow
<1>3. ASSUME NEW cl \in Clients, WaitAnswered(cl) PROVE Log!Next
  <2>1. offsets[cl] \in Nat /\ offsets[cl] <= Len(stream)
    BY DEF IInv, Types
  <2>2. answers' = {<<count_acked(offsets[cl]), offsets[cl]>>} /\ UNCHANGED <<stream, have>>
    BY Zenon, <1>3 DEF WaitAnswered, history
  <2>3. count_acked(offsets[cl]) <= Cardinality(Log!Having(offsets[cl]))
    BY Zenon, <2>1
  <2>4. \A a \in answers' : a[2] <= Len(stream) /\ a[1] <= Cardinality(Log!Having(a[2]))
    BY <2>1, <2>2, <2>3
  <2>5. Len(stream') = Len(stream) /\ have' = have
    BY Zenon, <2>2
  <2> QED
    BY <2>4, <2>5, SameCardinality, Zenon DEF Log!Next, Log!Answer
<1>4. ASSUME NEW expired \in SUBSET Timed, EndIteration(expired) PROVE Log!Next
  <2>1. ASSUME NEW a \in answers' PROVE a[2] <= Len(stream) /\ a[1] <= Cardinality(Log!Having(a[2]))
    <3>1. PICK w \in waiters : a = <<count_acked(w.target), w.target>>
      BY Zenon, <1>4, <2>1 DEF EndIteration, Timed
    <3>2. w.target \in Nat /\ w.target <= Len(stream)
      BY SMTT(30) DEF IInv, Types
    <3>3. count_acked(w.target) <= Cardinality(Log!Having(w.target))
      BY Zenon, <3>2
    <3> QED
      BY Zenon, <3>1, <3>2, <3>3
  <2>2. UNCHANGED <<stream, have>>
    BY Zenon, <1>4 DEF EndIteration, history
  <2>3. Len(stream') = Len(stream) /\ have' = have
    BY Zenon, <2>2
  <2> QED
    BY <2>1, <2>3, SameCardinality, Zenon DEF Log!Next, Log!Answer
<1>5. CASE Flip
  BY Zenon, <1>5, Silent DEF Flip, history
<1>6. ASSUME NEW c \in Links, Request(c) PROVE Log!Next
  <2>1. UNCHANGED stream /\ answers' = {}
    BY Zenon, <1>6 DEF Request
  <2>2. CASE UNCHANGED have
    BY Zenon, <2>1, <2>2, Silent
  <2>3. CASE have' # have
    <3>1. Head(up[c]).kind = "PSYNC" /\ have' = Put(have, c, Len(stream)) /\ up[c] # <<>>
      BY Zenon, <1>6, <2>3 DEF Request, CloseClient, history
    <3>2. c \notin DOMAIN have
      BY Zenon, <3>1, Requested DEF IInv, Sessions
    <3> QED
      BY Zenon, <2>1, <3>1, <3>2 DEF Put, Log!Next, Log!Join
  <2> QED
    BY Zenon, <2>2, <2>3
<1>7. ASSUME NEW c \in Links, Accept(c) \/ ClientGone(c) \/ Break(c) PROVE Log!Next
  BY Zenon, <1>7, Silent DEF Accept, ClientGone, CloseClient, Break, history
<1>8. ASSUME NEW r \in Replicas, LinkCommand(r) PROVE Log!Next
  <2>1. PICK c \in Links : c = rep[r].link /\ LinkOK(r, c)
    BY Zenon, <1>8, LinkRange DEF LinkCommand, IInv, ServerOK
  <2>2. down[c] \in Seq(Items) /\ down[c] # <<>>
    BY Zenon, <1>8, <2>1 DEF LinkCommand, IInv, Types
  <2>3. Head(down[c]) = down[c][1]
    BY Zenon, <2>2, TailFacts
  <2>4. IsCommand(down[c][1]) /\ c \in DOMAIN joined /\ DownOK(c, 0)
    BY Zenon, <1>8, <2>1, <2>3 DEF LinkCommand, LinkOK, Lead, IsCommand
  <2>5. c \in DOMAIN have /\ have[c] \in Nat
    BY Zenon, <2>4 DEF IInv, Sessions
  <2>6. Types /\ Len(stream) \in Nat
    BY SMTT(30) DEF IInv, Types
  <2>7. have[c] + 1 <= Len(stream) /\ down[c][1].n = have[c] + 1
    BY Zenon, <2>2, <2>4, <2>5, <2>6, NextCommand
  <2>8. have' = [have EXCEPT ![c] = have[c] + 1] /\ answers' = {} /\ UNCHANGED stream
    BY Zenon, <1>8, <2>1, <2>3, <2>7 DEF LinkCommand
  <2>9. have[c] + 1 \in have[c] + 1 .. Len(stream)
    BY Zenon, <2>5, <2>6, <2>7, Between
  <2> QED
    BY Zenon, <2>5, <2>8, <2>9 DEF Log!Next, Log!Advance
<1>9. ASSUME NEW r \in Replicas,
             Start(r) \/ ReadLine(r) \/ ReadSnapshot(r) \/ LinkGone(r) \/ LinkError(r) \/ Die(r)
      PROVE  Log!Next
  BY Zenon, <1>9, Silent DEF Start, ReadLine, ReadSnapshot, LinkGone, LinkError, Die, history
<1>10. CASE UNCHANGED vars
  BY Zenon, <1>10 DEF vars, history
<1> QED
  BY Zenon, <1>1, <1>2, <1>3, <1>4, <1>5, <1>6, <1>7, <1>8, <1>9, <1>10 DEF Next, Serve, Run

-------------------------------------------------------------------------------
(* The library's theorems about finite sets, and the cardinality they are  *)
(* about.                                                                  *)
Sets == INSTANCE FiniteSetTheorems

(* Its Cardinality is the one this module counts with. *)
LEMMA SetsCardinality == \A S : Sets!Cardinality(S) = Cardinality(S)
  BY Zenon DEF Sets!Cardinality, Cardinality

(* No more replicas are counted than have what is waited for. *)
LEMMA CountIsSafe ==
  ASSUME IInv, NEW t \in Nat
  PROVE  count_acked(t) <= Cardinality(Log!Having(t))
<1>1. \A c \in DOMAIN replicas : c \in DOMAIN have /\ (replicas[c] >= t => have[c] >= t)
  <2> TAKE c \in DOMAIN replicas
  <2>1. c \in Links
    BY SMTT(30), ReplicationAssumption DEF IInv, Types, Links
  <2>2. c \in DOMAIN joined /\ replicas[c] \in {joined[c]} \cup Acked(c)
    BY Zenon, <2>1 DEF IInv, ReplicaOK
  <2>3. DOMAIN have = DOMAIN joined /\ joined[c] \in Nat /\ have[c] \in Nat /\ joined[c] <= have[c]
    BY Zenon, <2>2 DEF IInv, Sessions
  <2> QED
    BY <2>2, <2>3 DEF Acked
<1>2. {c \in DOMAIN replicas : replicas[c] >= t} \subseteq Log!Having(t)
  BY Zenon, <1>1 DEF Log!Having
<1>3. Sets!IsFiniteSet(Log!Having(t))
  <2>1. Log!Having(t) \subseteq 1 .. links /\ links \in Int /\ 1 \in Int
    BY SMTT(30), ReplicationAssumption DEF IInv, Sessions, Types, Log!Having
  <2>2. Sets!IsFiniteSet(1 .. links)
    BY Zenon, <2>1, Sets!FS_Interval
  <2> QED
    BY Zenon, <2>1, <2>2, Sets!FS_Subset
<1> QED
  BY Zenon, <1>2, <1>3, Sets!FS_Subset, SetsCardinality DEF count_acked

(* Replication implements ReplicatedLog: sessions start at the end of the  *)
(* log and never fall back, and no answer to WAIT counts a replica that is *)
(* behind.                                                                 *)
THEOREM LogImplemented == Spec => ImplementsLog
<1>1. Init => Log!Init
  BY Zenon DEF Init, Log!Init
<1>2. ASSUME IInv, [Next]_vars PROVE [Log!Next]_<<Len(stream), have, answers>>
  BY Zenon, <1>2, CountIsSafe, StepImplements
<1> QED
  BY <1>1, <1>2, Invariance, PTL DEF Spec, ImplementsLog, Log!Spec

===============================================================================
