----------------------------- MODULE ReplicatedLog -----------------------------
(***************************************************************************)
(* What replication and WAIT promise: a log that only grows, sessions of   *)
(* replicas that start at its end and move towards it without going back,  *)
(* and answers to WAIT that never count a session that is behind.          *)
(***************************************************************************)
EXTENDS Integers, FiniteSets

CONSTANT Sessions   \* the connections of replicas

VARIABLES length,   \* the number of commands propagated
          have,     \* how far each session has come, a map on those that started
          answers   \* the answers to WAIT the last step gave:
                    \* <<number of replicas, target offset>>

Init == length = 0 /\ have = [c \in {} |-> 0] /\ answers = {}

Grow == length' \in Nat /\ length' > length /\ answers' = {} /\ UNCHANGED have

Join(c) ==
  /\ c \notin DOMAIN have
  /\ have' = [d \in DOMAIN have \cup {c} |-> IF d = c THEN length ELSE have[d]]
  /\ answers' = {} /\ UNCHANGED length

Advance(c) ==
  /\ c \in DOMAIN have
  /\ \E n \in have[c] + 1 .. length : have' = [have EXCEPT ![c] = n]
  /\ answers' = {} /\ UNCHANGED length

(* The sessions that have what was propagated up to an offset, because     *)
(* they executed it or because they started later.                         *)
Having(target) == {c \in DOMAIN have : have[c] >= target}

Answer ==
  /\ \A a \in answers' : a[2] <= length /\ a[1] <= Cardinality(Having(a[2]))
  /\ UNCHANGED <<length, have>>

Next == Grow \/ (\E c \in Sessions : Join(c) \/ Advance(c)) \/ Answer

Spec == Init /\ [][Next]_<<length, have, answers>>

===============================================================================
