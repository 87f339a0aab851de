------------------------------ MODULE SortedSets ------------------------------
(***************************************************************************)
(* struct SortedSet and what the sorted-set commands do to one             *)
(* (src/store/sorted_sets.cpp, and GEOADD of src/store/geospatial.cpp,     *)
(* whose coordinates arrive here as the score they are encoded to).        *)
(* A sorted set keeps every score twice: by member in scores, and in the   *)
(* pairs <<score, member>> of ordered.                                     *)
(***************************************************************************)
EXTENDS Integers, Sequences, FiniteSets

EmptySet == [scores |-> [m \in {} |-> 0], ordered |-> {}]

(* SortedSet::add *)
add(z, score, member) ==
  LET present == member \in DOMAIN z.scores
      old     == IF present THEN {<<z.scores[member], member>>} ELSE {}
  IN  [scores  |-> [m \in DOMAIN z.scores \cup {member} |->
                      IF m = member THEN score ELSE z.scores[m]],
       ordered |-> (z.ordered \ old) \cup {<<score, member>>}]

(* Mutant of AddScores: the old pairs stay in ordered. *)
AddScoresWithoutErase(z, new) ==
  [scores  |-> [m \in DOMAIN z.scores \cup DOMAIN new |->
                  IF m \in DOMAIN new THEN new[m] ELSE z.scores[m]],
   ordered |-> z.ordered \cup {<<new[m], m>> : m \in DOMAIN new}]

(* What adding the scores of the map new leaves, each by one add. *)
AddScores(z, new) ==
  LET named == DOMAIN new
      old   == {<<z.scores[m], m>> : m \in named \cap DOMAIN z.scores}
  IN  [scores  |-> [m \in DOMAIN z.scores \cup named |->
                      IF m \in named THEN new[m] ELSE z.scores[m]],
       ordered |-> (z.ordered \ old) \cup {<<new[m], m>> : m \in named}]

(* entries: the sequence of pairs <<score, member>> a command names. *)
Named(entries) == {entries[i][2] : i \in DOMAIN entries}

LastScore(entries, m) ==
  entries[CHOOSE i \in DOMAIN entries :
            /\ entries[i][2] = m
            /\ \A j \in DOMAIN entries : entries[j][2] = m => j <= i][1]

FirstScore(entries, m) ==
  entries[CHOOSE i \in DOMAIN entries :
            /\ entries[i][2] = m
            /\ \A j \in DOMAIN entries : entries[j][2] = m => i <= j][1]

(* Mutant of Zadd: the first score of a member named twice stays. *)
ZaddFirst(z, entries) ==
  [set   |-> AddScores(z, [m \in Named(entries) |-> FirstScore(entries, m)]),
   added |-> Cardinality(Named(entries) \ DOMAIN z.scores)]

(* The loop of handle_zadd: the last score of a member stays. *)
Zadd(z, entries) ==
  [set   |-> AddScores(z, [m \in Named(entries) |-> LastScore(entries, m)]),
   added |-> Cardinality(Named(entries) \ DOMAIN z.scores)]

(* The loop of handle_geoadd.  NX passes over members the set has, so the  *)
(* first score of a new member stays; XX passes over members it has not;   *)
(* an entry that would not move its member counts as no change.            *)
Geoadd(z, entries, nx, xx, ch) ==
  LET present  == DOMAIN z.scores
      chosen   == IF nx THEN Named(entries) \ present
                  ELSE IF xx THEN Named(entries) \cap present ELSE Named(entries)
      new      == [m \in chosen |-> IF nx THEN FirstScore(entries, m)
                                          ELSE LastScore(entries, m)]
      earlier(i) == {j \in 1 .. i - 1 : entries[j][2] = entries[i][2]}
      moved(i) ==
        /\ entries[i][2] \in chosen
        /\ IF earlier(i) # {}
           THEN ~nx /\ LastScore(SubSeq(entries, 1, i - 1), entries[i][2]) # entries[i][1]
           ELSE entries[i][2] \in present => z.scores[entries[i][2]] # entries[i][1]
  IN  [set   |-> AddScores(z, new),
       added |-> IF ch THEN Cardinality({i \in DOMAIN entries : moved(i)})
                       ELSE Cardinality(chosen \ present)]

(* The loop of handle_zrem. *)
Zrem(z, members) ==
  LET gone == {members[i] : i \in DOMAIN members} \cap DOMAIN z.scores
  IN  [set     |-> [scores  |-> [m \in DOMAIN z.scores \ gone |-> z.scores[m]],
                    ordered |-> z.ordered \ {<<z.scores[m], m>> : m \in gone}],
       removed |-> Cardinality(gone)]

-------------------------------------------------------------------------------

(* The order of std::pair<double, std::string>. *)
PairLess(p, q) == p[1] < q[1] \/ (p[1] = q[1] /\ p[2] < q[2])

(* std::distance(begin, find(p)); find answers the end when p is missing. *)
Position(z, p) ==
  IF p \in z.ordered THEN Cardinality({q \in z.ordered : PairLess(q, p)})
                     ELSE Cardinality(z.ordered)

Zrank(z, member) == Position(z, <<z.scores[member], member>>)

(* Mutant of Zrange: the last position is left out. *)
ZrangeExclusive(z, start, stop) ==
  LET size    == Cardinality(z.ordered)
      from(i) == IF i < 0 THEN i + size ELSE i
      first   == IF from(start) < 0 THEN 0 ELSE from(start)
      last    == IF from(stop) > size - 1 THEN size - 1 ELSE from(stop)
      at(i)   == CHOOSE p \in z.ordered : Position(z, p) = i
  IN  IF first > last THEN <<>> ELSE [i \in 1 .. last - first |-> at(first + i - 1)[2]]

(* The members at the positions start .. stop, in order. *)
Zrange(z, start, stop) ==
  LET size    == Cardinality(z.ordered)
      from(i) == IF i < 0 THEN i + size ELSE i
      first   == IF from(start) < 0 THEN 0 ELSE from(start)
      last    == IF from(stop) > size - 1 THEN size - 1 ELSE from(stop)
      at(i)   == CHOOSE p \in z.ordered : Position(z, p) = i
  IN  IF first > last THEN <<>>
      ELSE [i \in 1 .. last - first + 1 |-> at(first + i - 1)[2]]

===============================================================================
