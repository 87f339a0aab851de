------------------------------ MODULE Geospatial ------------------------------
(***************************************************************************)
(* src/store/geospatial.cpp on one sorted set: how coordinates become      *)
(* scores and scores coordinates again, GEOPOS, GEODIST and GEOSEARCH.     *)
(*                                                                         *)
(* The doubles of the code are scaled to integers: a longitude or latitude *)
(* is a number from 0 to Span, the distance from its least value, Fine of  *)
(* them to a cell.  A score is rounded to a double, whose mantissa is      *)
(* scaled with the grid.  What the haversine formula computes is a         *)
(* constant.                                                               *)
(***************************************************************************)
EXTENDS SortedSets

CONSTANTS GridBits,        \* 2^GridBits cells to each axis, 26 in the code
          DecodeBits,      \* bits to an axis when a score is decoded, 32 in the code
          Fine,            \* coordinates to a cell
          Distance(_, _)   \* of two points, in metres

ASSUME GeoAssumption ==
  /\ GridBits \in Nat /\ DecodeBits \in Nat /\ GridBits < DecodeBits
  /\ Fine \in Nat \ {0} /\ Fine % 2 = 0

Span  == 2 ^ GridBits * Fine
Point == [longitude : 0 .. Span, latitude : 0 .. Span]

BitAt(n, i) == (n \div 2 ^ i) % 2

(* Mutant of encode_coordinates: no bit for the cell past the last. *)
EncodeShort(point) ==
  LET cell(x) == x \div Fine
      score[n \in 0 .. GridBits] ==
        IF n = 0 THEN 0
        ELSE score[n - 1] + BitAt(cell(point.longitude), n - 1) * 2 ^ (2 * n - 1)
                          + BitAt(cell(point.latitude), n - 1) * 2 ^ (2 * n - 2)
  IN  score[GridBits]

(* The greatest coordinate is in a cell of its own, which takes one bit    *)
(* more than the others.                                                   *)
encode_coordinates(point) ==
  LET cell(x) == x \div Fine
      score[n \in 0 .. GridBits + 1] ==
        IF n = 0 THEN 0
        ELSE score[n - 1] + BitAt(cell(point.longitude), n - 1) * 2 ^ (2 * n - 1)
                          + BitAt(cell(point.latitude), n - 1) * 2 ^ (2 * n - 2)
  IN  score[GridBits + 1]

(* The bits of the mantissa of a double: 53 where GridBits is 26. *)
DoubleBits == 2 * GridBits + 1

(* The conversion of an integer below 2^(DoubleBits + 1) to a double: from *)
(* 2^DoubleBits on only even numbers are doubles, and an odd number goes   *)
(* to the one of its neighbours that is a multiple of four.                *)
AsDouble(n) ==
  IF n < 2 ^ DoubleBits \/ n % 2 = 0 THEN n
  ELSE IF (n - 1) % 4 = 0 THEN n - 1 ELSE n + 1

(* The score GEOADD gives to a member at a point. *)
ScoreAt(point) == AsDouble(encode_coordinates(point))

(* The middle of a cell, within the range. *)
Middle(cell) == LET x == cell * Fine + Fine \div 2 IN IF x > Span THEN Span ELSE x

Decodable(score) == score >= 0 /\ score < 2 ^ (2 * DecodeBits - 1)

decode_coordinates(score) ==
  LET cell(offset) ==
        LET sum[n \in 0 .. DecodeBits] ==
              IF n = 0 THEN 0 ELSE sum[n - 1] + BitAt(score, 2 * (n - 1) + offset) * 2 ^ (n - 1)
        IN  sum[DecodeBits]
  IN  [longitude |-> Middle(cell(1)), latitude |-> Middle(cell(0))]

-------------------------------------------------------------------------------
(* The members the set has whose score is that of a point. *)
Located(z) == {m \in DOMAIN z.scores : Decodable(z.scores[m])}
PointOf(z, m) == decode_coordinates(z.scores[m])

(* The positions of the members named, or none: sets of at most one point. *)
Geopos(z, members) ==
  [i \in DOMAIN members |-> IF members[i] \in Located(z) THEN {PointOf(z, members[i])} ELSE {}]

(* The distance of two members in metres, of which the reply is the part   *)
(* in some unit; a set of at most one number.                              *)
Geodist(z, first, second) ==
  IF {first, second} \subseteq Located(z)
  THEN {Distance(PointOf(z, first), PointOf(z, second))} ELSE {}

-------------------------------------------------------------------------------
(* GEOSEARCH.  Its options are records of a name and, where the name takes *)
(* one, an argument.  The options WITH... are left out.                    *)

NoQuery == [ok |-> TRUE, center |-> {}, from_member |-> {}, radius |-> {}, unit |-> 1,
            sort |-> 0, count |-> 0, any |-> FALSE]
Refused == [ok |-> FALSE]

(* One turn of the loop over the options. *)
Option(q, o) ==
  CASE o.name = "FROMLONLAT" /\ q.from_member = {} ->
         IF o.arg \in Point THEN [q EXCEPT !.center = {o.arg}] ELSE Refused
    [] o.name = "FROMMEMBER" /\ q.center = {} -> [q EXCEPT !.from_member = {o.arg}]
    [] o.name = "BYRADIUS" ->
         IF o.arg >= 0 /\ o.unit > 0 THEN [q EXCEPT !.radius = {o.arg}, !.unit = o.unit] ELSE Refused
    [] o.name = "ASC"   -> [q EXCEPT !.sort = 1]
    [] o.name = "DESC"  -> [q EXCEPT !.sort = -1]
    [] o.name = "COUNT" -> IF o.arg > 0 THEN [q EXCEPT !.count = o.arg] ELSE Refused
    [] o.name = "ANY"   -> [q EXCEPT !.any = TRUE]
    [] OTHER -> Refused

Query(options) ==
  LET after[i \in 0 .. Len(options)] ==
        IF i = 0 THEN NoQuery
        ELSE IF after[i - 1].ok THEN Option(after[i - 1], options[i]) ELSE Refused
      q == after[Len(options)]
  IN  IF /\ q.ok
         /\ q.center \cup q.from_member # {} /\ q.radius # {} /\ ~(q.any /\ q.count = 0)
      THEN q ELSE Refused

(* std::stable_sort by a number each element has: equal ones keep their order. *)
StableSort(seq, number) ==
  LET at(i) == number[seq[i]]
      before(j, i) == at(j) < at(i) \/ (j < i /\ at(j) = at(i))
      rank(i) == Cardinality({j \in DOMAIN seq : before(j, i)})
  IN  [k \in DOMAIN seq |-> seq[CHOOSE i \in DOMAIN seq : rank(i) = k - 1]]

Cut(seq, n) == IF Len(seq) > n THEN SubSeq(seq, 1, n) ELSE seq

(* Mutant of Matches: a search with COUNT sorts what it has cut. *)
MatchesCutFirst(z, q, center) ==
  LET far(m)     == Distance(center, PointOf(z, m))
      inside(m)  == m \in Located(z) /\ far(m) <= (CHOOSE r \in q.radius : TRUE) * q.unit
      all        == SelectSeq(Zrange(z, 0, -1), inside)
      found      == IF q.count > 0 THEN Cut(all, q.count) ELSE all
      nearer     == [m \in Located(z) |-> far(m)]
      farther    == [m \in Located(z) |-> -far(m)]
  IN  IF q.sort = 1 \/ (q.sort = 0 /\ q.count > 0 /\ ~q.any) THEN StableSort(found, nearer)
      ELSE IF q.sort = -1 THEN StableSort(found, farther) ELSE found

(* The scan in the order of the scores, which ANY ends once it has enough; *)
(* the sort, which COUNT without ANY implies; the cut.                     *)
Matches(z, q, center) ==
  LET far(m)     == Distance(center, PointOf(z, m))
      inside(m)  == m \in Located(z) /\ far(m) <= (CHOOSE r \in q.radius : TRUE) * q.unit
      all        == SelectSeq(Zrange(z, 0, -1), inside)
      found      == IF q.any THEN Cut(all, q.count) ELSE all
      nearer     == [m \in Located(z) |-> far(m)]
      farther    == [m \in Located(z) |-> -far(m)]
      sorted     == IF q.sort = 1 \/ (q.sort = 0 /\ q.count > 0 /\ ~q.any) THEN StableSort(found, nearer)
                    ELSE IF q.sort = -1 THEN StableSort(found, farther) ELSE found
  IN  IF q.count > 0 THEN Cut(sorted, q.count) ELSE sorted

(* What a search comes to: whether it is answered, and with which members. *)
Found(ok, members) == [ok |-> ok, members |-> members]

(* A key that holds no set is the empty set here. *)
Search(z, q) ==
  IF ~q.ok THEN Found(FALSE, <<>>)
  ELSE IF z = EmptySet THEN Found(TRUE, <<>>)
  ELSE LET center == q.center \cup {PointOf(z, m) : m \in q.from_member \cap Located(z)}
       IN  IF center = {} THEN Found(FALSE, <<>>)
           ELSE Found(TRUE, Matches(z, q, CHOOSE c \in center : TRUE))

Geosearch(z, options) == Search(z, Query(options))

===============================================================================
