--------------------------- MODULE SortedSetMachine ---------------------------
(***************************************************************************)
(* One sorted set under ZADD, GEOADD and ZREM with several entries each.   *)
(* Here the handlers' loops are written out entry by entry, as in          *)
(* sorted_sets.cpp and geospatial.cpp, and compared with the closed forms  *)
(* of SortedSets that Store uses; and the readers are compared with one    *)
(* another.                                                                *)
(***************************************************************************)
EXTENDS Geospatial

CONSTANTS Members, Scores,
          MaxEntries,  \* the number of entries of one command
          Searches     \* lists of options of GEOSEARCH

ASSUME MachineAssumption == Members \subseteq Int /\ Scores \subseteq Int /\ MaxEntries \in Nat

VARIABLE z

Lists(S) == UNION {[1 .. n -> S] : n \in 1 .. MaxEntries}

EntryLists == Lists(Scores \X Members)

(* handle_zadd, lines 92-94: [set, added]. *)
ZaddLoop(set, entries) ==
  LET after[i \in 0 .. Len(entries)] ==
        IF i = 0 THEN [set |-> set, added |-> 0]
        ELSE LET b == after[i - 1]
                 e == entries[i]
             IN  [set   |-> add(b.set, e[1], e[2]),
                  added |-> IF e[2] \in DOMAIN b.set.scores THEN b.added ELSE b.added + 1]
  IN  after[Len(entries)]

(* handle_geoadd, lines 194-205. *)
GeoaddLoop(set, entries, nx, xx, ch) ==
  LET after[i \in 0 .. Len(entries)] ==
        IF i = 0 THEN [set |-> set, added |-> 0, changed |-> 0]
        ELSE LET b       == after[i - 1]
                 e       == entries[i]
                 present == e[2] \in DOMAIN b.set.scores
             IN  IF \/ nx /\ present
                    \/ xx /\ ~present
                    \/ present /\ b.set.scores[e[2]] = e[1]
                 THEN b
                 ELSE [set     |-> add(b.set, e[1], e[2]),
                       added   |-> IF present THEN b.added ELSE b.added + 1,
                       changed |-> b.changed + 1]
      end == after[Len(entries)]
  IN  [set |-> end.set, added |-> IF ch THEN end.changed ELSE end.added]

(* handle_zrem, lines 209-216. *)
ZremLoop(set, members) ==
  LET after[i \in 0 .. Len(members)] ==
        IF i = 0 THEN [set |-> set, removed |-> 0]
        ELSE LET b == after[i - 1]
                 m == members[i]
             IN  IF m \notin DOMAIN b.set.scores THEN b
                 ELSE [set |-> [scores  |-> [x \in DOMAIN b.set.scores \ {m} |-> b.set.scores[x]],
                                ordered |-> b.set.ordered \ {<<b.set.scores[m], m>>}],
                       removed |-> b.removed + 1]
  IN  after[Len(members)]

Init == z = EmptySet

Zadds == \E entries \in EntryLists : z' = ZaddLoop(z, entries).set

Geoadds ==
  \E entries \in EntryLists, nx, xx \in BOOLEAN :
    ~(nx /\ xx) /\ z' = GeoaddLoop(z, entries, nx, xx, FALSE).set

Zrems == \E members \in Lists(Members) : z' = ZremLoop(z, members).set

Next == Zadds \/ Geoadds \/ Zrems

Spec == Init /\ [][Next]_z

-------------------------------------------------------------------------------

(* The loops do what the closed forms say, in their effect and in the      *)
(* number they answer: which of several scores of a member stays depends   *)
(* on NX, and CH counts a member each time it moves (geospatial.cpp:195).  *)
LoopsHaveTheClosedForms ==
  /\ \A entries \in EntryLists :
       /\ ZaddLoop(z, entries) = Zadd(z, entries)
       /\ \A nx, xx, ch \in BOOLEAN :
            ~(nx /\ xx) => GeoaddLoop(z, entries, nx, xx, ch) = Geoadd(z, entries, nx, xx, ch)
  /\ \A members \in Lists(Members) : ZremLoop(z, members) = Zrem(z, members)

(* ZRANGE 0 -1 lists every member once, in the order of score then name,   *)
(* ZRANK is its position there, and a range with any bounds is that part   *)
(* of the whole: ZRANGE reads ordered, ZRANK goes through scores first     *)
(* (sorted_sets.cpp:109-114, 139-160).                                     *)
RanksMatchRanges ==
  LET all  == Zrange(z, 0, -1)
      n    == Cardinality(DOMAIN z.scores)
      at(i) == IF i < 0 THEN i + n ELSE i
  IN  /\ Len(all) = n
      /\ \A m \in DOMAIN z.scores : all[Zrank(z, m) + 1] = m
      /\ \A i, j \in 1 .. n : i < j => PairLess(<<z.scores[all[i]], all[i]>>,
                                                <<z.scores[all[j]], all[j]>>)
      /\ \A start, stop \in -(n + 1) .. n + 1 :
           LET range == Zrange(z, start, stop)
               named == {i \in 0 .. n - 1 : at(start) <= i /\ i <= at(stop)}
           IN  /\ Len(range) = Cardinality(named)
               /\ \A i \in 1 .. Len(range) :
                    range[i] = all[(IF at(start) < 0 THEN 0 ELSE at(start)) + i]

(* A member added by GEOADD is found by GEOPOS at most half a cell away on *)
(* each axis, up to the ends of the range, and adding it again where       *)
(* GEOPOS found it changes nothing (geospatial.cpp:66-98, 183).  At the    *)
(* greatest longitude alone a score has one bit more than a double: the    *)
(* conversion takes a latitude in a cell with an odd number for one in the *)
(* cell below it.                                                          *)
PositionsComeBack ==
  \A m \in Members, p \in Point :
    LET after == GeoaddLoop(z, << <<ScoreAt(p), m>> >>, FALSE, FALSE, FALSE).set
        close(x, y) == x - y <= Fine \div 2 /\ y - x <= Fine \div 2
        odd  == (p.latitude \div Fine) % 2 = 1
        kept == IF p.longitude = Span /\ odd THEN p.latitude - Fine ELSE p.latitude
    IN  \E found \in Geopos(after, <<m>>)[1] :
          /\ close(found.longitude, p.longitude) /\ close(found.latitude, kept)
          /\ GeoaddLoop(after, << <<ScoreAt(found), m>> >>, FALSE, FALSE, TRUE)
               = [set |-> after, added |-> 0]

(* What a list of options asks for, whatever their order. *)
Asked(options, name) == {o \in {options[i] : i \in DOMAIN options} : o.name = name}
Argument(options, name, default) ==
  IF Asked(options, name) = {} THEN default ELSE (CHOOSE o \in Asked(options, name) : TRUE).arg

(* The members in the radius of a centre, given how far they are from it. *)
Inside(options, far(_)) ==
  LET o == CHOOSE o \in Asked(options, "BYRADIUS") : TRUE
  IN  {m \in Located(z) : far(m) <= o.arg * o.unit}

(* What GEOSEARCH may answer around a centre: members in the radius, each  *)
(* once, as many as there are or as COUNT allows; in the order asked for,  *)
(* where those as far as one another keep the order of the set; and none   *)
(* left out that comes before one of them, in the order of the set if ANY  *)
(* is given.                                                               *)
Answers(options, far(_), found) ==
  LET inside == Inside(options, far)
      count  == Argument(options, "COUNT", 0)
      any    == Asked(options, "ANY") # {}
      way    == IF Asked(options, "DESC") # {} THEN -1
                ELSE IF Asked(options, "ASC") # {} \/ (count > 0 /\ ~any) THEN 1 ELSE 0
      earlier(m, n) == PairLess(<<z.scores[m], m>>, <<z.scores[n], n>>)
      before(m, n)  == way * far(m) < way * far(n) \/ (way * far(m) = way * far(n) /\ earlier(m, n))
      members == {found[i] : i \in DOMAIN found}
      least(a, b) == IF a < b THEN a ELSE b
  IN  /\ members \subseteq inside /\ Cardinality(members) = Len(found)
      /\ Len(found) = IF count = 0 THEN Cardinality(inside) ELSE least(count, Cardinality(inside))
      /\ \A i, j \in DOMAIN found : i < j => before(found[i], found[j])
      /\ \A m \in inside \ members, n \in members : IF any THEN earlier(n, m) ELSE before(n, m)

(* GEOSEARCH answers what its options, none given twice, ask for in        *)
(* whatever order they come, and is refused if they name no centre or two, *)
(* no radius, ANY without COUNT, or a member without a position            *)
(* (geospatial.cpp:276-384).  Around a member, how far another is from it  *)
(* is what GEODIST answers (geospatial.cpp:231-259).                       *)
SearchesAreExact ==
  \A options \in Searches :
    LET points  == {o.arg : o \in Asked(options, "FROMLONLAT")}
        members == {o.arg : o \in Asked(options, "FROMMEMBER")}
        result  == Geosearch(z, options)
        sound   == /\ Cardinality(points) + Cardinality(members) = 1 /\ Asked(options, "BYRADIUS") # {}
                   /\ Asked(options, "ANY") # {} => Asked(options, "COUNT") # {}
    IN  IF ~sound THEN ~result.ok
        ELSE IF DOMAIN z.scores = {} THEN result = Found(TRUE, <<>>)
        ELSE IF members \cap Located(z) # members THEN ~result.ok
        ELSE /\ result.ok
             /\ \A p \in points :
                  Answers(options, LAMBDA m : Distance(p, PointOf(z, m)), result.members)
             /\ \A c \in members :
                  Answers(options, LAMBDA m : CHOOSE d \in Geodist(z, c, m) : TRUE, result.members)

===============================================================================
