----------------------------- MODULE MCSortedSets -----------------------------
(***************************************************************************)
(* Three members, four scores, commands of up to three entries.  Of the    *)
(* scores, -1 is that of no point, 6 that of a point on the upper edge of  *)
(* the map and 12 that of its corner.                                      *)
(***************************************************************************)
EXTENDS SortedSetMachine

MCScores == {-1, 1, 6, 12}

(* The way along the two axes; longitudes meet at the ends of the range. *)
MCDistance(p, q) ==
  LET gap(x, y) == IF x < y THEN y - x ELSE x - y
      east == gap(p.longitude, q.longitude)
  IN  gap(p.latitude, q.latitude) + (IF 2 * east > Span THEN Span - east ELSE east)

Plain(name)    == [name |-> name]
With(name, x)  == [name |-> name, arg |-> x]
Radius(r, u)   == [name |-> "BYRADIUS", arg |-> r, unit |-> u]

Centers ==
  {With("FROMLONLAT", [longitude |-> x, latitude |-> y]) : x \in {0, Span}, y \in {0, Span - 1}}
    \cup {With("FROMMEMBER", m) : m \in Members}

Ends == { <<>>, <<Plain("ASC")>>, <<Plain("DESC")>> }
          \cup {<<With("COUNT", n)>> : n \in 1 .. 2}
          \cup {<<Plain("DESC"), With("COUNT", n)>> : n \in 1 .. 2}
          \cup {<<Plain("ANY"), With("COUNT", 2)>>, <<With("COUNT", 1), Plain("ASC"), Plain("ANY")>>}

(* Searches that are whole, in two orders, and some that are not. *)
MCSearches ==
  {<<c, r>> \o e : c \in Centers, r \in {Radius(0, 1), Radius(1, 2), Radius(3, 1), Radius(9, 1)}, e \in Ends}
    \cup {e \o <<r, c>> : c \in Centers, r \in {Radius(3, 1)}, e \in Ends}
    \cup {<<c>> \o e : c \in Centers, e \in Ends} \cup {<<Radius(3, 1)>> \o e : e \in Ends}
    \cup {<<x[1], Radius(3, 1), x[2]>> : x \in {x \in Centers \X Centers : x[1].name # x[2].name}}
    \cup {<<c, Radius(3, 1), Plain("ANY")>> : c \in Centers}

===============================================================================
