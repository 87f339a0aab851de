------------------------------- MODULE MCStartup -------------------------------
(***************************************************************************)
(* The instance of Startup for TLC: append-only logs that are new, of      *)
(* several files, or damaged in every way the manifest or the commands can *)
(* be; and RDB files of up to three items between the header and the end,  *)
(* cut anywhere.                                                           *)
(***************************************************************************)
EXTENDS Startup

Good(v)     == [fails |-> FALSE, value |-> v]
Lone(v)     == [multi |-> FALSE, writes |-> <<Good(v)>>]
Several(vs) == [multi |-> TRUE, writes |-> [i \in DOMAIN vs |-> Good(vs[i])]]
Failing     == [fails |-> TRUE, value |-> <<"b">>]

Log(lines, contents) ==
  [manifest |-> lines, units |-> contents, more |-> [f \in DOMAIN contents |-> <<>>]]

A == Lone(<<"a">>)
B == Several(<< <<"CR", "LF">>, <<"$", "1">> >>)
C == Lone(<<"c", "c">>)

(* Arguments that are empty, that look like the framing, and plain ones. *)
MCUnits == {A, Lone(<<>>), Several(<< <<"CR", "LF", "*">>, <<>> >>)}

MCLogs ==
  { Log(NoFile, [f \in {} |-> <<>>]),
    Log(NoFile, "f1" :> <<A>>),
    Log(<<Remark, First>>, "f1" :> <<A, B>>),
    Log(<<Line(7, "f2"), Remark, Line(2, "f1"), Line(9, "f3")>>,
        ("f1" :> <<B>>) @@ ("f2" :> <<A>>) @@ ("f3" :> <<>>)),
    Log(<<Line(2, "f1"), Line(2, "f2")>>, ("f1" :> <<A>>) @@ ("f2" :> <<C>>)),
    Log(<<First, Line(2, "f2")>>, "f1" :> <<A>>),
    Log(<<First, Bad>>, "f1" :> <<A>>),
    Log(<<Remark>>, "f1" :> <<A>>),
    Log(<<First>>, "f1" :> <<A, [multi |-> FALSE, writes |-> <<Failing>>], C>>),
    Log(<<First>>, "f1" :> <<[multi |-> TRUE, writes |-> <<Good(<<"a">>), Failing>>], C>>) }
    \cup {[Log(<<First, Line(2, "f2")>>, ("f1" :> <<C>>) @@ ("f2" :> <<A>>)) EXCEPT !.more["f1"] = bs] :
            bs \in { <<"a">>, <<"*", "x", "CR", "LF">>, <<"*", "1", "CR", "LF", "a">>,
                     Array(MULTI), Array(EXEC), Array(MULTI) \o Array(MULTI) }}

(* Strings of an RDB file: their bytes and what they mean, numbers as the  *)
(* codes of their digits.                                                  *)
Strings ==
  { [bytes |-> <<2, 7, 15>>, text |-> <<7, 15>>],
    [bytes |-> <<4, 1, 9>>, text |-> <<9>>],
    [bytes |-> <<8, 0, 0, 0, 1, 12>>, text |-> <<12>>],
    [bytes |-> <<12, 7>>, text |-> <<55>>],
    [bytes |-> <<12, 8>>, text |-> <<45, 56>>],
    [bytes |-> <<13, 0, 8>>, text |-> <<45, 49, 50, 56>>],
    [bytes |-> <<14, 4, 6, 0, 0>>, text |-> <<49, 48, 48>>],
    [bytes |-> <<14, 15, 15, 15, 15>>, text |-> <<45, 49>>] }

Other(bs) == [role |-> "other", bytes |-> bs]
At(bs, t) == [role |-> "expiry", bytes |-> bs, time |-> t]
Pair(k, v) == [role |-> "entry", bytes |-> <<0>> \o k.bytes \o v.bytes, key |-> k.text, value |-> v.text]

Plain == [bytes |-> <<1, 3>>, text |-> <<3>>]
Wide  == [bytes |-> <<5, 1>> \o [i \in 1 .. 17 |-> i - 1 - ((i - 1) \div 16) * 16],
          text |-> [i \in 1 .. 17 |-> i - 1 - ((i - 1) \div 16) * 16]]

Items ==
  {Pair(Plain, s) : s \in Strings} \cup {Pair(s, Plain) : s \in Strings}
    \cup {Other(<<10>> \o Plain.bytes \o Plain.bytes), Other(<<14, 1>>), Other(<<11, 2, 5, 6>>),
          At(<<12, 5, 1, 0, 0, 0, 0, 0, 0>>, 21), At(<<13, 2, 1, 0, 0>>, 18 * Thousand)}

Head9 == Other(<<1, 1, 1, 1, 1, 0, 0, 1, 1>>)
End   == Other(<<15, 6, 14, 3, 11, 15, 14, 12, 0>>)

Some == {Pair(Plain, Plain), Pair(Plain, [bytes |-> <<0>>, text |-> <<>>])}
          \cup {i \in Items : i.role # "entry"}

MCSnapshots ==
  {<<Head9>> \o items \o <<End>> : items \in {<<>>} \cup [1 .. 1 -> Items] \cup [1 .. 3 -> Some]}
    \cup {<<Head9, Other(<<10>> \o Plain.bytes \o Wide.bytes), Pair(Wide, Plain), End>>}

===============================================================================
