----------------------------- MODULE MCAxdrBlock -----------------------------
(***************************************************************************)
(* Blocks of up to two items of every type, as A-XDR writes them           *)
(* (IEC 62056-6-2), after each of the openings the task knows.             *)
(***************************************************************************)
EXTENDS AxdrBlock

Zeros(n) == [i \in 1 .. n |-> 0]
Ones(n)  == [i \in 1 .. n |-> 255]

PartOf(kind, type, content, octets) ==
    [item |-> [kind |-> kind, type |-> type, content |-> content], octets |-> octets]

Obis == <<1, 0, 32, 7, 0, 255>>

Definitions ==
    {PartOf("def", 0, Obis, <<2, 4, 18, 0, 3, 9, 6>> \o Obis \o <<15, 2, 18, 0, 0>>)}

\* A word with n octets of its own that are not all zero, and its encoding.
NumberOf(type, n, word) == PartOf("val", type, word, <<type>> \o SubSeq(word, 9 - n, 8))

Numbers ==
    UNION {{NumberOf(t, n, Zeros(8 - n) \o [i \in 1 .. n |-> i]),
            NumberOf(t, n, (IF t \in DOMAIN Signed THEN Ones(8 - n) ELSE Zeros(8 - n))
                             \o [i \in 1 .. n |-> 255 - i])} :
           <<t, n>> \in {<<15, 1>>, <<16, 2>>, <<5, 4>>, <<20, 8>>, <<17, 1>>,
                         <<22, 1>>, <<18, 2>>, <<6, 4>>, <<21, 8>>, <<23, 4>>,
                         <<24, 8>>}}
        \cup {PartOf("val", 3, Zeros(7) \o <<1>>, <<3, 255>>),
              PartOf("val", 0, <<>>, <<0>>)}

\* Both ways to write a length that fits one octet, and a string that is cut.
Strings ==
    {PartOf("val", 9, <<65>>, <<9, 1, 65>>),
     PartOf("val", 10, <<65, 66>>, <<10, 129, 2, 65, 66>>),
     PartOf("val", 12, <<65, 66>>, <<12, 130, 0, 2, 65, 66>>),
     PartOf("val", 9, <<>>, <<9, 0>>),
     PartOf("val", 10, <<1, 2, 3>>, <<10, 4, 1, 2, 3, 4>>)}

Compounds ==
    {PartOf("val", 2, <<>>, <<2, 2, 15, 253, 22, 27>>),
     PartOf("val", 1, <<>>, <<1, 2, 2, 1, 9, 1, 0, 1, 0>>),
     PartOf("val", 2, <<>>, <<2, 0>>)}

Parts == Definitions \cup Numbers \cup Strings \cup Compounds

Date         == <<12, 7, 230, 1, 2, 3, 4, 5, 6, 0, 0, 60, 0>>
Notification == <<15, 0, 0, 0, 1>> \o Date
Openings     == {<<>>, <<2, 13, 1, 13>>, Notification,
                 Notification \o <<2, 13, 1, 13>>}

MCMessages ==
    [opening : Openings, parts : {<<a>> : a \in Parts}
                                   \cup {<<a, b>> : a \in Parts, b \in Parts}]

\* These are such blocks: of every value, and of those within values.
Written(octets, content) == [octets |-> octets, content |-> content]
MCValues ==
    {Written(p.octets, p.item.content) : p \in Parts \ Definitions}
        \cup {Written(<<15, 253>>, Ones(7) \o <<253>>),
              Written(<<22, 27>>, Zeros(7) \o <<27>>),
              Written(<<9, 1, 0>>, <<0>>), Written(<<2, 1, 9, 1, 0>>, <<>>),
              Written(<<1, 0>>, <<>>)}

ASSUME MCWellFormed ==
    Encoding(MCValues) /\ \A m \in MCMessages : WellFormed(m, MCValues)
=============================================================================
