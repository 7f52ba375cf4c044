----------------------------- MODULE MCE450Push -----------------------------
(***************************************************************************)
(* A push as the E450 sends it, in small: the definitions run over three   *)
(* blocks, the values follow in the last, and the first object (the push   *)
(* setup) has a definition but no value.                                   *)
(***************************************************************************)
EXTENDS E450Push

CONSTANTS setup, voltage, current, power

MCCodes == {setup, voltage, current, power}
MCData  == [from : MCCodes, push : 1 .. PushMod]

Def(c) == [kind |-> "def", code |-> c]
Val(c) == [kind |-> "val", code |-> c]

MCLayout == << <<Def(setup), Def(voltage)>>,
               <<Def(current)>>,
               <<Def(power), Val(voltage), Val(current), Val(power)>> >>

\* Such a push is one that counting can match, and the table can hold.
ASSUME MCMatched ==
    /\ Numbered(<<0, 2, 3, 7>>) /\ Matched(<<0, 2, 3, 7>>, 4)
    /\ Covered(<<0, 2, 3, 7>>, 4) /\ RoomInCache

-----------------------------------------------------------------------------
\* "We have parsed values, so this must be a new cycle" (main.c:580): the list
\* is matched to the values of its own cycle, so a push that arrives whole is
\* filed right, whatever became of the one before.
WholePushFiledRight == whole /\ Settled => Current
=============================================================================
