------------------------------ MODULE AxdrBlock ------------------------------
(***************************************************************************)
(* The information field of one block of an E450 push, octet by octet:     *)
(* the headers e450_push_task skips, then the loop that recognises         *)
(* definitions and hands the rest to axdr_parse_value (dlms_axdr.c).       *)
(* E450Push takes it from here: what this module calls items is what a     *)
(* block consists of there.  A number is the eight octets of the union in  *)
(* dlms_reading_t, most significant first.                                 *)
(***************************************************************************)
EXTENDS Integers, Sequences, SequencesExt

CONSTANTS
    MaxText,   \* DLMS_MAX_STR_VALUE_LEN - 1
    Messages   \* blocks sent: [opening, parts], a part being an [item, octets]

Byte == 0 .. 255
Item == [kind : {"def", "val"}, type : Byte, content : Seq(Byte)]
Part == [item : Item, octets : Seq(Byte)]

ASSUME BlockAssumption ==
    /\ MaxText \in Nat
    /\ Messages \subseteq [opening : Seq(Byte), parts : Seq(Part)]

VARIABLES
    info,     \* frame.info
    pos,      \* ptr - frame.info
    items,    \* the items recognised so far
    phase,    \* "head", "walk", "done" or "stopped" (a value did not parse)
    message,  \* history: the message sent
    got       \* history: what of it info is: "all", its "head" or its "tail"

vars == <<info, pos, items, phase, message, got>>

TypeOK ==
    /\ info \in Seq(Byte) /\ items \in Seq(Item)
    /\ pos \in 0 .. Len(info)
    /\ phase \in {"head", "walk", "done", "stopped"}
    /\ got \in {"all", "head", "tail"}

-----------------------------------------------------------------------------
(* A-XDR                                                                   *)

Rest(b, n) == SubSeq(b, n + 1, Len(b))

Failed == [used |-> -1, content |-> <<>>]

\* axdr_parse_length: octets used and the length they say.
ParseLength(b) ==
    CASE Len(b) >= 1 /\ b[1] < 128 -> [used |-> 1, value |-> b[1]]
      [] Len(b) >= 2 /\ b[1] = 129 -> [used |-> 2, value |-> b[2]]
      [] Len(b) >= 3 /\ b[1] = 130 -> [used |-> 3, value |-> b[2] * 256 + b[3]]
      [] OTHER                     -> [used |-> -1, value |-> 0]

\* Octets of the types of fixed size, by tag.
Signed   == [t \in {15, 16, 5, 20} |->
                CASE t = 15 -> 1 [] t = 16 -> 2 [] t = 5 -> 4 [] t = 20 -> 8]
Unsigned == [t \in {3, 17, 22, 18, 6, 21, 23, 24} |->
                CASE t \in {3, 17, 22} -> 1 [] t = 18 -> 2
                  [] t \in {6, 23} -> 4 [] t \in {21, 24} -> 8]
Text     == {9, 10, 12}
Compound == {1, 2}

Padding(n, octet) == [i \in 1 .. 8 - n |-> octet]

\* The union after a number of n octets: into an int64_t, into a zeroed union.
SignUnextended(b, n) == Padding(n, 0) \o SubSeq(b, 1, n)
SignExtended(b, n) ==
    Padding(n, IF b[1] >= 128 THEN 255 ELSE 0) \o SubSeq(b, 1, n)
ZeroExtended(b, n) == Padding(n, 0) \o SubSeq(b, 1, n)
Truth(b)           == Padding(1, 0) \o <<IF b[1] = 0 THEN 0 ELSE 1>>

Number(b, n, word) ==
    IF Len(b) < n THEN Failed ELSE [used |-> 1 + n, content |-> word]

\* A string longer than its field is cut, but all of it is used up.
StringClipped(b) ==
    LET l    == ParseLength(b)
        here == IF Len(b) < l.used + l.value THEN Len(b) ELSE l.used + l.value
    IN  IF l.used < 0 THEN Failed
        ELSE [used |-> 1 + here, content |-> SubSeq(b, l.used + 1, here)]
String(b) ==
    LET l == ParseLength(b)
    IN  IF l.used < 0 \/ Len(b) < l.used + l.value THEN Failed
        ELSE [used    |-> 1 + l.used + l.value,
              content |-> SubSeq(b, l.used + 1,
                                 l.used + IF l.value < MaxText THEN l.value
                                                               ELSE MaxText)]

\* A value of a simple type, with its tag.
Simple(b) ==
    LET type == Head(b)
        body == Tail(b)
    IN  CASE type = 0 -> [used |-> 1, content |-> <<>>]
          [] type = 3 -> Number(body, 1, Truth(body))
          [] type \in DOMAIN Signed ->
               Number(body, Signed[type], SignExtended(body, Signed[type]))
          [] type \in DOMAIN Unsigned \ {3} ->
               Number(body, Unsigned[type], ZeroExtended(body, Unsigned[type]))
          [] type \in Text -> String(body)
          [] OTHER -> Failed

\* Octets of the array or structure at the front of b, and of the first n values
\* in b, if f[c][m] are those of the first m values in any shorter c.
CompoundUsed(f, b) ==
    LET l    == ParseLength(Tail(b))
        size == f[Rest(Tail(b), l.used)][l.value]
    IN  IF l.used < 0 \/ size < 0 THEN -1 ELSE 1 + l.used + size
FirstUsed(f, b) ==
    IF Head(b) \in Compound THEN CompoundUsed(f, b) ELSE Simple(b).used
ValuesUsed(f, b) ==
    [n \in Nat |->
        IF n = 0 THEN 0
        ELSE IF b = <<>> \/ FirstUsed(f, b) < 0 THEN -1
        ELSE LET more == f[Rest(b, FirstUsed(f, b))][n - 1]
             IN  IF more < 0 THEN -1 ELSE FirstUsed(f, b) + more]

ElementsUsed[b \in Seq(Byte)] == ValuesUsed(ElementsUsed, b)

\* axdr_parse_value: octets used and what is left in the reading.  Of an array
\* or structure only the size matters.
ParseValue(b) ==
    IF b = <<>> THEN Failed
    ELSE IF Head(b) \in Compound
         THEN [used |-> CompoundUsed(ElementsUsed, b), content |-> <<>>]
         ELSE Simple(b)

-----------------------------------------------------------------------------
(* The walk over a block                                                   *)

\* The block number and length, a DataNotification with its date, and the
\* structure of definitions that opens the first block of a push.
NotificationUnchecked(b) == IF b[1] = 15 THEN 18 ELSE 0
NotificationAt(b) == IF Len(b) > 18 /\ b[1] = 15 THEN 18 ELSE 0
OpeningAt(b)      == IF Len(b) > 4 /\ b[1] = 2 /\ b[3] = 1 THEN 4 ELSE 0

SkipHeaders ==
    LET n == NotificationAt(Rest(info, 4))
    IN  /\ phase = "head"
        /\ \/ /\ Len(info) > 4 /\ phase' = "walk"
              /\ pos' = 4 + n + OpeningAt(Rest(info, 4 + n))
           \/ /\ Len(info) <= 4 /\ phase' = "done" /\ pos' = 0
        /\ UNCHANGED <<info, items, message, got>>

Here == Rest(info, pos)

IsDefinition == Len(Here) >= 18 /\ SubSeq(Here, 1, 3) = <<2, 4, 18>>

\* An object whose logical name is missing is stepped over.
TakeDefinition ==
    /\ phase = "walk" /\ Here # <<>> /\ IsDefinition
    /\ items' = IF SubSeq(Here, 6, 7) = <<9, 6>>
                THEN Append(items, [kind |-> "def", type |-> 0,
                                    content |-> SubSeq(Here, 8, 13)])
                ELSE items
    /\ pos' = pos + 18
    /\ UNCHANGED <<info, phase, message, got>>

TakeValue ==
    LET v == ParseValue(Here)
    IN  /\ phase = "walk" /\ Here # <<>> /\ ~ IsDefinition
        /\ \/ /\ v.used > 0
              /\ items' = Append(items, [kind |-> "val", type |-> Here[1],
                                         content |-> v.content])
              /\ pos' = pos + v.used /\ UNCHANGED phase
           \/ /\ v.used <= 0
              /\ phase' = "stopped" /\ UNCHANGED <<items, pos>>
        /\ UNCHANGED <<info, message, got>>

EndOfBlock ==
    /\ phase = "walk" /\ Here = <<>> /\ phase' = "done"
    /\ UNCHANGED <<info, pos, items, message, got>>

-----------------------------------------------------------------------------
(* What the meter sends (external)                                         *)

\* A-XDR (IEC 62056-6-2): the ways to write a length, a number in eight octets
\* of which the last n are sent, a text, and values within a value.  W holds
\* every value there is to write, with its octets.
Lengths(n) ==
    (IF n < 128 THEN {<<n>>} ELSE {}) \cup (IF n < 256 THEN {<<129, n>>} ELSE {})
        \cup (IF n < 65536 THEN {<<130, n \div 256, n % 256>>} ELSE {})

Sent(o, t, c, n) == o = <<t>> \o SubSeq(c, 9 - n, 8)
Filled(c, n, octet) == Len(c) = 8 /\ \A j \in 1 .. 8 - n : c[j] = octet

WritesNumber(o, c) ==
    \/ \E x \in Byte : /\ o = <<3, x>>
                       /\ Filled(c, 1, 0) /\ c[8] = IF x = 0 THEN 0 ELSE 1
    \/ \E t \in DOMAIN Signed :
          /\ Filled(c, Signed[t], IF c[9 - Signed[t]] >= 128 THEN 255 ELSE 0)
          /\ Sent(o, t, c, Signed[t])
    \/ \E t \in DOMAIN Unsigned \ {3} :
          Filled(c, Unsigned[t], 0) /\ Sent(o, t, c, Unsigned[t])

WritesText(o, c) ==
    \E t \in Text, n \in 0 .. Len(o) : \E l \in Lengths(n) :
        /\ Len(o) = 1 + Len(l) + n /\ SubSeq(o, 1, 1 + Len(l)) = <<t>> \o l
        /\ c = SubSeq(o, Len(l) + 2, Len(l) + 1 + IF n < MaxText THEN n ELSE MaxText)

WritesCompound(W, o) ==
    \E t \in Compound, n \in 0 .. Len(o) : \E l \in Lengths(n) :
        /\ IsPrefix(<<t>> \o l, o)
        /\ \E s \in [1 .. n -> W] :
              o = <<t>> \o l \o FlattenSeq([i \in 1 .. n |-> s[i].octets])

Encoding(W) ==
    /\ W \subseteq [octets : Seq(Byte), content : Seq(Byte)]
    /\ \A w \in W :
          \/ w.octets = <<0>> /\ w.content = <<>>
          \/ WritesNumber(w.octets, w.content)
          \/ WritesText(w.octets, w.content)
          \/ WritesCompound(W, w.octets) /\ w.content = <<>>

\* A definition as the E450 writes it, and any value that does not begin like
\* one.
DefinitionPart(p) ==
    /\ Len(p.octets) = 18
    /\ p.item = [kind |-> "def", type |-> 0, content |-> SubSeq(p.octets, 8, 13)]
    /\ IsPrefix(<<2, 4, 18>>, p.octets)
    /\ SubSeq(p.octets, 6, 7) = <<9, 6>>
    /\ p.octets[14] = 15 /\ p.octets[16] = 18
ValuePart(W, p) ==
    /\ [octets |-> p.octets, content |-> p.item.content] \in W
    /\ p.item.kind = "val" /\ p.item.type = p.octets[1]
    /\ ~ IsPrefix(<<2, 4, 18>>, p.octets)

\* What a block may open with: a DataNotification, the structure of
\* definitions, both or neither.
NotificationForm(o) == Len(o) = 18 /\ o[1] = 15
StructureForm(o)    == Len(o) = 4 /\ o[1] = 2 /\ o[3] = 1
OpeningForm(o) ==
    \/ o = <<>> \/ NotificationForm(o) \/ StructureForm(o)
    \/ Len(o) = 22 /\ NotificationForm(SubSeq(o, 1, 18)) /\ StructureForm(Rest(o, 18))

WellFormed(m, W) ==
    /\ OpeningForm(m.opening) /\ m.parts # <<>>
    /\ \A i \in DOMAIN m.parts :
          DefinitionPart(m.parts[i]) \/ ValuePart(W, m.parts[i])

BlockHeader == <<2, 0, 0, 108>>

Octets(m) == BlockHeader \o m.opening \o FlattenSeq([i \in DOMAIN m.parts |->
                                                        m.parts[i].octets])
Meant(m)  == [i \in DOMAIN m.parts |-> m.parts[i].item]

\* A message that is longer than a block is cut, at any octet.
Init ==
    /\ pos = 0 /\ items = <<>> /\ phase = "head"
    /\ message \in Messages
    /\ \/ got = "all" /\ info = Octets(message)
       \/ /\ got = "head"
          /\ \E n \in 5 + Len(message.opening) .. Len(Octets(message)) - 1 :
                info = SubSeq(Octets(message), 1, n)
       \/ /\ got = "tail"
          /\ \E n \in 5 + Len(message.opening) .. Len(Octets(message)) - 1 :
                info = BlockHeader \o Rest(Octets(message), n)

Next == SkipHeaders \/ TakeDefinition \/ TakeValue \/ EndOfBlock

Spec == Init /\ [][Next]_vars

-----------------------------------------------------------------------------
(* Correctness                                                             *)

\* A block without an opening that begins with an int8 is taken to open with a
\* DataNotification, one without the structure of definitions that begins with a
\* structure and an array for that structure.
Mistakable(m) ==
    LET b == Rest(Octets(m), 4 + Len(m.opening))
    IN  \/ Len(m.opening) = 0 /\ Len(b) > 18 /\ b[1] = 15
        \/ Len(m.opening) \in {0, 18} /\ Len(b) > 4 /\ b[1] = 2 /\ b[3] = 1

\* A block that arrives whole is taken apart into exactly what was put in:
\* every object and every value, of every type, sign and length form.
AsSent ==
    got = "all" /\ ~ Mistakable(message) =>
        /\ phase # "stopped"
        /\ phase = "done" => items = Meant(message)

\* Where a block ends in the middle of an item nothing is made up from the
\* stump: what has been recognised is always what was sent, as far as it goes.
NothingMadeUp ==
    got = "head" /\ ~ Mistakable(message) => IsPrefix(items, Meant(message))
=============================================================================
