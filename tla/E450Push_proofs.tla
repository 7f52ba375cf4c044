--------------------------- MODULE E450Push_proofs ---------------------------
(***************************************************************************)
(* What the push listener does to the cache.                               *)
(***************************************************************************)
EXTENDS E450Push, ReadingsCache_proofs, SequenceTheorems, FiniteSetTheorems

LEMMA PushInitCache == Init => CacheInv
    BY CacheInitInv DEF Init

LEMMA PushStepCache == CacheInv /\ [Next]_vars => CacheInv'
<1> SUFFICES ASSUME CacheInv, [Next]_vars
             PROVE  CacheInv'
    OBVIOUS
<1> USE DEF HandleItem, Read, task
<1>1. CASE StartTask
    BY <1>1, CreateMutexInv DEF StartTask
<1>2. CASE FileValue
    BY <1>2, CacheReadingInv DEF FileValue
<1>3. CASE UNCHANGED <<created, slots>>
    BY <1>3 DEF CacheInv, Table, Unique
<1>4. CASE Read \/ TakeDefinition \/ PassValue \/ GiveUpBlock
    BY <1>3, <1>4 DEF ReadUart, TakeDefinition, PassValue, GiveUpBlock
<1>5. CASE MeterPushes \/ BlockLost \/ Broker \/ UNCHANGED vars
    BY <1>3, <1>5 DEF MeterPushes, BlockLost, Broker, vars
<1>6. QED
    BY <1>1, <1>2, <1>4, <1>5 DEF Next

\* The table stays free of twins while the push task fills it: every step of
\* the listener is a call of the cache or leaves it alone.
THEOREM PushUnique == Spec => []Unique
<1>1. CacheInv => Unique
    BY DEF CacheInv
<1>2. QED
    BY PushInitCache, PushStepCache, <1>1, PTL DEF Spec

-----------------------------------------------------------------------------
(* Types                                                                   *)

LEMMA HeadAndRest ==
    ASSUME NEW S, NEW q \in Seq(S), q # <<>>
    PROVE  /\ Head(q) \in S /\ Tail(q) \in Seq(S)
           /\ Head(q) = q[1] /\ Len(q) \in Nat \ {0} /\ Len(Tail(q)) = Len(q) - 1
           /\ \A i \in 1 .. Len(q) - 1 : Tail(q)[i] = q[i + 1]
OBVIOUS

LEMMA RestOfLine ==
    ASSUME NEW S, NEW s \in Seq(S), NEW n \in 0 .. Len(s)
    PROVE  /\ SubSeq(s, 1, n) \in Seq(S) /\ Len(SubSeq(s, 1, n)) = n
           /\ SubSeq(s, n + 1, Len(s)) \in Seq(S)
<1>1. Len(s) \in Nat /\ n \in Nat /\ n <= Len(s)
    BY LenProperties
<1>2. \A i \in 1 .. Len(s) : s[i] \in S
    BY ElementOfSeq
<1>3. /\ \A i \in 1 .. n : s[i] \in S
      /\ \A i \in n + 1 .. Len(s) : s[i] \in S
    BY <1>1, <1>2
<1>4. QED
    BY <1>1, <1>3, SubSeqProperties

LEMMA ReadingOfTyped ==
    ASSUME NEW v \in Item, NEW code \in Codes
    PROVE  ReadingOf(v, code) \in Reading
<1>1. [from |-> v.code, push |-> v.push] \in Data
    BY PushAssumption DEF Item
<1>2. QED
    BY <1>1 DEF ReadingOf, Reading, Item

LEMMA RenderedTyped ==
    ASSUME slots \in [Slots -> Reading]
    PROVE  Rendered \in [Codes -> Data \cup {None}]
<1>1. \A c \in Codes : Lookup(slots, c).data \in Data \cup {None}
    BY LookupTyped DEF Reading, Zeroed
<1>2. QED
    BY <1>1 DEF Rendered

LEMMA BlocksTyped ==
    ASSUME push \in 0 .. PushMod, NEW odd, NEW type \in {"number", "null", "unknown"}
    PROVE  /\ PushNumber \in 1 .. PushMod
           /\ Blocks(odd, type) \in Seq(Seq(Item))
           /\ Len(Blocks(odd, type)) = Len(Layout)
<1>1. PushNumber \in 1 .. PushMod
    BY PushAssumption DEF PushNumber
<1>2. Layout \in Seq(Seq([kind : {"def", "val"}, code : Codes]))
    BY PushAssumption
<1>3. ASSUME NEW b \in DOMAIN Layout
      PROVE  Blocks(odd, type)[b] \in Seq(Item)
  <2>1. Layout[b] \in Seq([kind : {"def", "val"}, code : Codes])
      BY <1>2
  <2>2. \A i \in DOMAIN Layout[b] : Layout[b][i] \in [kind : {"def", "val"}, code : Codes]
      BY <2>1, ElementOfSeq, LenProperties
  <2>3. DOMAIN Layout[b] = 1 .. Len(Layout[b]) /\ Len(Layout[b]) \in Nat
      BY <2>1, LenProperties
  <2> DEFINE item(i) == [kind |-> Layout[b][i].kind, code |-> Layout[b][i].code,
                         type |-> IF <<b, i>> \in odd THEN type ELSE "number",
                         push |-> PushNumber]
  <2>4. \A i \in DOMAIN Layout[b] : item(i) \in Item
      BY <1>1, <2>2 DEF Item
  <2>5. Blocks(odd, type)[b] = [i \in 1 .. Len(Layout[b]) |-> item(i)]
      BY <2>3 DEF Blocks
  <2> HIDE DEF item
  <2>6. QED
      BY <2>3, <2>4, <2>5
<1>4. DOMAIN Layout = 1 .. Len(Layout) /\ Len(Layout) \in Nat
    BY <1>2
<1>5. Blocks(odd, type) = [b \in 1 .. Len(Layout) |-> Blocks(odd, type)[b]]
    BY <1>4 DEF Blocks
<1>6. QED
    BY <1>1, <1>3, <1>4, <1>5

LEMMA ReadTyped ==
    ASSUME TypeOK, NEW n \in 0 .. Len(line), ReadUart(n)
    PROVE  TypeOK'
<1> DEFINE got == buf \o SubSeq(line, 1, n)
<1>1. buf \in Seq(Seq(Item)) /\ line \in Seq(Seq(Item)) /\ MaxBlocks \in Nat
    BY PushAssumption DEF TypeOK
<1>2. got \in Seq(Seq(Item))
    BY <1>1, RestOfLine, ConcatProperties
<1>3. got # <<>> /\ Len(got) <= MaxBlocks /\ work' = Head(got) /\ buf' = Tail(got)
    BY DEF ReadUart
<1> HIDE DEF got
<1>4. work' \in Seq(Item) /\ buf' \in Seq(Seq(Item)) /\ Len(buf') < MaxBlocks
    BY <1>1, <1>2, <1>3, HeadAndRest
<1>5. line' \in Seq(Seq(Item))
    BY <1>1, RestOfLine DEF ReadUart
<1>6. QED
    BY <1>4, <1>5 DEF ReadUart, TypeOK, CacheTypeOK

LEMMA ItemsTyped ==
    ASSUME TypeOK, HandleItem
    PROVE  TypeOK'
<1>1. work \in Seq(Item) /\ list \in Seq(Codes) /\ Len(list) <= MaxList
      /\ idx \in Nat \ {0} /\ MaxList \in Nat /\ slots \in [Slots -> Reading]
      /\ <<>> \in Seq(Item) /\ <<>> \in Seq(Codes) /\ Len(<<>>) = 0
    BY EmptySeq, PushAssumption DEF TypeOK, CacheTypeOK
<1>2. work # <<>>
    BY DEF HandleItem, TakeDefinition, FileValue, PassValue, GiveUpBlock, NextIs
<1>3. Head(work) \in Item /\ Tail(work) \in Seq(Item)
    BY <1>1, <1>2, HeadAndRest
<1>4. CASE TakeDefinition
  <2>1. PICK l \in Seq(Codes) : l = ListForDefinition /\ Len(l) <= MaxList
    <3>1. CASE StartOver
      <4>1. ListForDefinition = <<>>
          BY <3>1 DEF ListForDefinition
      <4>2. 0 <= MaxList
          BY <1>1
      <4>3. <<>> \in Seq(Codes) /\ Len(<<>>) <= MaxList
          BY <4>2
      <4>4. QED
          BY <4>1, <4>3, Zenon
    <3>2. CASE ~ StartOver
        BY <1>1, <3>2 DEF ListForDefinition
    <3>3. QED
        BY <3>1, <3>2
  <2>2. Head(work).code \in Codes
      BY <1>3 DEF Item
  <2>3. list' = IF Len(l) < MaxList THEN Append(l, Head(work).code) ELSE l
      BY <1>4, <2>1 DEF TakeDefinition, RoomForDefinition
  <2>4. list' \in Seq(Codes) /\ Len(list') <= MaxList
    <3>1. CASE Len(l) < MaxList
        BY <1>1, <2>1, <2>2, <2>3, <3>1, AppendProperties
    <3>2. CASE ~ (Len(l) < MaxList)
        BY <2>1, <2>3, <3>2
    <3>3. QED
        BY <3>1, <3>2
  <2>5. idx' \in Nat \ {0} /\ work' \in Seq(Item)
      BY <1>1, <1>3, <1>4 DEF TakeDefinition
  <2>6. QED
      BY <1>4, <2>4, <2>5 DEF TakeDefinition, TypeOK, CacheTypeOK
<1>5. CASE FileValue
  <2>1. idx + 1 \in 1 .. Len(list) /\ idx + 1 \in Nat \ {0}
      BY <1>1, <1>5, LenProperties DEF FileValue
  <2>2. CodeAtIdx \in Codes
      BY <1>1, <2>1, ElementOfSeq DEF CodeAtIdx
  <2>3. ReadingOf(Head(work), CodeAtIdx) \in Reading
      BY <1>3, <2>2, ReadingOfTyped
  <2>4. slots' \in [Slots -> Reading] /\ created' = created
      BY <1>1, <1>5, <2>3, PutTyped DEF FileValue, CacheReading
  <2>5. published' \in [Codes -> Data \cup {None}]
      BY <1>1, <1>5, RenderedTyped DEF FileValue, TypeOK
  <2>6. idx' \in Nat \ {0} /\ work' \in Seq(Item)
      BY <1>3, <1>5, <2>1 DEF FileValue
  <2>7. QED
      BY <1>5, <2>4, <2>5, <2>6 DEF FileValue, TypeOK, CacheTypeOK
<1>6. CASE PassValue
  <2>1. idx' \in Nat \ {0} /\ work' \in Seq(Item)
      BY <1>1, <1>3, <1>6 DEF PassValue
  <2>2. QED
      BY <1>6, <2>1 DEF PassValue, TypeOK, CacheTypeOK
<1>7. CASE GiveUpBlock
    BY <1>1, <1>7 DEF GiveUpBlock, TypeOK, CacheTypeOK
<1>8. QED
    BY <1>4, <1>5, <1>6, <1>7 DEF HandleItem

LEMMA MeterTyped ==
    ASSUME TypeOK, MeterPushes \/ BlockLost \/ Broker
    PROVE  TypeOK'
<1>1. line \in Seq(Seq(Item)) /\ push \in 0 .. PushMod /\ PushMod \in Nat \ {0}
      /\ MaxFaults \in Nat /\ faults \in 0 .. MaxFaults
    BY PushAssumption DEF TypeOK
<1>2. faults > 0 => faults - 1 \in 0 .. MaxFaults
    BY <1>1
<1>3. CASE MeterPushes
  <2>1. line' \in Seq(Seq(Item))
      BY <1>1, <1>3, BlocksTyped DEF MeterPushes
  <2>2. PushNumber \in 1 .. PushMod
      BY <1>1, BlocksTyped
  <2>3. push' \in 0 .. PushMod
      BY <1>1, <1>3, <2>2 DEF MeterPushes
  <2>4. faults' \in 0 .. MaxFaults /\ whole' \in BOOLEAN
      BY <1>1, <1>2, <1>3 DEF MeterPushes
  <2>5. QED
      BY <1>3, <2>1, <2>3, <2>4 DEF MeterPushes, task, TypeOK, CacheTypeOK
<1>4. CASE BlockLost
    BY <1>1, <1>2, <1>4, HeadAndRest DEF BlockLost, task, TypeOK, CacheTypeOK
<1>5. CASE Broker
    BY <1>5 DEF Broker, task, TypeOK, CacheTypeOK
<1>6. QED
    BY <1>3, <1>4, <1>5

LEMMA PushStepTyped == TypeOK /\ [Next]_vars => TypeOK'
<1> SUFFICES ASSUME TypeOK, [Next]_vars PROVE TypeOK'
    OBVIOUS
<1>1. CASE StartTask
    BY <1>1 DEF StartTask, CreateMutex, TypeOK, CacheTypeOK
<1>2. CASE Read
    BY <1>2, ReadTyped DEF Read
<1>3. CASE UNCHANGED vars
    BY <1>3 DEF vars, task, TypeOK, CacheTypeOK
<1>4. QED
    BY <1>1, <1>2, <1>3, ItemsTyped, MeterTyped DEF Next

LEMMA PushInitTyped == Init => TypeOK
<1> SUFFICES ASSUME Init PROVE TypeOK
    OBVIOUS
<1>1. Zeroed \in Reading
    BY DEF Zeroed, Reading
<1>2. CacheTypeOK
    BY <1>1 DEF Init, CacheInit, CacheTypeOK
<1>3. /\ 0 <= MaxList /\ 0 < MaxBlocks /\ 0 \in 0 .. PushMod
      /\ MaxFaults \in 0 .. MaxFaults /\ 1 \in Nat \ {0}
    BY PushAssumption
<1>4. <<>> \in Seq(Item) /\ <<>> \in Seq(Codes) /\ <<>> \in Seq(Seq(Item))
      /\ Len(<<>>) = 0
    BY EmptySeq
<1>5. QED
    BY <1>2, <1>3, <1>4 DEF Init, TypeOK

\* Every variable keeps its type, whatever comes on the line: in particular the
\* list of codes stays within its room and the index only grows or restarts.
THEOREM PushTypeCorrect == Spec => []TypeOK
<1>1. QED
    BY PushInitTyped, PushStepTyped, PTL DEF Spec


-----------------------------------------------------------------------------
(* The list and the values                                                 *)

\* Block w is block b of a push without its first d items, and nothing in it
\* is odd.
Shape(w, b, d) ==
    /\ Len(w) + d = Len(Layout[b])
    /\ \A i \in 1 .. Len(w) : /\ w[i].kind = Layout[b][d + i].kind
                              /\ w[i].code = Layout[b][d + i].code
                              /\ w[i].type = "number"

\* The blocks that are still to be taken from the buffer.
Joined(b, r) == b \o r
Waiting == Joined(buf, line)

After(b) == IF b = Len(Layout) THEN 1 ELSE b + 1

\* The blocks ws are those of whole pushes behind block m[0].
Chain(m, ws) ==
    /\ m \in [0 .. Len(ws) -> 1 .. Len(Layout)]
    /\ m[Len(ws)] = Len(Layout)
    /\ \A i \in 1 .. Len(ws) : m[i] = After(m[i - 1]) /\ Shape(ws[i], m[i], 0)

\* With p items of a push looked at, the list ls holds the definitions among
\* them and the index ix counts the values.  Before the first item and after
\* the last, the next definition will start a new list.
Position(first, n, p, ix, ls) ==
    /\ p # 0 /\ p <= n => ix = 1 /\ Len(ls) = p
    /\ n < p /\ p # first[Len(Layout) + 1] => ix + n = p + 1 /\ Len(ls) = n
    /\ p = 0 \/ p = first[Len(Layout) + 1] => ix > 1 \/ ls = <<>>

\* Where a value will look for its code, there is its code.
ListRight(first, n, ls) ==
    \A k \in 1 .. Len(ls) :
        \A b \in DOMAIN Layout : \A i \in DOMAIN Layout[b] :
            n < first[b] + i /\ k + n = first[b] + i + 1
                => ls[k] = Layout[b][i].code

\* The task is at one place of a push, with its list and its index, and what
\* is to come follows from there.
InTurn(first, n, ws, w, ix, ls) ==
    \E m \in [0 .. Len(ws) -> 1 .. Len(Layout)] :
        /\ Chain(m, ws)
        /\ \E d \in Nat : Shape(w, m[0], d) /\ Position(first, n, first[m[0]] + d, ix, ls)

Right(s) == \A j \in Slots : s[j].typed => s[j].data.from = s[j].obis

PushInv(first, n) ==
    Undisturbed => /\ InTurn(first, n, Waiting, work, idx, list)
                   /\ ListRight(first, n, list)
                   /\ Right(slots)

LEMMA LayoutTyped ==
    /\ Len(Layout) \in Nat /\ DOMAIN Layout = 1 .. Len(Layout)
    /\ \A b \in 1 .. Len(Layout) :
          Len(Layout[b]) \in Nat /\ DOMAIN Layout[b] = 1 .. Len(Layout[b])
<1>1. Layout \in Seq(Seq([kind : {"def", "val"}, code : Codes]))
    BY PushAssumption
<1>2. Len(Layout) \in Nat /\ DOMAIN Layout = 1 .. Len(Layout)
    BY <1>1, LenProperties
<1>3. \A b \in 1 .. Len(Layout) :
         Layout[b] \in Seq([kind : {"def", "val"}, code : Codes])
    BY <1>1, ElementOfSeq
<1>4. QED
    BY <1>2, <1>3, LenProperties

LEMMA Greatest ==
    ASSUME NEW top \in Nat, NEW M \in SUBSET (0 .. top), M # {}
    PROVE  \E x \in M : \A y \in M : y <= x
<1> DEFINE R == OpToRel(<, Nat)
           K == {top - x : x \in M}
<1>0. \A x \in M : x \in Nat /\ top - x \in Nat
    OBVIOUS
<1>1. K \subseteq Nat /\ K # {}
    BY <1>0
<1>2. PICK z \in K : \A y \in K : ~ (<<y, z>> \in R)
    <2> HIDE DEF R, K
    <2>1. IsWellFoundedOn(R, Nat)
        BY NatLessThanWellFounded DEF R
    <2>2. QED
        BY <1>1, <2>1, WFMin
<1>3. \A y \in K : ~ (y < z)
    BY <1>1, <1>2 DEF OpToRel
<1>4. PICK x \in M : z = top - x
    BY <1>2
<1>5. \A y \in M : ~ (top - y < top - x)
    BY <1>3, <1>4
<1>6. \A y \in M : y \in Nat /\ x \in Nat /\ y <= x
    BY <1>0, <1>5
<1>7. QED
    BY <1>6

LEMMA FirstTyped ==
    ASSUME NEW first, Numbered(first)
    PROVE  /\ first[Len(Layout) + 1] \in Nat
           /\ \A b \in 1 .. Len(Layout) :
                 /\ first[b] \in Nat /\ first[b + 1] \in Nat
                 /\ first[b + 1] = first[b] + Len(Layout[b])
<1>1. Len(Layout) \in Nat /\ DOMAIN Layout = 1 .. Len(Layout)
    BY LayoutTyped
<1>2. Len(Layout) + 1 \in 1 .. Len(Layout) + 1
    BY <1>1
<1>3. \A b \in 1 .. Len(Layout) :
         b \in 1 .. Len(Layout) + 1 /\ b + 1 \in 1 .. Len(Layout) + 1
    BY <1>1
<1>4. \A c \in 1 .. Len(Layout) + 1 : first[c] \in Nat
    BY DEF Numbered
<1>5. QED
    BY <1>1, <1>2, <1>3, <1>4 DEF Numbered

\* No block ends behind the push.
LEMMA BlocksInPush ==
    ASSUME NEW first, Numbered(first), NEW b \in 1 .. Len(Layout)
    PROVE  first[b] + Len(Layout[b]) <= first[Len(Layout) + 1]
<1>1. PICK L \in Nat : L = Len(Layout)
    BY LayoutTyped
<1>2. PICK N \in Nat : N = first[L + 1]
    BY <1>1, FirstTyped
<1>3. \A c \in 1 .. L : /\ first[c] \in Nat /\ first[c + 1] \in Nat
                        /\ first[c] <= first[c + 1]
  <2>1. SUFFICES ASSUME NEW c \in 1 .. L
                 PROVE  /\ first[c] \in Nat /\ first[c + 1] \in Nat
                        /\ first[c] <= first[c + 1]
      OBVIOUS
  <2>2. PICK k \in Nat : k = Len(Layout[c])
      BY <1>1, LayoutTyped
  <2>3. first[c] \in Nat /\ first[c + 1] \in Nat /\ first[c + 1] = first[c] + k
      BY <1>1, <2>2, FirstTyped
  <2>4. QED
      BY <2>3
<1> DEFINE M == {c \in 1 .. L : N < first[c]}
<1>4. M = {}
  <2>1. SUFFICES ASSUME M # {} PROVE FALSE
      OBVIOUS
  <2>2. M \in SUBSET (0 .. L)
      OBVIOUS
  <2>3. PICK x \in M : \A y \in M : y <= x
    <3> HIDE DEF M
    <3>1. QED
        BY <2>1, <2>2, Greatest
  <2>4. PICK f, g \in Nat : f = first[x] /\ g = first[x + 1] /\ f <= g /\ N < f
      BY <1>3
  <2>5. N < g /\ x \in 1 .. L
      BY <2>4
  <2>6. x # L
      BY <1>2, <2>4, <2>5
  <2>7. x + 1 \in 1 .. L
      BY <2>5, <2>6
  <2>8. x + 1 \in M
      BY <2>4, <2>5, <2>7
  <2>9. QED
      BY <2>3, <2>5, <2>8
<1>5. first[b] + Len(Layout[b]) = first[b + 1] /\ b \in 1 .. L
    BY <1>1, FirstTyped
<1>6. CASE b = L
    BY <1>1, <1>2, <1>5, <1>6
<1>7. CASE b # L
  <2>1. b + 1 \in 1 .. L
      BY <1>5, <1>7
  <2>2. PICK g \in Nat : g = first[b + 1]
      BY <1>3, <2>1
  <2>3. ~ (N < g)
      BY <1>4, <2>1, <2>2
  <2>4. g <= N
      BY <2>3
  <2>5. QED
      BY <1>1, <1>2, <1>5, <2>2, <2>4
<1>8. QED
    BY <1>6, <1>7

\* Looking at an item of a block leaves the block without it.
LEMMA ItemLooked ==
    ASSUME NEW w \in Seq(Item), w # <<>>, NEW b \in 1 .. Len(Layout),
           NEW d \in Nat, Shape(w, b, d)
    PROVE  /\ d + 1 \in 1 .. Len(Layout[b])
           /\ Head(w).kind = Layout[b][d + 1].kind
           /\ Head(w).code = Layout[b][d + 1].code /\ Head(w).type = "number"
           /\ Shape(Tail(w), b, d + 1)
<1>1. /\ Head(w) = w[1] /\ Len(w) \in Nat \ {0} /\ Len(Tail(w)) = Len(w) - 1
      /\ \A i \in 1 .. Len(w) - 1 : Tail(w)[i] = w[i + 1]
    BY HeadAndRest
<1>2. Len(Layout[b]) \in Nat
    BY LayoutTyped
<1>3. 1 \in 1 .. Len(w) /\ d + 1 \in 1 .. Len(Layout[b])
    BY <1>1, <1>2 DEF Shape
<1>4. /\ w[1].kind = Layout[b][d + 1].kind /\ w[1].code = Layout[b][d + 1].code
      /\ w[1].type = "number"
    BY <1>3 DEF Shape
<1>5. Shape(Tail(w), b, d + 1)
  <2>1. Len(Tail(w)) + (d + 1) = Len(Layout[b])
    <3>1. Len(w) + d = Len(Layout[b])
        BY DEF Shape
    <3>2. QED
        BY <1>1, <1>2, <3>1
  <2>2. SUFFICES ASSUME NEW i \in 1 .. Len(w) - 1
                 PROVE  /\ w[i + 1].kind = Layout[b][d + 1 + i].kind
                        /\ w[i + 1].code = Layout[b][d + 1 + i].code
                        /\ w[i + 1].type = "number"
      BY <1>1, <2>1 DEF Shape
  <2>3. i + 1 \in 1 .. Len(w) /\ d + (i + 1) = d + 1 + i
      BY <1>1
  <2>4. QED
      BY <2>3 DEF Shape
<1>6. QED
    BY <1>1, <1>3, <1>4, <1>5

LEMMA DefinitionTaken ==
    ASSUME NEW first, NEW n, Numbered(first), Matched(first, n),
           NEW b \in 1 .. Len(Layout), NEW d \in Nat, d + 1 \in 1 .. Len(Layout[b]),
           Layout[b][d + 1].kind = "def",
           NEW ls \in Seq(Codes), NEW ix \in Nat \ {0},
           Position(first, n, first[b] + d, ix, ls), ListRight(first, n, ls)
    PROVE  LET lf == IF ix > 1 THEN <<>> ELSE ls
               la == Append(lf, Layout[b][d + 1].code)
           IN  /\ Len(lf) < MaxList
               /\ Position(first, n, first[b] + (d + 1), 1, la)
               /\ ListRight(first, n, la)
<1> DEFINE lf == IF ix > 1 THEN <<>> ELSE ls
           la == Append(lf, Layout[b][d + 1].code)
           p == first[b] + d
           N == first[Len(Layout) + 1]
<1>1. /\ first[b] \in Nat /\ p \in Nat /\ n \in 1 .. MaxList /\ MaxList \in Nat
      /\ N \in Nat /\ n < N
  <2>1. first[b] \in Nat /\ N \in Nat
      BY FirstTyped
  <2>2. MaxList \in Nat
      BY PushAssumption
  <2>3. QED
      BY <2>1, <2>2 DEF Matched
<1>2. b \in DOMAIN Layout /\ d + 1 \in DOMAIN Layout[b]
    BY LayoutTyped
<1>3. first[b] + (d + 1) <= n
    BY <1>2 DEF Matched
<1>4. p < n /\ p + 1 = first[b] + (d + 1) /\ p + 1 <= n /\ p # N
  <2>1. PICK f \in Nat : f = first[b]
      BY <1>1
  <2>2. p = f + d /\ f + (d + 1) <= n
      BY <1>3, <2>1
  <2> HIDE DEF N, p
  <2>3. p \in Nat /\ N \in Nat /\ n \in Nat /\ n < N
      BY <1>1
  <2>4. p < n /\ p + 1 = f + (d + 1) /\ p + 1 <= n /\ p # N
      BY <2>2, <2>3
  <2>5. QED
      BY <2>1, <2>4
<1>5. /\ p # 0 /\ p <= n => ix = 1 /\ Len(ls) = p
      /\ p = 0 => ix > 1 \/ ls = <<>>
    BY DEF Position
<1> HIDE DEF p
<1>6. lf \in Seq(Codes) /\ Len(lf) = p /\ (lf = <<>> \/ lf = ls)
  <2>1. CASE p = 0
    <3>1. lf = <<>>
        BY <1>5, <2>1
    <3>2. QED
        BY <2>1, <3>1
  <2>2. CASE p # 0
    <3>1. ix = 1 /\ Len(ls) = p
        BY <1>1, <1>4, <1>5, <2>2
    <3>2. QED
        BY <3>1
  <2>3. QED
      BY <2>1, <2>2
<1> HIDE DEF lf
<1>7. Layout[b][d + 1].code \in Codes
  <2>1. Layout[b] \in Seq([kind : {"def", "val"}, code : Codes])
      BY PushAssumption, ElementOfSeq
  <2>2. Layout[b][d + 1] \in [kind : {"def", "val"}, code : Codes]
      BY <2>1, ElementOfSeq
  <2>3. QED
      BY <2>2
<1>8. /\ la \in Seq(Codes) /\ Len(la) = p + 1
      /\ \A k \in 1 .. p : la[k] = lf[k]
      /\ la[p + 1] = Layout[b][d + 1].code
    BY <1>6, <1>7, AppendProperties
<1> HIDE DEF la
<1>9. Position(first, n, p + 1, 1, la)
    BY <1>1, <1>4, <1>8 DEF Position
<1>10. ListRight(first, n, la)
  <2>1. SUFFICES ASSUME NEW k \in 1 .. p + 1, NEW c \in DOMAIN Layout,
                        NEW i \in DOMAIN Layout[c],
                        n < first[c] + i, k + n = first[c] + i + 1
                 PROVE  la[k] = Layout[c][i].code
      BY <1>8 DEF ListRight
  <2>2. CASE k = p + 1
    <3>1. first[b] + (d + 1) + n = first[c] + i + 1
        BY <1>4, <2>1, <2>2
    <3>2. first[c] + i > n
      <4>1. first[c] \in Nat /\ i \in Nat
          BY LayoutTyped DEF Numbered
      <4>2. QED
          BY <1>1, <2>1, <4>1
    <3>3. Layout[b][d + 1].code = Layout[c][i].code
        BY <1>2, <1>3, <3>1, <3>2 DEF Matched
    <3>4. QED
        BY <1>8, <2>2, <3>3
  <2>3. CASE k # p + 1
    <3>1. k \in 1 .. p
        BY <1>1, <2>3
    <3>2. lf = ls
      <4>1. Len(lf) # 0
          BY <1>1, <1>6, <3>1
      <4>2. QED
          BY <1>6, <4>1
    <3>3. la[k] = ls[k] /\ k \in 1 .. Len(ls)
        BY <1>6, <1>8, <3>1, <3>2
    <3>4. QED
        BY <2>1, <3>3 DEF ListRight
  <2>4. QED
      BY <2>2, <2>3
<1>11. Len(lf) < MaxList
    BY <1>1, <1>4, <1>6
<1>12. QED
    BY <1>4, <1>9, <1>10, <1>11 DEF la, lf

LEMMA ValueLooked ==
    ASSUME NEW first, NEW n, Numbered(first), Matched(first, n),
           NEW b \in 1 .. Len(Layout), NEW d \in Nat, d + 1 \in 1 .. Len(Layout[b]),
           Layout[b][d + 1].kind # "def",
           NEW ls \in Seq(Codes), NEW ix \in Nat \ {0},
           Position(first, n, first[b] + d, ix, ls), ListRight(first, n, ls)
    PROVE  /\ ix < Len(ls) => ls[ix + 1] = Layout[b][d + 1].code
           /\ Covered(first, n) => ix < Len(ls)
           /\ Position(first, n, first[b] + (d + 1), ix + 1, ls)
<1> DEFINE p == first[b] + d
           N == first[Len(Layout) + 1]
<1>1. /\ first[b] \in Nat /\ p \in Nat /\ n \in Nat /\ 1 <= n /\ N \in Nat /\ n < N
      /\ Len(Layout[b]) \in Nat
  <2>1. first[b] \in Nat /\ N \in Nat /\ Len(Layout[b]) \in Nat
      BY FirstTyped, LayoutTyped
  <2>2. MaxList \in Nat
      BY PushAssumption
  <2>3. n \in Nat /\ 1 <= n /\ n < N
      BY <2>1, <2>2 DEF Matched
  <2>4. QED
      BY <2>1, <2>3
<1>2. b \in DOMAIN Layout /\ d + 1 \in DOMAIN Layout[b]
    BY LayoutTyped
<1>3. ~ (first[b] + (d + 1) <= n)
    BY <1>2 DEF Matched
<1>4. first[b] + Len(Layout[b]) <= N
    BY BlocksInPush
<1>5. n <= p /\ p < N /\ first[b] + (d + 1) = p + 1 /\ p # 0
  <2>1. PICK f, k \in Nat : f = first[b] /\ k = Len(Layout[b])
      BY <1>1
  <2>2. p = f + d /\ ~ (f + (d + 1) <= n) /\ f + k <= N /\ d + 1 \in 1 .. k
      BY <1>3, <1>4, <2>1
  <2> HIDE DEF N, p
  <2>3. p \in Nat /\ N \in Nat /\ n \in Nat /\ 1 <= n
      BY <1>1
  <2>4. n <= p /\ p < N /\ f + (d + 1) = p + 1 /\ p # 0
      BY <2>2, <2>3
  <2>5. QED
      BY <2>1, <2>4
<1>6. ix + n = p + 1 /\ Len(ls) = n
  <2>1. /\ p # 0 /\ p <= n => ix = 1 /\ Len(ls) = p
        /\ n < p /\ p # N => ix + n = p + 1 /\ Len(ls) = n
      BY DEF Position
  <2> HIDE DEF p, N
  <2>2. CASE p = n
      BY <1>1, <1>5, <2>1, <2>2
  <2>3. CASE p # n
      BY <1>1, <1>5, <2>1, <2>3
  <2>4. QED
      BY <2>2, <2>3
<1>7. Position(first, n, p + 1, ix + 1, ls)
    BY <1>1, <1>5, <1>6 DEF Position
<1>8. ASSUME ix < Len(ls) PROVE ls[ix + 1] = Layout[b][d + 1].code
  <2>1. ix + 1 \in 1 .. Len(ls)
      BY <1>1, <1>6, <1>8
  <2>2. n < first[b] + (d + 1) /\ ix + 1 + n = first[b] + (d + 1) + 1
      BY <1>1, <1>5, <1>6
  <2>3. QED
      BY <1>2, <2>1, <2>2 DEF ListRight
<1>9. ASSUME Covered(first, n) PROVE ix < Len(ls)
  <2>1. N < n + n
      BY <1>9 DEF Covered
  <2> HIDE DEF p, N
  <2>2. QED
      BY <1>1, <1>5, <1>6, <2>1
<1>10. QED
    BY <1>5, <1>7, <1>8, <1>9

LEMMA JoinedBlocks ==
    ASSUME NEW S, NEW b \in Seq(S), NEW r \in Seq(S)
    PROVE  /\ Joined(b, r) \in Seq(S) /\ Len(Joined(b, r)) = Len(b) + Len(r)
           /\ \A j \in 1 .. Len(b) : Joined(b, r)[j] = b[j]
           /\ \A j \in 1 .. Len(r) : Joined(b, r)[Len(b) + j] = r[j]
<1>1. Len(b) \in Nat /\ Len(r) \in Nat
    BY LenProperties
<1>2. \A j \in 1 .. Len(r) : /\ Len(b) + j \in 1 .. Len(b) + Len(r)
                             /\ ~ (Len(b) + j <= Len(b))
                             /\ Len(b) + j - Len(b) = j
    BY <1>1
<1>3. QED
    BY <1>1, <1>2, ConcatProperties DEF Joined

LEMMA JoinedThrice ==
    ASSUME NEW S, NEW x \in Seq(S), NEW y \in Seq(S), NEW z \in Seq(S)
    PROVE  Joined(Joined(x, y), z) = Joined(x, Joined(y, z))
<1>1. \A u, v, w \in Seq(S) : (u \o v) \o w = u \o (v \o w)
    BY ConcatAssociative
<1>2. (x \o y) \o z = x \o (y \o z)
    BY <1>1
<1>3. QED
    BY <1>2, Zenon DEF Joined

\* Reading blocks from the line changes nothing about what is waiting; taking
\* the first takes it from what is waiting.
LEMMA BlocksRead ==
    ASSUME TypeOK, NEW n \in 0 .. Len(line), ReadUart(n)
    PROVE  /\ Waiting \in Seq(Seq(Item)) /\ Len(Waiting) \in Nat \ {0}
           /\ work' = Waiting[1] /\ Len(Waiting') = Len(Waiting) - 1
           /\ \A i \in 1 .. Len(Waiting) - 1 : Waiting'[i] = Waiting[i + 1]
<1> DEFINE f == SubSeq(line, 1, n)
           r == SubSeq(line, n + 1, Len(line))
           got == Joined(buf, f)
<1>1. /\ buf \in Seq(Seq(Item)) /\ line \in Seq(Seq(Item))
      /\ f \in Seq(Seq(Item)) /\ r \in Seq(Seq(Item))
    BY RestOfLine DEF TypeOK
<1>2. Joined(f, r) = line
  <2>1. Len(line) \in Nat /\ n \in Nat /\ n <= Len(line)
      BY <1>1, LenProperties
  <2>2. /\ 1 \in 1 .. Len(line) + 1 /\ n \in 1 - 1 .. Len(line)
        /\ Len(line) \in n .. Len(line)
      BY <2>1
  <2>3. SubSeq(line, 1, n) \o SubSeq(line, n + 1, Len(line)) = SubSeq(line, 1, Len(line))
      BY <1>1, <2>2, ConcatAdjacentSubSeq
  <2>4. SubSeq(line, 1, Len(line)) = line
      BY <1>1, SubSeqFull
  <2>5. QED
      BY <2>3, <2>4, Zenon DEF Joined
<1>3. /\ got # <<>> /\ work' = Head(got) /\ buf' = Tail(got) /\ line' = r
    BY DEF ReadUart, Joined
<1> HIDE DEF f, r
<1>4. Waiting = Joined(got, r)
  <2>1. Joined(Joined(buf, f), r) = Joined(buf, Joined(f, r))
      BY <1>1, JoinedThrice
  <2>2. QED
      BY <1>2, <2>1, Zenon DEF Waiting
<1>5. got \in Seq(Seq(Item))
    BY <1>1, JoinedBlocks
<1>6. Waiting' = Joined(Tail(got), r)
    BY <1>3, Zenon DEF Waiting
<1> HIDE DEF got
<1>7. /\ Tail(got) \in Seq(Seq(Item)) /\ Head(got) = got[1]
      /\ Len(got) \in Nat \ {0} /\ Len(Tail(got)) = Len(got) - 1
      /\ \A i \in 1 .. Len(got) - 1 : Tail(got)[i] = got[i + 1]
    BY <1>3, <1>5, HeadAndRest
<1>8. PICK t \in Seq(Seq(Item)) : t = Tail(got)
    BY <1>7
<1> DEFINE J == Joined(got, r)
           K == Joined(t, r)
<1>9. /\ J \in Seq(Seq(Item)) /\ Len(J) = Len(got) + Len(r)
      /\ \A j \in 1 .. Len(got) : J[j] = got[j]
      /\ \A j \in 1 .. Len(r) : J[Len(got) + j] = r[j]
  <2>1. J \in Seq(Seq(Item)) /\ Len(J) = Len(got) + Len(r)
      BY <1>1, <1>5, JoinedBlocks
  <2>2. \A j \in 1 .. Len(got) : J[j] = got[j]
      BY <1>1, <1>5, JoinedBlocks
  <2>3. \A j \in 1 .. Len(r) : J[Len(got) + j] = r[j]
      BY <1>1, <1>5, JoinedBlocks
  <2>4. QED
      BY <2>1, <2>2, <2>3
<1>10. /\ Len(K) = Len(t) + Len(r)
       /\ \A j \in 1 .. Len(t) : K[j] = t[j]
       /\ \A j \in 1 .. Len(r) : K[Len(t) + j] = r[j]
  <2>1. Len(K) = Len(t) + Len(r)
      BY <1>1, JoinedBlocks
  <2>2. \A j \in 1 .. Len(t) : K[j] = t[j]
      BY <1>1, JoinedBlocks
  <2>3. \A j \in 1 .. Len(r) : K[Len(t) + j] = r[j]
      BY <1>1, JoinedBlocks
  <2>4. QED
      BY <2>1, <2>2, <2>3
<1>11. Waiting = J /\ Waiting' = K
    BY <1>4, <1>6, <1>8
<1> HIDE DEF J, K
<1>12. Len(r) \in Nat /\ Len(t) = Len(got) - 1 /\ Len(got) \in Nat \ {0}
    BY <1>1, <1>7, <1>8, LenProperties
<1>13. Len(J) \in Nat \ {0} /\ Len(K) = Len(J) - 1
    BY <1>9, <1>10, <1>12
<1>14. J[1] = got[1]
    BY <1>9, <1>12
<1>15. ASSUME NEW i \in 1 .. Len(J) - 1 PROVE K[i] = J[i + 1]
  <2>1. CASE i <= Len(t)
    <3>1. i \in 1 .. Len(t) /\ i + 1 \in 1 .. Len(got) /\ i \in 1 .. Len(got) - 1
        BY <1>12, <2>1
    <3>2. K[i] = t[i] /\ J[i + 1] = got[i + 1] /\ t[i] = got[i + 1]
        BY <1>7, <1>8, <1>9, <1>10, <3>1
    <3>3. QED
        BY <3>2
  <2>2. CASE ~ (i <= Len(t))
    <3>1. PICK j \in 1 .. Len(r) : i = Len(t) + j /\ i + 1 = Len(got) + j
      <4>1. i - Len(t) \in 1 .. Len(r) /\ i = Len(t) + (i - Len(t))
            /\ i + 1 = Len(got) + (i - Len(t))
          BY <1>9, <1>12, <2>2
      <4>2. QED
          BY <4>1
    <3>2. K[Len(t) + j] = r[j] /\ J[Len(got) + j] = r[j]
        BY <1>9, <1>10
    <3>3. QED
        BY <3>1, <3>2
  <2>3. QED
      BY <2>1, <2>2
<1>16. QED
    BY <1>3, <1>7, <1>9, <1>11, <1>13, <1>14, <1>15

\* The task goes on with the next block of the push, or the first of the next.
LEMMA TurnAfterRead ==
    ASSUME NEW first, NEW n, Numbered(first), Matched(first, n),
           NEW ws, NEW vs, NEW w, NEW ix, NEW ls, Len(ws) \in Nat \ {0},
           InTurn(first, n, ws, <<>>, ix, ls),
           w = ws[1], Len(vs) = Len(ws) - 1,
           \A i \in 1 .. Len(ws) - 1 : vs[i] = ws[i + 1]
    PROVE  InTurn(first, n, vs, w, ix, ls)
<1>1. PICK m \in [0 .. Len(ws) -> 1 .. Len(Layout)] :
         /\ Chain(m, ws)
         /\ \E d \in Nat : Shape(<<>>, m[0], d) /\ Position(first, n, first[m[0]] + d, ix, ls)
    BY DEF InTurn
<1>2. PICK d \in Nat : Shape(<<>>, m[0], d) /\ Position(first, n, first[m[0]] + d, ix, ls)
    BY <1>1
<1>3. PICK b \in 1 .. Len(Layout) : b = m[0]
    BY <1>1
<1>4. d = Len(Layout[b])
  <2>1. Len(<<>>) + d = Len(Layout[b])
      BY <1>2, <1>3 DEF Shape
  <2>2. Len(<<>>) = 0
      OBVIOUS
  <2>3. QED
      BY <2>1, <2>2
<1>5. first[b] + d = first[b + 1]
    BY <1>4, FirstTyped
<1>6. /\ 1 \in 0 .. Len(ws) /\ 1 \in 1 .. Len(ws) /\ 1 - 1 = 0
      /\ m[1] = After(b) /\ Shape(w, m[1], 0)
    BY <1>1, <1>3 DEF Chain
<1>7. Position(first, n, first[After(b)] + 0, ix, ls)
  <2>1. CASE b = Len(Layout)
    <3>1. first[After(b)] + 0 = 0
        BY <2>1 DEF After, Numbered
    <3>2. ix > 1 \/ ls = <<>>
        BY <1>2, <1>3, <1>5, <2>1 DEF Position
    <3>3. ~ (n < 0)
        BY PushAssumption DEF Matched
    <3>4. Position(first, n, 0, ix, ls)
        BY <3>2, <3>3 DEF Position
    <3>5. QED
        BY <3>1, <3>4
  <2>2. CASE b # Len(Layout)
    <3>1. first[After(b)] + 0 = first[b] + d
        BY <1>5, <2>2, FirstTyped DEF After
    <3>2. QED
        BY <1>2, <1>3, <3>1
  <2>3. QED
      BY <2>1, <2>2
<1> DEFINE q == [i \in 0 .. Len(vs) |-> m[i + 1]]
<1>8. \A i \in 0 .. Len(vs) : i + 1 \in 0 .. Len(ws)
    OBVIOUS
<1>9. q \in [0 .. Len(vs) -> 1 .. Len(Layout)]
    BY <1>1, <1>8
<1>10. q[Len(vs)] = Len(Layout)
  <2>1. Len(vs) \in 0 .. Len(vs) /\ Len(vs) + 1 = Len(ws)
      OBVIOUS
  <2>2. QED
      BY <1>1, <2>1 DEF Chain
<1>11. ASSUME NEW i \in 1 .. Len(vs)
       PROVE  q[i] = After(q[i - 1]) /\ Shape(vs[i], q[i], 0)
  <2>1. /\ i \in 0 .. Len(vs) /\ i - 1 \in 0 .. Len(vs) /\ (i - 1) + 1 = i
        /\ i + 1 \in 1 .. Len(ws) /\ (i + 1) - 1 = i /\ i \in 1 .. Len(ws) - 1
      OBVIOUS
  <2>2. m[i + 1] = After(m[i]) /\ Shape(ws[i + 1], m[i + 1], 0)
      BY <1>1, <2>1 DEF Chain
  <2>3. q[i] = m[i + 1] /\ q[i - 1] = m[i] /\ vs[i] = ws[i + 1]
      BY <2>1
  <2>4. QED
      BY <2>2, <2>3
<1>12. Chain(q, vs)
    BY <1>9, <1>10, <1>11 DEF Chain
<1>13. 0 \in 0 .. Len(vs) /\ q[0] = m[1]
    OBVIOUS
<1> HIDE DEF q
<1>14. Shape(w, q[0], 0) /\ Position(first, n, first[q[0]] + 0, ix, ls)
    BY <1>6, <1>7, <1>13
<1>15. QED
    BY <1>9, <1>12, <1>14 DEF InTurn

\* A push that is put behind what is waiting is in its turn.
LEMMA TurnAfterPush ==
    ASSUME NEW first, NEW n, Numbered(first), Matched(first, n),
           NEW ws, NEW vs, NEW w, NEW ix, NEW ls, Len(ws) \in Nat,
           InTurn(first, n, ws, w, ix, ls),
           Len(vs) = Len(ws) + Len(Layout),
           \A i \in 1 .. Len(ws) : vs[i] = ws[i],
           \A b \in 1 .. Len(Layout) : Shape(vs[Len(ws) + b], b, 0)
    PROVE  InTurn(first, n, vs, w, ix, ls)
<1>1. PICK m \in [0 .. Len(ws) -> 1 .. Len(Layout)] :
         /\ Chain(m, ws)
         /\ \E d \in Nat : Shape(w, m[0], d) /\ Position(first, n, first[m[0]] + d, ix, ls)
    BY DEF InTurn
<1>2. PICK L \in Nat : L = Len(Layout)
    BY LayoutTyped
<1>3. PICK k \in Nat : k = Len(ws)
    OBVIOUS
<1>4. Len(vs) = k + L
    BY <1>2, <1>3
<1>5. /\ m[k] = L /\ m \in [0 .. k -> 1 .. L]
      /\ \A i \in 1 .. k : m[i] = After(m[i - 1]) /\ Shape(ws[i], m[i], 0)
    BY <1>1, <1>2, <1>3 DEF Chain
<1>6. L # 0
    BY <1>5
<1> DEFINE q == [i \in 0 .. k + L |-> IF i <= k THEN m[i] ELSE i - k]
<1>7. q \in [0 .. k + L -> 1 .. L]
  <2>1. \A i \in 0 .. k + L : i <= k => i \in 0 .. k
      OBVIOUS
  <2>2. \A i \in 0 .. k + L : ~ (i <= k) => i - k \in 1 .. L
      OBVIOUS
  <2>3. QED
      BY <1>5, <2>1, <2>2
<1>8. q[k + L] = L
    BY <1>6
<1>9. ASSUME NEW i \in 1 .. k + L
      PROVE  q[i] = After(q[i - 1]) /\ Shape(vs[i], q[i], 0)
  <2>1. i \in 0 .. k + L /\ i - 1 \in 0 .. k + L
      OBVIOUS
  <2>2. CASE i <= k
    <3>1. i \in 1 .. k /\ i - 1 <= k
        BY <2>2
    <3>2. q[i] = m[i] /\ q[i - 1] = m[i - 1]
        BY <2>1, <2>2, <3>1
    <3>3. vs[i] = ws[i]
        BY <1>3, <3>1
    <3>4. QED
        BY <1>5, <3>1, <3>2, <3>3
  <2>3. CASE i = k + 1
    <3>1. q[i] = 1 /\ q[i - 1] = L
      <4>1. ~ (i <= k) /\ i - k = 1 /\ i - 1 = k
          BY <2>3
      <4>2. q[i] = i - k
          BY <2>1, <4>1
      <4>3. q[i - 1] = m[k]
        <5>1. k \in 0 .. k + L /\ k <= k
            OBVIOUS
        <5>2. q[k] = m[k]
            BY <5>1
        <5>3. QED
            BY <4>1, <5>2
      <4>4. QED
          BY <1>5, <4>1, <4>2, <4>3
    <3>2. 1 \in 1 .. L /\ After(L) = 1
        BY <1>2, <1>6 DEF After
    <3>3. Shape(vs[i], 1, 0)
        BY <1>2, <1>3, <2>3, <3>2
    <3>4. QED
        BY <3>1, <3>2, <3>3
  <2>4. CASE i > k + 1
    <3>1. PICK b \in 2 .. L : b = i - k
        BY <2>4
    <3>2. q[i] = b /\ q[i - 1] = b - 1
        BY <2>1, <2>4, <3>1
    <3>3. After(b - 1) = b
        BY <1>2, <3>1 DEF After
    <3>4. b \in 1 .. L /\ k + b = i
        BY <3>1
    <3>5. Shape(vs[i], b, 0)
        BY <1>2, <1>3, <3>4
    <3>6. QED
        BY <3>2, <3>3, <3>5
  <2>5. QED
      BY <2>2, <2>3, <2>4
<1>10. q[0] = m[0]
    OBVIOUS
<1> HIDE DEF q
<1>11. Chain(q, vs)
    BY <1>2, <1>4, <1>7, <1>8, <1>9 DEF Chain
<1>12. \E d \in Nat : Shape(w, q[0], d) /\ Position(first, n, first[q[0]] + d, ix, ls)
    BY <1>1, <1>10
<1>13. q \in [0 .. Len(vs) -> 1 .. Len(Layout)]
    BY <1>2, <1>4, <1>7
<1>14. QED
    BY <1>11, <1>12, <1>13 DEF InTurn

\* A reading that carries the value of the object it is filed under leaves no
\* slot with another's.
LEMMA RightPut ==
    ASSUME NEW s \in [Slots -> Reading], Right(s), NEW r,
           r.typed => r.data.from = r.obis
    PROVE  Right(Put(s, r))
<1>1. CASE Put(s, r) = s
    BY <1>1
<1>2. CASE Put(s, r) # s
  <2>1. PICK j \in Slots : Put(s, r) = [s EXCEPT ![j] = r]
      BY <1>2, PutFillsOneSlot
  <2>2. \A k \in Slots : Put(s, r)[k] = IF k = j THEN r ELSE s[k]
      BY <2>1
  <2>3. QED
      BY <2>2 DEF Right
<1>3. QED
    BY <1>1, <1>2

\* The item the task looks at next is the one of its place in the push.
LEMMA NextItem ==
    ASSUME NEW first, NEW n, TypeOK, work # <<>>,
           InTurn(first, n, Waiting, work, idx, list)
    PROVE  \E b \in 1 .. Len(Layout), d \in Nat :
              /\ d + 1 \in 1 .. Len(Layout[b])
              /\ Position(first, n, first[b] + d, idx, list)
              /\ Head(work).kind = Layout[b][d + 1].kind
              /\ Head(work).code = Layout[b][d + 1].code
              /\ Head(work).type = "number"
              /\ \A ix, ls : Position(first, n, first[b] + (d + 1), ix, ls)
                             => InTurn(first, n, Waiting, Tail(work), ix, ls)
<1>1. PICK m \in [0 .. Len(Waiting) -> 1 .. Len(Layout)] :
         /\ Chain(m, Waiting)
         /\ \E d \in Nat : /\ Shape(work, m[0], d)
                           /\ Position(first, n, first[m[0]] + d, idx, list)
    BY DEF InTurn
<1>2. PICK d \in Nat : /\ Shape(work, m[0], d)
                       /\ Position(first, n, first[m[0]] + d, idx, list)
    BY <1>1
<1>3. PICK b \in 1 .. Len(Layout) : b = m[0]
  <2>1. Len(Waiting) \in Nat
    <3>1. buf \in Seq(Seq(Item)) /\ line \in Seq(Seq(Item))
        BY DEF TypeOK
    <3>2. Waiting \in Seq(Seq(Item))
        BY <3>1, JoinedBlocks DEF Waiting
    <3>3. QED
        BY <3>2, LenProperties
  <2>2. 0 \in 0 .. Len(Waiting)
      BY <2>1
  <2>3. QED
      BY <2>2
<1>4. work \in Seq(Item)
    BY DEF TypeOK
<1>5. Shape(work, b, d) /\ Position(first, n, first[b] + d, idx, list)
    BY <1>2, <1>3
<1>6. /\ d + 1 \in 1 .. Len(Layout[b])
      /\ Head(work).kind = Layout[b][d + 1].kind
      /\ Head(work).code = Layout[b][d + 1].code /\ Head(work).type = "number"
      /\ Shape(Tail(work), b, d + 1)
    BY <1>4, <1>5, ItemLooked
<1>7. d + 1 \in Nat
    OBVIOUS
<1>8. ASSUME NEW ix, NEW ls, Position(first, n, first[b] + (d + 1), ix, ls)
      PROVE  InTurn(first, n, Waiting, Tail(work), ix, ls)
    BY <1>1, <1>3, <1>6, <1>7, <1>8 DEF InTurn
<1>9. QED
    BY <1>5, <1>6, <1>8

\* A value at hand is a number, its code is where the task will look for it,
\* and if every value has a definition, it will look.
LEMMA ValueAtHand ==
    ASSUME NEW first, NEW n, Numbered(first), Matched(first, n), TypeOK, NextIs("val"),
           InTurn(first, n, Waiting, work, idx, list), ListRight(first, n, list)
    PROVE  /\ Head(work).type = "number" /\ Head(work).code \in ValueCodes
           /\ idx < Len(list) => CodeAtIdx = Head(work).code
           /\ Covered(first, n) => idx < Len(list)
           /\ InTurn(first, n, Waiting, Tail(work), idx + 1, list)
<1>1. /\ work # <<>> /\ Head(work).kind = "val"
      /\ list \in Seq(Codes) /\ idx \in Nat \ {0}
    BY DEF NextIs, TypeOK
<1>2. PICK b \in 1 .. Len(Layout), d \in Nat :
         /\ d + 1 \in 1 .. Len(Layout[b])
         /\ Position(first, n, first[b] + d, idx, list)
         /\ Head(work).kind = Layout[b][d + 1].kind
         /\ Head(work).code = Layout[b][d + 1].code
         /\ Head(work).type = "number"
         /\ \A ix, ls : Position(first, n, first[b] + (d + 1), ix, ls)
                        => InTurn(first, n, Waiting, Tail(work), ix, ls)
    BY <1>1, NextItem
<1>3. Layout[b][d + 1].kind = "val" /\ Layout[b][d + 1].kind # "def"
    BY <1>1, <1>2
<1>4. /\ idx < Len(list) => list[idx + 1] = Layout[b][d + 1].code
      /\ Covered(first, n) => idx < Len(list)
      /\ Position(first, n, first[b] + (d + 1), idx + 1, list)
    BY <1>1, <1>2, <1>3, ValueLooked
<1>5. InTurn(first, n, Waiting, Tail(work), idx + 1, list)
    BY <1>2, <1>4
<1>6. Head(work).code \in ValueCodes
  <2>1. b \in DOMAIN Layout /\ d + 1 \in DOMAIN Layout[b]
      BY <1>2, LayoutTyped
  <2>2. <<b, d + 1>> \in Places
      BY <1>3, <2>1 DEF Places
  <2>3. QED
      BY <1>2, <2>2 DEF ValueCodes
<1>7. QED
    BY <1>2, <1>4, <1>5, <1>6 DEF CodeAtIdx

\* Whatever item the task looks at next, it stays in its turn, and a value is
\* filed under its own code.
LEMMA ItemInTurn ==
    ASSUME NEW first, NEW n, Numbered(first), Matched(first, n),
           TypeOK, HandleItem, InTurn(first, n, Waiting, work, idx, list),
           ListRight(first, n, list), Right(slots)
    PROVE  /\ InTurn(first, n, Waiting', work', idx', list')
           /\ ListRight(first, n, list') /\ Right(slots')
<1>1. /\ work \in Seq(Item) /\ work # <<>>
      /\ list \in Seq(Codes) /\ idx \in Nat \ {0} /\ slots \in [Slots -> Reading]
    BY DEF TypeOK, CacheTypeOK, HandleItem, TakeDefinition, FileValue, PassValue,
           GiveUpBlock, NextIs
<1>2. Waiting' = Waiting
    BY DEF HandleItem, TakeDefinition, FileValue, PassValue, GiveUpBlock, Waiting
<1>3. CASE TakeDefinition
  <2>1. PICK b \in 1 .. Len(Layout), d \in Nat :
         /\ d + 1 \in 1 .. Len(Layout[b])
         /\ Position(first, n, first[b] + d, idx, list)
         /\ Head(work).kind = Layout[b][d + 1].kind
         /\ Head(work).code = Layout[b][d + 1].code
         /\ \A ix, ls : Position(first, n, first[b] + (d + 1), ix, ls)
                        => InTurn(first, n, Waiting, Tail(work), ix, ls)
      BY <1>1, NextItem
  <2> DEFINE lf == IF idx > 1 THEN <<>> ELSE list
             la == Append(lf, Layout[b][d + 1].code)
  <2>2. Layout[b][d + 1].kind = "def"
      BY <1>3, <2>1 DEF TakeDefinition, NextIs
  <2>3. /\ Len(lf) < MaxList
        /\ Position(first, n, first[b] + (d + 1), 1, la)
        /\ ListRight(first, n, la)
      BY <1>1, <2>1, <2>2, DefinitionTaken
  <2>4. lf = ListForDefinition
      BY DEF ListForDefinition, StartOver
  <2>5. list' = la
      BY <1>3, <2>1, <2>3, <2>4, Zenon DEF TakeDefinition, RoomForDefinition
  <2>6. idx' = 1
      BY <1>1, <1>3 DEF TakeDefinition, StartOver
  <2>7. work' = Tail(work) /\ slots' = slots
      BY <1>3 DEF TakeDefinition
  <2> HIDE DEF la
  <2>8. InTurn(first, n, Waiting, Tail(work), 1, la)
      BY <2>1, <2>3
  <2>9. QED
      BY <1>2, <2>3, <2>5, <2>6, <2>7, <2>8, Zenon
<1>4. ASSUME NextIs("val"), idx' = idx + 1, work' = Tail(work), list' = list,
             Right(slots')
      PROVE  /\ InTurn(first, n, Waiting', work', idx', list')
             /\ ListRight(first, n, list') /\ Right(slots')
  <2>1. InTurn(first, n, Waiting, Tail(work), idx + 1, list)
      BY <1>4, ValueAtHand
  <2>2. QED
      BY <1>2, <1>4, <2>1, Zenon
<1>5. CASE FileValue
  <2>1. NextIs("val") /\ idx' = idx + 1 /\ work' = Tail(work) /\ list' = list
      BY <1>5 DEF FileValue
  <2>2. CodeAtIdx = Head(work).code
      BY <1>5, <2>1, ValueAtHand DEF FileValue
  <2> DEFINE r == ReadingOf(Head(work), CodeAtIdx)
  <2>3. r.typed => r.data.from = r.obis
      BY <2>2 DEF ReadingOf
  <2>4. slots' = slots \/ slots' = Put(slots, r)
      BY <1>5 DEF FileValue, CacheReading
  <2> HIDE DEF r
  <2>5. Right(Put(slots, r))
      BY <1>1, <2>3, RightPut
  <2>6. Right(slots')
      BY <2>4, <2>5, Zenon
  <2>7. QED
      BY <1>4, <2>1, <2>6
<1>6. CASE PassValue
    BY <1>4, <1>6 DEF PassValue
<1>7. CASE GiveUpBlock
    BY <1>7, ValueAtHand DEF GiveUpBlock
<1>8. QED
    BY <1>3, <1>5, <1>6, <1>7 DEF HandleItem

\* Taking a block from the buffer, whatever the line has brought by then.
LEMMA ReadInTurn ==
    ASSUME NEW first, NEW n, Numbered(first), Matched(first, n),
           TypeOK, Read, InTurn(first, n, Waiting, work, idx, list)
    PROVE  InTurn(first, n, Waiting', work', idx', list')
<1>1. PICK k \in 0 .. Len(line) : ReadUart(k)
    BY DEF Read
<1>2. /\ Len(Waiting) \in Nat \ {0} /\ work' = Waiting[1]
      /\ Len(Waiting') = Len(Waiting) - 1
      /\ \A i \in 1 .. Len(Waiting) - 1 : Waiting'[i] = Waiting[i + 1]
    BY <1>1, BlocksRead
<1>3. InTurn(first, n, Waiting, <<>>, idx, list) /\ idx' = idx /\ list' = list
    BY <1>1 DEF ReadUart
<1>4. InTurn(first, n, Waiting', work', idx, list)
    BY <1>2, <1>3, TurnAfterRead
<1>5. QED
    BY <1>3, <1>4, Zenon

\* The meter sends a push in which nothing is odd.
LEMMA PushInTurn ==
    ASSUME NEW first, NEW n, Numbered(first), Matched(first, n),
           TypeOK, line = <<>>, line' = Blocks({}, "number"), UNCHANGED task,
           InTurn(first, n, Waiting, work, idx, list)
    PROVE  InTurn(first, n, Waiting', work', idx', list')
<1> DEFINE p == Blocks({}, "number")
<1>1. buf \in Seq(Seq(Item)) /\ push \in 0 .. PushMod
    BY DEF TypeOK
<1>2. p \in Seq(Seq(Item)) /\ Len(p) = Len(Layout)
    BY <1>1, BlocksTyped
<1>3. \A b \in 1 .. Len(Layout) : Shape(p[b], b, 0)
  <2>1. SUFFICES ASSUME NEW b \in 1 .. Len(Layout) PROVE Shape(p[b], b, 0)
      OBVIOUS
  <2>2. b \in DOMAIN Layout /\ DOMAIN Layout[b] = 1 .. Len(Layout[b])
        /\ Len(Layout[b]) \in Nat
      BY LayoutTyped
  <2>3. p[b] = [i \in 1 .. Len(Layout[b]) |->
                  [kind |-> Layout[b][i].kind, code |-> Layout[b][i].code,
                   type |-> IF <<b, i>> \in {} THEN "number" ELSE "number",
                   push |-> PushNumber]]
      BY <2>2 DEF Blocks
  <2>4. Len(p[b]) = Len(Layout[b])
      BY <2>2, <2>3
  <2>5. \A i \in 1 .. Len(Layout[b]) : 0 + i = i
      BY <2>2
  <2>6. QED
      BY <2>2, <2>3, <2>4, <2>5 DEF Shape
<1> HIDE DEF p
<1>4. Waiting = buf
  <2>1. buf \o <<>> = buf
      BY <1>1, ConcatEmptySeq
  <2>2. QED
      BY <2>1, Zenon DEF Waiting, Joined
<1>5. Waiting' = Joined(buf, p)
    BY DEF Waiting, task, p
<1> DEFINE vs == Joined(buf, p)
<1>6. Len(vs) = Len(buf) + Len(p)
    BY <1>1, <1>2, JoinedBlocks
<1>7. \A j \in 1 .. Len(buf) : vs[j] = buf[j]
    BY <1>1, <1>2, JoinedBlocks
<1>8. \A j \in 1 .. Len(p) : vs[Len(buf) + j] = p[j]
    BY <1>1, <1>2, JoinedBlocks
<1>9. Len(buf) \in Nat
    BY <1>1, LenProperties
<1> HIDE DEF vs
<1>10. \A b \in 1 .. Len(Layout) : Shape(vs[Len(buf) + b], b, 0)
    BY <1>2, <1>3, <1>8
<1>11. InTurn(first, n, buf, work, idx, list)
    BY <1>4, Zenon
<1>12. Len(vs) = Len(buf) + Len(Layout)
    BY <1>2, <1>6
<1>13. InTurn(first, n, vs, work, idx, list)
    BY <1>7, <1>9, <1>10, <1>11, <1>12, TurnAfterPush
<1>14. QED
    BY <1>5, <1>13, Zenon DEF vs, task

\* At the start nothing waits, and the next item is the first of a push.
LEMMA PushInitInv ==
    ASSUME NEW first, NEW n, Numbered(first), Matched(first, n), Init
    PROVE  PushInv(first, n)
<1>1. PICK L \in Nat : L = Len(Layout)
    BY LayoutTyped
<1>2. L # 0
  <2>1. SUFFICES ASSUME L = 0 PROVE FALSE
      OBVIOUS
  <2>2. first[L + 1] = 0
      BY <2>1 DEF Numbered
  <2>3. MaxList \in Nat
      BY PushAssumption
  <2>4. n \in 1 .. MaxList /\ n < 0
      BY <1>1, <2>2 DEF Matched
  <2>5. QED
      BY <2>3, <2>4
<1>3. L \in 1 .. Len(Layout)
    BY <1>1, <1>2
<1>4. PICK k \in Nat : k = Len(Layout[L])
    BY <1>3, LayoutTyped
<1>5. Waiting = <<>>
  <2>1. <<>> \o <<>> = <<>>
      BY ConcatEmptySeq, EmptySeq
  <2>2. QED
      BY <2>1, Zenon DEF Init, Waiting, Joined
<1>6. Shape(<<>>, L, k)
  <2>1. Len(<<>>) + k = k
      BY EmptySeq
  <2>2. \A i \in 1 .. Len(<<>>) : FALSE
      BY EmptySeq
  <2>3. QED
      BY <1>4, <2>1, <2>2 DEF Shape
<1>7. Position(first, n, first[L] + k, 1, <<>>)
  <2>1. PICK N \in Nat : N = first[L + 1] /\ N = first[L] + k
      BY <1>1, <1>3, <1>4, FirstTyped
  <2>2. n < N /\ n \in Nat
    <3>1. MaxList \in Nat
        BY PushAssumption
    <3>2. QED
        BY <1>1, <2>1, <3>1 DEF Matched
  <2>3. ~ (N # 0 /\ N <= n) /\ ~ (N # first[Len(Layout) + 1])
      BY <1>1, <2>1, <2>2
  <2>4. Position(first, n, N, 1, <<>>)
      BY <2>3 DEF Position
  <2>5. QED
      BY <2>1, <2>4, Zenon
<1> DEFINE m == [i \in 0 .. Len(<<>>) |-> L]
<1>8. /\ m \in [0 .. Len(<<>>) -> 1 .. Len(Layout)] /\ m[0] = L
      /\ m[Len(<<>>)] = Len(Layout)
  <2>1. 0 \in 0 .. Len(<<>>) /\ Len(<<>>) \in 0 .. Len(<<>>)
      BY EmptySeq
  <2>2. QED
      BY <1>1, <1>3, <2>1
<1>9. \A i \in 1 .. Len(<<>>) : FALSE
    BY EmptySeq
<1> HIDE DEF m
<1>10. Chain(m, <<>>)
    BY <1>8, <1>9 DEF Chain
<1>11. InTurn(first, n, <<>>, <<>>, 1, <<>>)
    BY <1>6, <1>7, <1>8, <1>10 DEF InTurn
<1>12. ListRight(first, n, <<>>)
    BY <1>9 DEF ListRight
<1>13. Right(slots)
    BY DEF Init, CacheInit, Zeroed, Right
<1>14. QED
    BY <1>5, <1>11, <1>12, <1>13, Zenon DEF Init, PushInv

LEMMA PushStepInv ==
    ASSUME NEW first, NEW n, Numbered(first), Matched(first, n),
           TypeOK, PushInv(first, n), [Next]_vars
    PROVE  PushInv(first, n)'
<1>1. SUFFICES ASSUME Undisturbed'
               PROVE  /\ InTurn(first, n, Waiting', work', idx', list')
                      /\ ListRight(first, n, list') /\ Right(slots')
    BY DEF PushInv
<1>2. /\ faults \in 0 .. MaxFaults /\ MaxFaults \in Nat
      /\ faults' = MaxFaults
    BY <1>1, PushAssumption DEF TypeOK, Undisturbed
<1>3. ~ (faults > 0 /\ faults' = faults - 1)
    BY <1>2
<1>4. faults' = faults
    BY <1>3 DEF Next, StartTask, Read, ReadUart, HandleItem, TakeDefinition,
                FileValue, PassValue, GiveUpBlock, MeterPushes, BlockLost,
                Broker, vars
<1>5. /\ InTurn(first, n, Waiting, work, idx, list)
      /\ ListRight(first, n, list) /\ Right(slots)
    BY <1>2, <1>4 DEF PushInv, Undisturbed
<1>6. CASE HandleItem
    BY <1>5, <1>6, ItemInTurn
<1>7. CASE Read
  <2>1. InTurn(first, n, Waiting', work', idx', list')
      BY <1>5, <1>7, ReadInTurn
  <2>2. list' = list /\ slots' = slots
      BY <1>7 DEF Read, ReadUart
  <2>3. QED
      BY <1>5, <2>1, <2>2, Zenon
<1>8. CASE MeterPushes
  <2>1. line = <<>> /\ line' = Blocks({}, "number") /\ UNCHANGED task
      BY <1>3, <1>8 DEF MeterPushes
  <2>2. InTurn(first, n, Waiting', work', idx', list')
      BY <1>5, <2>1, PushInTurn
  <2>3. QED
      BY <1>5, <2>1, <2>2, Zenon DEF task
<1>9. CASE BlockLost
    BY <1>3, <1>9 DEF BlockLost
<1>10. CASE StartTask \/ Broker \/ UNCHANGED vars
  <2>1. UNCHANGED <<slots, list, idx, buf, work, line>>
      BY <1>10 DEF StartTask, CreateMutex, Broker, vars, task
  <2>2. Waiting' = Waiting
      BY <2>1, Zenon DEF Waiting
  <2>3. QED
      BY <1>5, <2>1, <2>2, Zenon
<1>11. QED
    BY <1>6, <1>7, <1>8, <1>9, <1>10 DEF Next

\* As long as no block is lost and no value is odd, each reading in the cache
\* carries the value of the very object it is filed under, however the blocks
\* of a push reach the task and whatever the broker does: for every push that
\* is n definitions and then values, value i belonging to definition i + 1, with
\* room for the definitions in push_obis_list.
THEOREM FiledRightHolds ==
    ASSUME NEW first, NEW n, Numbered(first), Matched(first, n)
    PROVE  Spec => []FiledRight
<1>1. Init => TypeOK /\ PushInv(first, n)
    BY PushInitTyped, PushInitInv
<1>2. TypeOK /\ PushInv(first, n) /\ [Next]_vars => (TypeOK /\ PushInv(first, n))'
    BY PushStepTyped, PushStepInv
<1>3. PushInv(first, n) => FiledRight
    BY DEF PushInv, FiledRight, Right
<1>4. QED
    BY <1>1, <1>2, <1>3, PTL DEF Spec

-----------------------------------------------------------------------------
(* What the cache shows of the last push                                   *)

\* What has just been put is what is found, and nothing else is disturbed.
LEMMA PutIsFound ==
    ASSUME NEW s \in [Slots -> Reading], NEW r \in Reading, r.typed,
           Matching(s, r.obis) # {} \/ Free(s) # {}
    PROVE  Lookup(Put(s, r), r.obis) = r
<1> DEFINE M == Matching(s, r.obis)
           t == Put(s, r)
<1>1. PICK j \in Slots : t = [s EXCEPT ![j] = r] /\ Matching(t, r.obis) # {}
                         /\ First(Matching(t, r.obis)) = j
  <2>1. CASE M # {}
    <3> DEFINE j == First(M)
    <3>1. j \in M
        BY <2>1, FirstIsLeast DEF Matching
    <3>2. t = [s EXCEPT ![j] = r]
        BY <2>1 DEF Put
    <3>3. j \in Slots
        BY <3>1 DEF Matching
    <3> HIDE DEF j, t
    <3>4. \A k \in Slots : t[k] = IF k = j THEN r ELSE s[k]
        BY <3>2, <3>3
    <3>5. Matching(t, r.obis) = M
        BY <3>1, <3>4 DEF Matching, Occupied
    <3>6. First(Matching(t, r.obis)) = j /\ Matching(t, r.obis) # {}
        BY <2>1, <3>5, Zenon DEF j
    <3>7. QED
        BY <3>2, <3>3, <3>6, Zenon DEF t
  <2>2. CASE M = {}
    <3> DEFINE j == First(Free(s))
    <3>1. j \in Free(s)
        BY <2>2, FirstIsLeast DEF Free
    <3>2. t = [s EXCEPT ![j] = r]
        BY <2>2 DEF Put
    <3>3. j \in Slots
        BY <3>1 DEF Free
    <3> HIDE DEF j, t
    <3>4. \A k \in Slots : t[k] = IF k = j THEN r ELSE s[k]
        BY <3>2, <3>3
    <3>5. Matching(t, r.obis) = {j}
        BY <2>2, <3>3, <3>4 DEF Matching, Occupied
    <3>6. {j} # {} /\ {j} \in SUBSET Slots
        BY <3>3
    <3>7. First(Matching(t, r.obis)) \in {j} /\ Matching(t, r.obis) # {}
        BY <3>5, <3>6, FirstIsLeast
    <3>8. QED
        BY <3>2, <3>3, <3>7, Zenon DEF t
  <2>3. QED
      BY <2>1, <2>2
<1>2. Lookup(t, r.obis) = t[j]
    BY <1>1 DEF Lookup
<1>3. t[j] = r
    BY <1>1
<1>4. QED
    BY <1>2, <1>3

LEMMA OthersStay ==
    ASSUME NEW s \in [Slots -> Reading], NEW r \in Reading, NEW c, c # r.obis
    PROVE  Lookup(Put(s, r), c) = Lookup(s, c)
<1> DEFINE t == Put(s, r)
<1>1. CASE t = s
    BY <1>1
<1>2. CASE t # s
  <2>1. PICK j \in Slots :
           /\ t = [s EXCEPT ![j] = r]
           /\ \/ Occupied(s[j]) /\ s[j].obis = r.obis
              \/ ~ Occupied(s[j])
      BY <1>2, PutFillsOneSlot
  <2> HIDE DEF t
  <2>2. \A k \in Slots : t[k] = IF k = j THEN r ELSE s[k]
      BY <2>1
  <2>3. j \notin Matching(s, c) /\ Matching(t, c) = Matching(s, c)
      BY <2>1, <2>2 DEF Matching
  <2>4. Matching(s, c) # {} => First(Matching(s, c)) \in Matching(s, c)
      BY FirstIsLeast DEF Matching
  <2>5. Matching(s, c) # {} => t[First(Matching(s, c))] = s[First(Matching(s, c))]
      BY <2>2, <2>3, <2>4 DEF Matching
  <2>6. QED
      BY <2>3, <2>5 DEF Lookup, t
<1>3. QED
    BY <1>1, <1>2

\* While only values' codes are in a table without twins, there is a free slot
\* for the one that is not yet there.
LEMMA RoomForValue ==
    ASSUME RoomInCache, Unique, NEW c \in ValueCodes, Matching(slots, c) = {},
           \A j \in Slots : Occupied(slots[j]) => slots[j].obis \in ValueCodes
    PROVE  Free(slots) # {}
<1> SUFFICES ASSUME Free(slots) = {} PROVE FALSE
    OBVIOUS
<1>1. \A j \in Slots : /\ Occupied(slots[j])
                       /\ slots[j].obis \in ValueCodes \ {c}
    BY DEF Free, Matching
<1> DEFINE V == ValueCodes
           W == ValueCodes \ {c}
           g == [j \in Slots |-> slots[j].obis]
<1>2. PICK place \in [V -> Slots] : \A x, y \in V : place[x] = place[y] => x = y
    BY DEF RoomInCache
<1>3. IsFiniteSet(Slots)
    BY FS_Interval, CacheAssumption DEF Slots
<1>4. place \in Injection(V, Slots)
    BY <1>2 DEF Injection, IsInjective
<1>5. IsFiniteSet(V) /\ Cardinality(V) <= Cardinality(Slots)
    BY <1>3, <1>4, FS_Injection
<1>6. g \in [Slots -> W] /\ \A i, j \in Slots : g[i] = g[j] => i = j
    BY <1>1 DEF Unique
<1>7. g \in Injection(Slots, W)
    BY <1>6 DEF Injection, IsInjective
<1>8. IsFiniteSet(W) /\ Cardinality(W) = Cardinality(V) - 1
    BY <1>5, FS_RemoveElement
<1>9. Cardinality(Slots) <= Cardinality(W)
    BY <1>7, <1>8, FS_Injection
<1>10. Cardinality(V) \in Nat /\ Cardinality(W) \in Nat /\ Cardinality(Slots) \in Nat
    BY <1>3, <1>5, <1>8, FS_CardinalityType
<1> HIDE DEF V, W
<1>11. QED
    BY <1>5, <1>8, <1>9, <1>10

Fresh(w, p) == \A i \in 1 .. Len(w) : w[i].push = p
HasValue(w, c) == \E i \in 1 .. Len(w) : w[i].kind = "val" /\ w[i].code = c
Coming(l, c) == \E b \in 1 .. Len(l) : HasValue(l[b], c)
Shown(s, p, c) == Lookup(s, c).data = [from |-> c, push |-> p]

\* Every value of the push is shown or still to come.  A block of the push
\* before may be on the table while the whole push is still on the line.
Showing(cr, b, w, l, s, p) ==
    /\ b = <<>>
    /\ w # <<>> => cr
    /\ \A j \in Slots : Occupied(s[j]) => s[j].obis \in ValueCodes
    /\ \A i \in 1 .. Len(l) : Fresh(l[i], p)
    /\ p # 0 => \/ \A c \in ValueCodes : Coming(l, c)
                \/ /\ Fresh(w, p)
                   /\ \A c \in ValueCodes :
                         Shown(s, p, c) \/ HasValue(w, c) \/ Coming(l, c)

LEMMA TakenApart ==
    ASSUME NEW w \in Seq(Item), w # <<>>
    PROVE  /\ \A p : Fresh(w, p) => Head(w).push = p /\ Fresh(Tail(w), p)
           /\ \A c : HasValue(w, c) => \/ Head(w).kind = "val" /\ Head(w).code = c
                                       \/ HasValue(Tail(w), c)
<1>1. /\ Head(w) = w[1] /\ Len(w) \in Nat \ {0} /\ Len(Tail(w)) = Len(w) - 1
      /\ \A i \in 1 .. Len(w) - 1 : Tail(w)[i] = w[i + 1]
    BY HeadAndRest
<1>2. ASSUME NEW p, Fresh(w, p)
      PROVE  Head(w).push = p /\ Fresh(Tail(w), p)
  <2>1. 1 \in 1 .. Len(w) /\ \A i \in 1 .. Len(w) - 1 : i + 1 \in 1 .. Len(w)
      BY <1>1
  <2>2. QED
      BY <1>1, <1>2, <2>1 DEF Fresh
<1>3. ASSUME NEW c, HasValue(w, c), ~ (Head(w).kind = "val" /\ Head(w).code = c)
      PROVE  HasValue(Tail(w), c)
  <2>1. PICK i \in 1 .. Len(w) : w[i].kind = "val" /\ w[i].code = c
      BY <1>3 DEF HasValue
  <2>2. i # 1
      BY <1>1, <1>3, <2>1
  <2>3. i - 1 \in 1 .. Len(w) - 1 /\ (i - 1) + 1 = i
      BY <1>1, <2>2
  <2>4. QED
      BY <1>1, <2>1, <2>3 DEF HasValue
<1>4. QED
    BY <1>2, <1>3

LEMMA ItemShown ==
    ASSUME NEW first, NEW n, Numbered(first), Matched(first, n), Covered(first, n),
           RoomInCache, TypeOK, Unique, HandleItem,
           InTurn(first, n, Waiting, work, idx, list), ListRight(first, n, list),
           Showing(created, buf, work, line, slots, push)
    PROVE  Showing(created', buf', work', line', slots', push')
<1>1. /\ work \in Seq(Item) /\ work # <<>> /\ slots \in [Slots -> Reading]
      /\ Head(work) \in Item
  <2>1. work \in Seq(Item) /\ work # <<>> /\ slots \in [Slots -> Reading]
      BY DEF TypeOK, CacheTypeOK, HandleItem, TakeDefinition, FileValue, PassValue,
             GiveUpBlock, NextIs
  <2>2. QED
      BY <2>1, HeadAndRest
<1>2. created = TRUE
    BY <1>1 DEF Showing, TypeOK, CacheTypeOK
<1>3. UNCHANGED <<created, buf, line, push>>
    BY DEF HandleItem, TakeDefinition, FileValue, PassValue, GiveUpBlock, CacheReading
<1>4. work' = Tail(work)
    BY ValueAtHand DEF HandleItem, TakeDefinition, FileValue, PassValue, GiveUpBlock
<1>5. ~ PassValue
    BY ValueAtHand DEF PassValue, TypeOK
<1> DEFINE r == ReadingOf(Head(work), CodeAtIdx)
<1>6. CASE FileValue
  <2>1. /\ Head(work).type = "number" /\ Head(work).code \in ValueCodes
        /\ CodeAtIdx = Head(work).code
      BY <1>6, ValueAtHand DEF FileValue
  <2>2. Head(work).code \in Codes
      BY <1>1 DEF Item
  <2>3. /\ r \in Reading /\ r.typed /\ r.obis = Head(work).code
        /\ r.data = [from |-> Head(work).code, push |-> Head(work).push]
      BY <1>1, <2>1, <2>2, ReadingOfTyped DEF ReadingOf
  <2>4. slots' = Put(slots, r)
      BY <1>2, <1>6 DEF FileValue, CacheReading
  <2>5. \A j \in Slots : Occupied(slots[j]) => slots[j].obis \in ValueCodes
      BY DEF Showing
  <2> HIDE DEF r
  <2>6. Matching(slots, r.obis) # {} \/ Free(slots) # {}
      BY <2>1, <2>3, <2>5, RoomForValue
  <2>7. Lookup(slots', r.obis) = r
      BY <1>1, <2>3, <2>4, <2>6, PutIsFound
  <2>8. \A c : c # r.obis => Lookup(slots', c) = Lookup(slots, c)
      BY <1>1, <2>3, <2>4, OthersStay
  <2>9. \A j \in Slots : Occupied(slots'[j]) => slots'[j].obis \in ValueCodes
    <3>1. slots' = slots \/ \E j \in Slots : slots' = [slots EXCEPT ![j] = r]
        BY <2>4, PutFillsOneSlot
    <3>2. \A j \in Slots : slots'[j] = slots[j] \/ slots'[j] = r
        BY <1>1, <3>1
    <3>3. QED
        BY <2>1, <2>3, <2>5, <3>2
  <2>10. ASSUME Fresh(work, push), NEW c \in ValueCodes,
                Shown(slots, push, c) \/ HasValue(work, c) \/ Coming(line, c)
         PROVE  Shown(slots', push, c) \/ HasValue(Tail(work), c) \/ Coming(line, c)
    <3>1. CASE c = r.obis
      <4>1. Head(work).push = push
          BY <1>1, <2>10, TakenApart
      <4>2. Shown(slots', push, c)
          BY <2>3, <2>7, <3>1, <4>1 DEF Shown
      <4>3. QED
          BY <4>2
    <3>2. CASE c # r.obis
      <4>1. Shown(slots, push, c) => Shown(slots', push, c)
          BY <2>8, <3>2 DEF Shown
      <4>2. HasValue(work, c) => HasValue(Tail(work), c)
          BY <1>1, <2>3, <3>2, TakenApart
      <4>3. QED
          BY <2>10, <4>1, <4>2
    <3>3. QED
        BY <3>1, <3>2
  <2>11. Fresh(work, push) => Fresh(Tail(work), push)
      BY <1>1, TakenApart
  <2>12. Showing(created, buf, Tail(work), line, slots', push)
      BY <1>2, <2>9, <2>10, <2>11 DEF Showing
  <2>13. QED
      BY <1>3, <1>4, <2>12, Zenon
<1>7. CASE TakeDefinition
  <2>1. Head(work).kind # "val" /\ slots' = slots
      BY <1>7 DEF TakeDefinition, NextIs
  <2>2. \A c : HasValue(work, c) => HasValue(Tail(work), c)
      BY <1>1, <2>1, TakenApart
  <2>3. Fresh(work, push) => Fresh(Tail(work), push)
      BY <1>1, TakenApart
  <2>4. Showing(created, buf, Tail(work), line, slots, push)
      BY <1>2, <2>2, <2>3 DEF Showing
  <2>5. QED
      BY <1>3, <1>4, <2>1, <2>4, Zenon
<1>8. ~ GiveUpBlock
    BY ValueAtHand DEF GiveUpBlock
<1>9. QED
    BY <1>5, <1>6, <1>7, <1>8 DEF HandleItem

\* With nothing in the buffer, a read that brings at most one block brings one,
\* and leaves the buffer empty.
LEMMA OneBlockRead ==
    ASSUME TypeOK, buf = <<>>, NEW k \in 0 .. Len(line), k <= 1, ReadUart(k)
    PROVE  /\ buf' = <<>> /\ Len(line) \in Nat \ {0} /\ work' = line[1]
           /\ Len(line') = Len(line) - 1
           /\ \A i \in 1 .. Len(line) - 1 : line'[i] = line[i + 1]
<1> DEFINE f == SubSeq(line, 1, k)
<1>1. /\ line \in Seq(Seq(Item)) /\ Len(line) \in Nat /\ k \in Nat
      /\ f \in Seq(Seq(Item)) /\ Len(f) = k
    BY RestOfLine, LenProperties DEF TypeOK
<1>2. f # <<>> /\ work' = Head(f) /\ buf' = Tail(f)
      /\ line' = SubSeq(line, k + 1, Len(line))
  <2>1. <<>> \o f = f
      BY <1>1, ConcatEmptySeq
  <2>2. buf \o f = f
      BY <2>1, Zenon
  <2>3. QED
      BY <2>2 DEF ReadUart
<1>3. k = 1
  <2>1. k # 0
    <3>1. SUFFICES ASSUME k = 0 PROVE FALSE
        OBVIOUS
    <3>2. Len(f) = 0
        BY <1>1, <3>1
    <3>3. f = <<>>
      <4> HIDE DEF f
      <4>1. QED
          BY <1>1, <3>2, EmptySeq
    <3>4. QED
        BY <1>2, <3>3
  <2>2. QED
      BY <1>1, <2>1
<1>4. 1 \in 1 .. Len(line) /\ Len(line) # 0
    BY <1>1, <1>3
<1>5. f[1] = line[1]
    BY <1>1, <1>3, <1>4 DEF f
<1> HIDE DEF f
<1>6. Head(f) = f[1] /\ Tail(f) = <<>>
  <2>1. Len(Tail(f)) = 0 /\ Tail(f) \in Seq(Seq(Item)) /\ Head(f) = f[1]
      BY <1>1, <1>2, <1>3, HeadAndRest
  <2>2. QED
      BY <2>1, EmptySeq
<1>7. line' = SubSeq(line, 2, Len(line))
    BY <1>2, <1>3
<1>8. Len(line') = Len(line) - 1 /\ \A i \in 1 .. Len(line) - 1 : line'[i] = line[i + 1]
  <2>1. line # <<>>
      BY <1>4, EmptySeq
  <2>2. line' = Tail(line)
      BY <1>1, <1>7, <2>1, TailIsSubSeq
  <2>3. QED
      BY <1>1, <2>1, <2>2, HeadAndRest
<1>9. QED
    BY <1>1, <1>2, <1>4, <1>5, <1>6, <1>8

LEMMA ReadShown ==
    ASSUME ~ Bursts, TypeOK, Read, Showing(created, buf, work, line, slots, push)
    PROVE  Showing(created', buf', work', line', slots', push')
<1>1. PICK k \in 0 .. Len(line) : k <= 1 /\ ReadUart(k)
    BY DEF Read
<1>2. buf = <<>> /\ created /\ work = <<>>
      /\ UNCHANGED <<created, slots, push>>
    BY <1>1 DEF Showing, ReadUart
<1>3. /\ buf' = <<>> /\ Len(line) \in Nat \ {0} /\ work' = line[1]
      /\ Len(line') = Len(line) - 1
      /\ \A i \in 1 .. Len(line) - 1 : line'[i] = line[i + 1]
    BY <1>1, <1>2, OneBlockRead
<1>4. 1 \in 1 .. Len(line) /\ \A i \in 1 .. Len(line) - 1 : i + 1 \in 1 .. Len(line)
    BY <1>3
<1>5. \A i \in 1 .. Len(line) : Fresh(line[i], push)
    BY DEF Showing
<1>6. Fresh(work', push) /\ \A i \in 1 .. Len(line') : Fresh(line'[i], push)
    BY <1>3, <1>4, <1>5
<1>7. \A c : ~ HasValue(work, c)
    BY <1>2, EmptySeq DEF HasValue
<1>8. ASSUME NEW c, Coming(line, c)
      PROVE  HasValue(work', c) \/ Coming(line', c)
  <2>1. PICK b \in 1 .. Len(line) : HasValue(line[b], c)
      BY <1>8 DEF Coming
  <2>2. CASE b = 1
      BY <1>3, <2>1, <2>2
  <2>3. CASE b # 1
    <3>1. b - 1 \in 1 .. Len(line) - 1 /\ (b - 1) + 1 = b
        BY <1>3, <2>3
    <3>2. HasValue(line'[b - 1], c)
        BY <1>3, <2>1, <3>1
    <3>3. QED
        BY <1>3, <3>1, <3>2 DEF Coming
  <2>4. QED
      BY <2>2, <2>3
<1>9. Showing(created, <<>>, work', line', slots, push)
    BY <1>2, <1>6, <1>7, <1>8 DEF Showing
<1>10. QED
    BY <1>2, <1>3, <1>9, Zenon

LEMMA PushShown ==
    ASSUME TypeOK, line' = Blocks({}, "number"), push' = PushNumber, UNCHANGED task,
           Showing(created, buf, work, line, slots, push)
    PROVE  Showing(created', buf', work', line', slots', push')
<1> DEFINE p == Blocks({}, "number")
<1>1. /\ \A b \in 1 .. Len(Layout) :
            /\ Len(p[b]) = Len(Layout[b])
            /\ \A i \in 1 .. Len(Layout[b]) :
                  /\ p[b][i].kind = Layout[b][i].kind /\ p[b][i].code = Layout[b][i].code
                  /\ p[b][i].push = PushNumber
  <2>1. SUFFICES ASSUME NEW b \in 1 .. Len(Layout)
                 PROVE  /\ Len(p[b]) = Len(Layout[b])
                        /\ \A i \in 1 .. Len(Layout[b]) :
                              /\ p[b][i].kind = Layout[b][i].kind
                              /\ p[b][i].code = Layout[b][i].code
                              /\ p[b][i].push = PushNumber
      OBVIOUS
  <2>2. b \in DOMAIN Layout /\ DOMAIN Layout[b] = 1 .. Len(Layout[b])
        /\ Len(Layout[b]) \in Nat
      BY LayoutTyped
  <2>3. p[b] = [i \in 1 .. Len(Layout[b]) |->
                  [kind |-> Layout[b][i].kind, code |-> Layout[b][i].code,
                   type |-> IF <<b, i>> \in {} THEN "number" ELSE "number",
                   push |-> PushNumber]]
      BY <2>2 DEF Blocks
  <2>4. QED
      BY <2>2, <2>3
<1>2. Len(p) = Len(Layout)
  <2>1. push \in 0 .. PushMod
      BY DEF TypeOK
  <2>2. QED
      BY <2>1, BlocksTyped
<1> HIDE DEF p
<1>3. \A b \in 1 .. Len(p) : Fresh(p[b], PushNumber)
    BY <1>1, <1>2 DEF Fresh
<1>4. ASSUME NEW c \in ValueCodes PROVE Coming(p, c)
  <2>1. PICK x \in Places : c = Layout[x[1]][x[2]].code
      BY DEF ValueCodes
  <2>2. PICK b \in DOMAIN Layout :
           x \in {b} \X {i \in DOMAIN Layout[b] : Layout[b][i].kind = "val"}
      BY DEF Places
  <2>3. PICK i \in DOMAIN Layout[b] : Layout[b][i].kind = "val" /\ x[1] = b /\ x[2] = i
      BY <2>2
  <2>4. b \in 1 .. Len(Layout) /\ i \in 1 .. Len(Layout[b])
      BY LayoutTyped
  <2>5. p[b][i].kind = "val" /\ p[b][i].code = c /\ i \in 1 .. Len(p[b])
      BY <1>1, <2>1, <2>3, <2>4
  <2>6. QED
      BY <1>2, <2>4, <2>5 DEF Coming, HasValue
<1>5. Showing(created, buf, work, p, slots, PushNumber)
    BY <1>3, <1>4 DEF Showing
<1>6. QED
    BY <1>5, Zenon DEF task, p

ShowInv == Undisturbed => Showing(created, buf, work, line, slots, push)

LEMMA ShowInitInv == Init => ShowInv
<1> SUFFICES ASSUME Init PROVE Showing(created, buf, work, line, slots, push)
    BY DEF ShowInv
<1>1. \A i \in 1 .. Len(<<>>) : FALSE
    BY EmptySeq
<1>2. \A j \in Slots : ~ Occupied(slots[j])
    BY DEF Init, CacheInit, Zeroed, Occupied
<1>3. buf = <<>> /\ work = <<>> /\ line = <<>> /\ push = 0
    BY DEF Init
<1>4. QED
    BY <1>1, <1>2, <1>3 DEF Showing

LEMMA ShowStepInv ==
    ASSUME NEW first, NEW n, Numbered(first), Matched(first, n), Covered(first, n),
           RoomInCache, ~ Bursts,
           TypeOK, Unique, PushInv(first, n), ShowInv, [Next]_vars
    PROVE  ShowInv'
<1>1. SUFFICES ASSUME Undisturbed'
               PROVE  Showing(created', buf', work', line', slots', push')
    BY DEF ShowInv
<1>2. ~ (faults > 0 /\ faults' = faults - 1) /\ faults' = faults
  <2>1. faults \in 0 .. MaxFaults /\ MaxFaults \in Nat /\ faults' = MaxFaults
      BY <1>1, PushAssumption DEF TypeOK, Undisturbed
  <2>2. ~ (faults > 0 /\ faults' = faults - 1)
      BY <2>1
  <2>3. QED
      BY <2>2 DEF Next, StartTask, Read, ReadUart, HandleItem, TakeDefinition,
                  FileValue, PassValue, GiveUpBlock, MeterPushes, BlockLost,
                  Broker, vars
<1>3. /\ InTurn(first, n, Waiting, work, idx, list) /\ ListRight(first, n, list)
      /\ Showing(created, buf, work, line, slots, push)
    BY <1>1, <1>2 DEF PushInv, ShowInv, Undisturbed
<1>4. CASE HandleItem
    BY <1>3, <1>4, ItemShown
<1>5. CASE Read
    BY <1>3, <1>5, ReadShown
<1>6. CASE MeterPushes
  <2>1. line' = Blocks({}, "number") /\ push' = PushNumber /\ UNCHANGED task
      BY <1>2, <1>6 DEF MeterPushes
  <2>2. QED
      BY <1>3, <2>1, PushShown
<1>7. CASE BlockLost
    BY <1>2, <1>7 DEF BlockLost
<1>8. CASE StartTask
  <2>1. Showing(TRUE, buf, work, line, slots, push)
      BY <1>3 DEF Showing
  <2>2. QED
      BY <1>8, <2>1, Zenon DEF StartTask, CreateMutex
<1>9. CASE Broker \/ UNCHANGED vars
    BY <1>3, <1>9, Zenon DEF Broker, vars, task
<1>10. QED
    BY <1>4, <1>5, <1>6, <1>7, <1>8, <1>9 DEF Next

\* When an undisturbed push has been dealt with, the cache shows all of it, each
\* value under its own code: for every such push with a definition for each
\* value and a slot for each code, if no read brings more than one block.
THEOREM ShowsLastPushHolds ==
    ASSUME NEW first, NEW n, Numbered(first), Matched(first, n), Covered(first, n),
           RoomInCache, ~ Bursts
    PROVE  Spec => []ShowsLastPush
<1> DEFINE Inv == TypeOK /\ CacheInv /\ PushInv(first, n) /\ ShowInv
<1>1. Init => Inv
    BY PushInitTyped, PushInitCache, PushInitInv, ShowInitInv
<1>2. Inv /\ [Next]_vars => Inv'
  <2>1. CacheInv => Unique
      BY DEF CacheInv
  <2>2. QED
      BY <2>1, PushStepTyped, PushStepCache, PushStepInv, ShowStepInv
<1>3. Inv => ShowsLastPush
  <2>1. SUFFICES ASSUME ShowInv, Undisturbed, Settled, NEW c \in ValueCodes
                 PROVE  Shown(slots, push, c)
      BY DEF ShowsLastPush, Current, Shown
  <2>2. ~ HasValue(work, c)
      BY <2>1, EmptySeq DEF Settled, HasValue
  <2>3. ~ Coming(line, c)
      BY <2>1, EmptySeq DEF Settled, Coming
  <2>4. QED
      BY <2>1, <2>2, <2>3 DEF ShowInv, Showing, Settled
<1>4. QED
    BY <1>1, <1>2, <1>3, PTL DEF Spec

=============================================================================
