------------------------ MODULE AsciiListener_proofs ------------------------
(***************************************************************************)
(* Proofs about the debug ring and the tasks for meters that speak text.   *)
(* The ring shows the latest octets, for every size.  The listener always  *)
(* has room to read into, for every size of its buffer, and without the    *)
(* mutex nothing reaches the table of readings or a message.               *)
(***************************************************************************)
EXTENDS AsciiListener, ReadingsCache_proofs, SequenceLemmas

-----------------------------------------------------------------------------
(* The debug ring: for every size it implements LastOctets.                *)

\* Within twice the size of the ring, the remainder is a subtraction.
LEMMA Wrapped ==
    ASSUME NEW n \in 0 .. 2 * RingSize - 1
    PROVE  n % RingSize = IF n < RingSize THEN n ELSE n - RingSize
BY RingAssumption, SMTT(30)

LEMMA SuccWraps ==
    ASSUME NEW c \in Cells
    PROVE  /\ Succ(c) \in Cells
           /\ Succ(c) = IF c + 1 = RingSize THEN 0 ELSE c + 1
<1>1. c + 1 \in 0 .. 2 * RingSize - 1
    BY RingAssumption DEF Cells
<1>2. QED
    BY <1>1, Wrapped, RingAssumption DEF Succ, Cells

LEMMA RingInitTyped == RingInit => RingTypeOK
BY RingAssumption DEF RingInit, RingTypeOK, Cells

LEMMA RingStepTyped == RingTypeOK /\ [RingNext]_ring => RingTypeOK'
<1> SUFFICES ASSUME RingTypeOK, [RingNext]_ring
             PROVE  RingTypeOK'
    OBVIOUS
<1>1. CASE WriteOctet
    <2>1. head' \in Cells /\ tail' \in Cells
        BY <1>1, SuccWraps DEF WriteOctet, TailAfter, RingTypeOK
    <2>2. Head(writing) \in Octet /\ writing' \in Seq(Octet)
        BY <1>1 DEF WriteOctet, RingTypeOK, Locked
    <2>3. cells' \in [Cells -> Octet]
        BY <1>1, <2>2 DEF WriteOctet, RingTypeOK
    <2>4. QED
        BY <2>1, <2>2, <2>3 DEF RingTypeOK
<1>2. CASE ClearRing
    BY <1>2, RingAssumption DEF ClearRing, RingTypeOK, Cells
<1>3. CASE \E s \in Seq(Octet) : BeginWrite(s)
    BY <1>3 DEF BeginWrite, RingTypeOK
<1>4. CASE UNCHANGED ring
    BY <1>4 DEF ring, RingTypeOK
<1>5. QED
    BY <1>1, <1>2, <1>3, <1>4 DEF RingNext

\* RingTypeOK holds in every state: no index ever leaves the ring.
THEOREM RingTypeCorrect == RingSpec => []RingTypeOK
BY RingInitTyped, RingStepTyped, PTL DEF RingSpec

-----------------------------------------------------------------------------
\* The cell a reader is at k - 1 steps after cell t.
After(t, k) == (t + k - 1) % RingSize

LEMMA AfterWraps ==
    ASSUME NEW t \in Cells, NEW k \in 1 .. RingSize
    PROVE  /\ After(t, k) \in Cells
           /\ After(t, k) = IF t + k - 1 < RingSize THEN t + k - 1
                            ELSE t + k - 1 - RingSize
<1>1. PICK n \in 0 .. 2 * RingSize - 1 : n = t + k - 1
    BY RingAssumption DEF Cells
<1>2. After(t, k) = IF n < RingSize THEN n ELSE n - RingSize
    BY <1>1, Wrapped DEF After
<1>3. QED
    BY <1>1, <1>2, RingAssumption DEF Cells

\* Starting one cell later is taking one step more.
LEMMA AfterShifts ==
    ASSUME NEW t \in Cells, NEW u \in Cells,
           u = (IF t + 1 = RingSize THEN 0 ELSE t + 1),
           NEW k \in 1 .. RingSize - 1
    PROVE  After(u, k) = After(t, k + 1)
<1>1. k \in 1 .. RingSize /\ k + 1 \in 1 .. RingSize
    BY RingAssumption
<1>2. After(u, k) = IF u + k - 1 < RingSize THEN u + k - 1 ELSE u + k - 1 - RingSize
    BY <1>1, AfterWraps
<1>3. After(t, k + 1) = IF t + (k + 1) - 1 < RingSize THEN t + (k + 1) - 1
                        ELSE t + (k + 1) - 1 - RingSize
    BY <1>1, AfterWraps
<1>4. QED
    BY <1>2, <1>3, RingAssumption DEF Cells

\* The first n cells from t on differ from the one n steps after it.
LEMMA AfterReaches ==
    ASSUME NEW t \in Cells, NEW n \in 0 .. RingSize - 1, NEW h,
           h = (IF t + n < RingSize THEN t + n ELSE t + n - RingSize),
           NEW k \in 1 .. n + 1
    PROVE  After(t, k) = h <=> k = n + 1
<1>1. k \in 1 .. RingSize
    BY RingAssumption
<1>2. After(t, k) = IF t + k - 1 < RingSize THEN t + k - 1 ELSE t + k - 1 - RingSize
    BY <1>1, AfterWraps
<1>3. QED
    BY <1>2, RingAssumption DEF Cells

\* At most RingSize - 1 octets are held, and all of them are shown.
HeldAndShown ==
    /\ Held \in 0 .. RingSize - 1
    /\ Contents \in Seq(Octet) /\ Len(Contents) = Held
    /\ ShownAsHex = Contents

LEMMA AllShown == RingTypeOK => HeldAndShown
<1> SUFFICES ASSUME RingTypeOK PROVE HeldAndShown
    OBVIOUS
<1>1. Held \in 0 .. RingSize - 1
    BY RingAssumption DEF Held, RingTypeOK, Cells
<1>2. \A k \in 1 .. Held : Contents[k] \in Octet
    <2> TAKE k \in 1 .. Held
    <2>1. After(tail, k) \in Cells
        BY <1>1, AfterWraps, RingAssumption DEF RingTypeOK
    <2>2. QED
        BY <2>1 DEF Contents, After, RingTypeOK
<1>3. Contents \in Seq(Octet) /\ Len(Contents) = Held
    <2>1. Contents \in [1 .. Held -> Octet]
        BY <1>2 DEF Contents
    <2>2. QED
        BY <1>1, <2>1
<1>4. \A k \in 1 .. Held : RoomForHex(k)
    BY <1>1, RingAssumption DEF RoomForHex
<1>5. {j \in 1 .. Held : RoomForHex(j)} = 1 .. Held
    BY <1>4
<1>6. ShownAsHex = Contents
    BY <1>5 DEF ShownAsHex, Contents
<1>7. QED
    BY <1>1, <1>3, <1>6 DEF HeldAndShown

LEMMA AllShownNext == RingTypeOK' => HeldAndShown'
BY AllShown, PTL

\* Where one pass of the appending loop leaves the indices.
LEMMA WriteMoves ==
    ASSUME RingTypeOK, WriteOctet
    PROVE  /\ Held' = IF Held = RingSize - 1 THEN Held ELSE Held + 1
           /\ tail' = IF Held # RingSize - 1 THEN tail
                      ELSE IF tail + 1 = RingSize THEN 0 ELSE tail + 1
           /\ head = IF tail + Held < RingSize THEN tail + Held
                     ELSE tail + Held - RingSize
<1>1. /\ RingSize \in Nat /\ RingSize >= 2
      /\ head \in 0 .. RingSize - 1 /\ tail \in 0 .. RingSize - 1
    BY RingAssumption DEF RingTypeOK, Cells
<1>2. head' = IF head + 1 = RingSize THEN 0 ELSE head + 1
    BY SuccWraps DEF WriteOctet, RingTypeOK
<1>3. tail' = IF head' = tail THEN IF tail + 1 = RingSize THEN 0 ELSE tail + 1
              ELSE tail
    BY SuccWraps DEF WriteOctet, TailAfter, RingTypeOK
<1>4. head' = tail <=> Held = RingSize - 1
    BY <1>1, <1>2 DEF Held
<1>5. QED
    BY <1>1, <1>2, <1>3, <1>4 DEF Held

\* What one pass of the appending loop does to what is shown.
LEMMA WriteAdds ==
    ASSUME RingTypeOK, RingTypeOK', WriteOctet
    PROVE  Latest!Add(Head(writing))
<1> DEFINE d == IF Held = RingSize - 1 THEN 1 ELSE 0
           kept == IF d = 1 THEN Tail(Contents) ELSE Contents
<1>1. /\ RingSize \in Nat /\ RingSize >= 2
      /\ tail \in 0 .. RingSize - 1 /\ tail' \in 0 .. RingSize - 1
      /\ Held \in 0 .. RingSize - 1 /\ Held' = Held + 1 - d
      /\ d \in {0, 1} /\ (d = 1 => Held > 0)
    BY RingAssumption, AllShown, WriteMoves DEF HeldAndShown, RingTypeOK, Cells
<1>2. /\ Contents \in Seq(Octet) /\ Len(Contents) = Held
      /\ Contents' \in Seq(Octet) /\ Len(Contents') = Held'
      /\ ShownAsHex = Contents /\ ShownAsHex' = Contents'
    BY AllShown, AllShownNext DEF HeldAndShown
<1>3. Head(writing) \in Octet
    BY DEF RingTypeOK, WriteOctet, Locked
<1>4. /\ d = 0 => tail' = tail
      /\ d = 1 => tail' = IF tail + 1 = RingSize THEN 0 ELSE tail + 1
      /\ head = IF tail + Held < RingSize THEN tail + Held ELSE tail + Held - RingSize
    BY WriteMoves
<1> HIDE DEF d, kept
<1>5. ASSUME NEW k \in 1 .. Held'
      PROVE  /\ After(tail', k) \in Cells
             /\ After(tail', k) = After(tail, k + d)
             /\ After(tail', k) = head <=> k = Held'
    <2>1. k \in 1 .. RingSize /\ k + d \in 1 .. Held + 1
        BY <1>1
    <2>2. After(tail', k) \in Cells
        BY <1>1, <2>1, AfterWraps DEF Cells
    <2>3. After(tail', k) = After(tail, k + d)
        <3>1. CASE d = 0
            BY <1>4, <3>1, <2>1
        <3>2. CASE d = 1
            <4>1. k \in 1 .. RingSize - 1
                BY <1>1, <3>2
            <4>2. QED
                BY <1>1, <1>4, <3>2, <4>1, AfterShifts DEF Cells
        <3>3. QED
            BY <1>1, <3>1, <3>2
    <2>4. After(tail, k + d) = head <=> k + d = Held + 1
        <3>1. tail \in Cells /\ k + d \in 1 .. Held + 1
            BY <1>1, <2>1 DEF Cells
        <3>2. head = IF tail + Held < RingSize THEN tail + Held ELSE tail + Held - RingSize
            BY <1>4
        <3>3. Held \in 0 .. RingSize - 1
            BY <1>1
        <3>4. \A i \in 1 .. Held + 1 : After(tail, i) = head <=> i = Held + 1
            BY <3>1, <3>2, <3>3, AfterReaches
        <3>5. QED
            BY <3>1, <3>4
    <2>5. k + d = Held + 1 <=> k = Held'
        BY <1>1
    <2>6. QED
        BY <2>2, <2>3, <2>4, <2>5
<1>6. /\ kept \in Seq(Octet) /\ Len(kept) = Held - d
      /\ \A k \in 1 .. Held - d : kept[k] = Contents[k + d]
    <2>1. CASE d = 1
        <3>1. kept = Tail(Contents) /\ Contents # <<>>
            BY <1>1, <1>2, <2>1 DEF kept
        <3>2. QED
            BY <1>1, <1>2, <2>1, <3>1
    <2>2. CASE d = 0
        <3>1. kept = Contents
            BY <2>2 DEF kept
        <3>2. QED
            BY <1>1, <1>2, <2>2, <3>1
    <2>3. QED
        BY <1>1, <2>1, <2>2
<1>7. ASSUME NEW k \in 1 .. Held'
      PROVE  Contents'[k] = Append(kept, Head(writing))[k]
    <2>1. Contents'[k] = cells'[After(tail', k)]
        BY DEF Contents, After
    <2>2. cells' = [cells EXCEPT ![head] = Head(writing)] /\ cells \in [Cells -> Octet]
        BY DEF WriteOctet, RingTypeOK
    <2>3. CASE k = Held'
        <3>1. Contents'[k] = Head(writing)
            BY <1>5, <2>1, <2>2, <2>3
        <3>2. Append(kept, Head(writing))[k] = Head(writing)
            BY <1>1, <1>3, <1>6, <2>3
        <3>3. QED
            BY <3>1, <3>2
    <2>4. CASE k # Held'
        <3>1. k \in 1 .. Held - d /\ k + d \in 1 .. Held
            BY <1>1, <2>4
        <3>2. Contents'[k] = cells[After(tail, k + d)]
            BY <1>5, <2>1, <2>2, <2>4
        <3>3. Contents[k + d] = cells[After(tail, k + d)]
            BY <3>1 DEF Contents, After
        <3>4. Append(kept, Head(writing))[k] = kept[k]
            BY <1>1, <1>3, <1>6, <3>1
        <3>5. QED
            BY <1>6, <3>1, <3>2, <3>3, <3>4
    <2>5. QED
        BY <2>3, <2>4
<1>8. Contents' = Append(kept, Head(writing))
    <2>1. Append(kept, Head(writing)) \in Seq(Octet) /\ Len(Append(kept, Head(writing))) = Held'
        BY <1>1, <1>3, <1>6
    <2>2. QED
        BY <1>2, <1>7, <2>1
<1>9. kept = IF Len(Contents) = RingSize - 1 THEN Tail(Contents) ELSE Contents
    BY <1>2 DEF d, kept
<1>10. QED
    BY <1>2, <1>8, <1>9 DEF Latest!Add, Latest!Full

\* ShowsLatest holds of every behaviour of the ring: what the debug page shows
\* implements LastOctets, for every size.
THEOREM RingShowsLatest == RingSpec => ShowsLatest
<1>1. RingInit => Latest!Init
    <2> SUFFICES ASSUME RingInit PROVE ShownAsHex = <<>>
        BY DEF Latest!Init
    <2>1. Held = 0
        BY DEF RingInit, Held
    <2>2. {j \in 1 .. Held : RoomForHex(j)} = 1 .. 0
        BY <2>1
    <2>3. QED
        BY <2>2 DEF ShownAsHex
<1>2. RingTypeOK /\ RingTypeOK' /\ [RingNext]_ring => [Latest!Next]_ShownAsHex
    <2> SUFFICES ASSUME RingTypeOK, RingTypeOK', [RingNext]_ring
                 PROVE  [Latest!Next]_ShownAsHex
        OBVIOUS
    <2>1. CASE WriteOctet
        <3>1. Head(writing) \in Octet
            BY <2>1 DEF WriteOctet, Locked, RingTypeOK
        <3>2. Latest!Add(Head(writing))
            BY <2>1, WriteAdds
        <3>3. QED
            BY <3>1, <3>2 DEF Latest!Next
    <2>2. CASE ClearRing
        <3>1. Held' = 0
            BY <2>2 DEF ClearRing, Held
        <3>2. {j \in 1 .. Held' : RoomForHex(j)} = 1 .. 0
            BY <3>1
        <3>3. ShownAsHex' = <<>>
            BY <3>2 DEF ShownAsHex
        <3>4. QED
            BY <3>3 DEF Latest!Next, Latest!Empty
    <2>3. CASE UNCHANGED <<cells, head, tail>>
        BY <2>3 DEF ShownAsHex, Contents, Held
    <2>4. QED
        BY <2>1, <2>2, <2>3 DEF RingNext, BeginWrite, ring
<1>3. RingTypeOK /\ RingTypeOK' => [WriteOctet => Latest!Add(Head(writing))]_ring
    BY WriteAdds
<1>4. QED
    BY <1>1, <1>2, <1>3, RingTypeCorrect, PTL DEF RingSpec, ShowsLatest, Latest!Spec

-----------------------------------------------------------------------------
(* Room to read into                                                       *)

LEMMA LeastIsIn ==
    ASSUME NEW S \in SUBSET Nat, S # {}
    PROVE  Least(S) \in S
<1>1. PICK x \in S : \A y \in S : x <= y
    BY LeastIn
<1>2. QED
    BY <1>1 DEF Least

\* Only a line that has begun before the end of the buffer can be kept: what
\* RoomLeft needs to know of the text, whatever is in it.
Within ==
    /\ DOMAIN mem = 0 .. BufSize - 1
    /\ len \in Int /\ len <= BufSize - 1 /\ at \in Nat
    /\ task = "am550" => phase \in {"read", "split"}

RoomInv == Within /\ RoomLeft

LEMMA ParseLineStaysWithin ==
    ASSUME Within, ParseLine
    PROVE  RoomInv'
<1> DEFINE ends == Finds(mem, at, Newline)
<1>1. ends \in SUBSET Nat /\ ends # {}
    BY AsciiAssumption DEF Within, ParseLine, Finds
<1>2. at' = Least(ends) + 1 /\ DOMAIN mem' = DOMAIN mem
      /\ phase = "split" /\ UNCHANGED <<task, phase, len>>
    BY DEF ParseLine, Parsed
<1> HIDE DEF ends
<1>3. Least(ends) \in Nat
    BY <1>1, LeastIsIn
<1>4. QED
    BY <1>2, <1>3 DEF Within, RoomInv, RoomLeft

LEMMA LinesDoneLeavesRoom ==
    ASSUME Within, LinesDone
    PROVE  RoomInv'
<1>1. /\ BufSize \in Nat /\ ClearAt \in 1 .. BufSize - 1
      /\ len \in Int /\ len <= BufSize - 1 /\ at \in Nat
    BY AsciiAssumption DEF Within
<1>2. /\ DOMAIN mem' = DOMAIN mem /\ at' = 0 /\ task' = task
      /\ len' = IF GivesUp THEN 0 ELSE len - at
      /\ task = "am550" => phase' = "read"
    BY DEF LinesDone, KeepRest, Moved
<1>3. len' \in Int /\ len' <= BufSize - 1
    BY <1>1, <1>2
<1>4. task = "am550" => len' < BufSize - 1
    BY <1>1, <1>2 DEF GivesUp
<1>5. \A l \in Int : BufSize - l - 1 > 0 <=> l < BufSize - 1
    BY <1>1
<1>6. QED
    BY <1>1, <1>2, <1>3, <1>4, <1>5 DEF Within, RoomInv, RoomLeft, Asked

\* RoomLeft holds in every state, for every size of the buffer and every limit
\* below it: the listener never asks the UART for zero octets.
THEOREM ListenerHasRoom == Spec => []RoomLeft
<1>1. Init => RoomInv
    BY AsciiAssumption DEF Init, RoomInv, Within, RoomLeft, Asked
<1>2. RoomInv /\ [Next]_vars => RoomInv'
    <2> SUFFICES ASSUME RoomInv, [Next]_vars PROVE RoomInv'
        OBVIOUS
    <2>1. CASE Read
        <3>1. PICK n \in 1 .. Len(line) : ReadUart(n)
            BY <2>1 DEF Read
        <3>2. /\ n \in 1 .. Asked /\ len' = len + n /\ at' = 0 /\ phase' = "split"
              /\ task' = task /\ DOMAIN mem' = DOMAIN mem
            BY <3>1 DEF ReadUart, Stored
        <3>3. n \in Int /\ n <= BufSize - len - 1
            BY <3>2, AsciiAssumption DEF Asked, RoomInv, Within
        <3>4. len' \in Int /\ len' <= BufSize - 1
            BY <3>2, <3>3, AsciiAssumption DEF RoomInv, Within
        <3>5. QED
            BY <3>2, <3>4 DEF RoomInv, Within, RoomLeft
    <2>2. CASE ParseLine
        BY <2>2, ParseLineStaysWithin DEF RoomInv
    <2>3. CASE LinesDone
        BY <2>3, LinesDoneLeavesRoom DEF RoomInv
    <2>4. CASE Wake \/ TimesOut \/ PauseEnds
        BY <2>4 DEF Wake, TimesOut, PauseEnds, RoomInv, Within, RoomLeft
    <2>5. CASE ReadIdent
        <3>1. /\ phase = "ident" /\ len' = 0 /\ at' = 0 /\ task' = task
              /\ DOMAIN mem' = DOMAIN mem
            BY <2>5 DEF ReadIdent, Stored
        <3>2. task # "am550"
            BY <3>1 DEF RoomInv, Within
        <3>3. QED
            BY <3>1, <3>2, AsciiAssumption DEF RoomInv, Within, RoomLeft
    <2>6. CASE UNCHANGED <<task, text>>
        BY <2>6 DEF text, RoomInv, Within, RoomLeft, Asked
    <2>7. QED
        BY <2>1, <2>2, <2>3, <2>4, <2>5, <2>6
           DEF Next, Handle, Session, Trace, WebClears, MeterIdentifies, MeterSends,
               Damage, vars
<1>3. RoomInv => RoomLeft
    BY DEF RoomInv
<1>4. QED
    BY <1>1, <1>2, <1>3, PTL DEF Spec

-----------------------------------------------------------------------------
(* Types                                                                   *)

LEMMA SizesAndOctets ==
    /\ BufSize \in Nat /\ BufSize >= 2 /\ PushMod \in Nat \ {0} /\ MaxFaults \in Nat
    /\ {Newline, Mark, Zero, Noise} \subseteq Octet
    /\ \A c \in Codes : Code(c) \in Octet
    /\ \A d \in Data : Value(d) \in Octet
<1>1. BufSize \in Nat /\ PushMod \in Nat \ {0} /\ MaxFaults \in Nat
    BY AsciiAssumption
<1>2. ClearAt \in 1 .. BufSize - 1
    BY AsciiAssumption
<1>3. BufSize >= 2
    BY <1>1, <1>2
<1>4. Octet = {Newline, Mark, Zero, Noise} \cup {Code(c) : c \in Codes}
                                          \cup {Value(d) : d \in Data}
    BY AsciiAssumption
<1>5. QED
    BY <1>1, <1>3, <1>4

LEMMA Cut ==
    ASSUME NEW s \in Seq(Octet), NEW n \in 0 .. Len(s)
    PROVE  /\ SubSeq(s, 1, n) \in Seq(Octet) /\ Len(SubSeq(s, 1, n)) = n
           /\ SubSeq(s, n + 1, Len(s)) \in Seq(Octet)
<1>1. Len(s) \in Nat /\ n \in Nat /\ n <= Len(s)
    BY LenProperties
<1>2. \A i \in 1 .. Len(s) : s[i] \in Octet
    BY ElementOfSeq
<1>3. /\ \A i \in 1 .. n : s[i] \in Octet
      /\ \A i \in n + 1 .. Len(s) : s[i] \in Octet
    BY <1>1, <1>2
<1>4. QED
    BY <1>1, <1>3, SubSeqProperties

\* What is stored ends in a zero.
LEMMA StoredTyped ==
    ASSUME mem \in [0 .. BufSize - 1 -> Octet], NEW s \in Seq(Octet), NEW i \in Nat
    PROVE  /\ Stored(i, s) \in [0 .. BufSize - 1 -> Octet]
           /\ i + Len(s) \in 0 .. BufSize - 1 => Stored(i, s)[i + Len(s)] = Zero
<1>1. Len(s) \in Nat /\ \A k \in 1 .. Len(s) : s[k] \in Octet
    BY LenProperties, ElementOfSeq
<1>2. \A j \in 0 .. BufSize - 1 :
         j \in i .. i + Len(s) - 1 => j - i + 1 \in 1 .. Len(s)
    BY <1>1
<1>3. i + Len(s) \notin i .. i + Len(s) - 1
    BY <1>1
<1>4. Zero \in Octet
    BY SizesAndOctets
<1>5. QED
    BY <1>1, <1>2, <1>3, <1>4 DEF Stored

LEMMA TelegramTyped ==
    ASSUME push \in 0 .. PushMod
    PROVE  PushNumber \in 1 .. PushMod /\ Telegram \in Seq(Octet)
<1>1. PushNumber \in 1 .. PushMod
    BY SizesAndOctets DEF PushNumber
<1>2. Text \in Seq(Codes) /\ Len(Text) \in Nat
    BY AsciiAssumption, LenProperties
<1>3. ASSUME NEW k \in 1 .. 3 * Len(Text)
      PROVE  LineOf(Text[(k + 2) \div 3])[((k - 1) % 3) + 1] \in Octet
  <2>1. (k + 2) \div 3 \in 1 .. Len(Text)
      BY <1>2
  <2>2. PICK c \in Codes : c = Text[(k + 2) \div 3]
      BY <1>2, <2>1, ElementOfSeq
  <2>3. ((k - 1) % 3) + 1 \in 1 .. 3
      BY <1>2
  <2>4. [from |-> c, push |-> PushNumber] \in Data
      BY <1>1, AsciiAssumption
  <2>5. /\ Code(c) \in Octet /\ Value([from |-> c, push |-> PushNumber]) \in Octet
        /\ Newline \in Octet
      BY <2>4, SizesAndOctets
  <2>6. LineOf(c)[1] \in Octet /\ LineOf(c)[2] \in Octet /\ LineOf(c)[3] \in Octet
      BY <2>5 DEF LineOf
  <2>7. \A x \in 1 .. 3 : LineOf(c)[x] \in Octet
      BY <2>6
  <2>8. QED
      BY <2>2, <2>3, <2>7
<1> DEFINE t == [k \in 1 .. 3 * Len(Text) |->
                   LineOf(Text[(k + 2) \div 3])[((k - 1) % 3) + 1]]
<1>4. t \in Seq(Octet)
  <2>1. 3 * Len(Text) \in Nat
      BY <1>2
  <2>2. t \in [1 .. 3 * Len(Text) -> Octet]
      BY <1>3
  <2> HIDE DEF t
  <2>3. QED
      BY <2>1, <2>2
<1> HIDE DEF t
<1>5. <<Mark, Newline>> \in Seq(Octet)
    BY SizesAndOctets
<1>6. t \o <<Mark, Newline>> \in Seq(Octet)
    BY <1>4, <1>5, ConcatProperties
<1>7. Telegram = t \o <<Mark, Newline>>
    BY Zenon DEF Telegram, t
<1>8. QED
    BY <1>1, <1>6, <1>7

\* The text is of the type it should be, and ends in a zero at its length
\* whenever lines are looked for in it: without that a parsed line might lie
\* behind the end of what was received.
Ended == phase = "split" => mem[len] = Zero
TextInv == TypeOK /\ Ended

LEMMA ReadTyped ==
    ASSUME TextInv, Read
    PROVE  TextInv'
<1>1. PICK n \in 1 .. Len(line) : ReadUart(n)
    BY DEF Read
<1>2. /\ line \in Seq(Octet) /\ mem \in [0 .. BufSize - 1 -> Octet]
      /\ len \in 0 .. BufSize - 1 /\ BufSize \in Nat
    BY SizesAndOctets DEF TextInv, TypeOK
<1>3. n \in 0 .. Len(line) /\ n \in Nat /\ len + n \in 0 .. BufSize - 1 /\ len \in Nat
  <2>1. n \in 1 .. BufSize - len - 1
      BY <1>1 DEF ReadUart, Asked
  <2>2. QED
      BY <1>2, <2>1
<1>4. Received(n) \in Seq(Octet) /\ Len(Received(n)) = n
    BY <1>2, <1>3, Cut DEF Received
<1>5. line' \in Seq(Octet)
    BY <1>1, <1>2, <1>3, Cut DEF ReadUart
<1>6. mem' = Stored(len, Received(n)) /\ len' = len + n
    BY <1>1 DEF ReadUart
<1>7. mem' \in [0 .. BufSize - 1 -> Octet] /\ mem'[len'] = Zero
    BY <1>2, <1>3, <1>4, <1>6, StoredTyped
<1>8. len' \in 0 .. BufSize - 1 /\ at' = 0 /\ 0 \in 0 .. len'
    BY <1>1, <1>3, <1>6 DEF ReadUart
<1>9. RingTypeOK'
    BY <1>1, <1>4 DEF ReadUart, BeginWrite, RingTypeOK, TextInv, TypeOK
<1>10. QED
    BY <1>1, <1>5, <1>7, <1>8, <1>9
       DEF ReadUart, TextInv, Ended, TypeOK, CacheTypeOK, shown

LEMMA ReadIdentTyped ==
    ASSUME TextInv, ReadIdent
    PROVE  TextInv'
<1>1. PICK n : n = IF Len(line) < BufSize THEN Len(line) ELSE BufSize - 1
    OBVIOUS
<1>2. /\ line \in Seq(Octet) /\ mem \in [0 .. BufSize - 1 -> Octet]
      /\ BufSize \in Nat /\ BufSize >= 2 /\ Len(line) \in Nat
    BY SizesAndOctets, LenProperties DEF TextInv, TypeOK
<1>3. n \in 0 .. Len(line)
    BY <1>1, <1>2
<1>4. Received(n) \in Seq(Octet)
    BY <1>2, <1>3, Cut DEF Received
<1>5. /\ BeginWrite(Received(n)) /\ mem' = Stored(0, Received(n)) /\ len' = 0 /\ at' = 0
      /\ line' = SubSeq(line, n + 1, Len(line)) /\ phase' = "read" /\ meter' = "telegram"
      /\ UNCHANGED <<task, shown, push, faults>>
    BY <1>1 DEF ReadIdent
<1>6. line' \in Seq(Octet)
    BY <1>2, <1>3, <1>5, Cut
<1>7. mem' \in [0 .. BufSize - 1 -> Octet]
    BY <1>2, <1>4, <1>5, StoredTyped
<1>8. len' \in 0 .. BufSize - 1 /\ at' \in 0 .. len'
    BY <1>2, <1>5
<1>9. RingTypeOK'
    BY <1>4, <1>5 DEF BeginWrite, RingTypeOK, TextInv, TypeOK
<1>10. QED
    BY <1>5, <1>6, <1>7, <1>8, <1>9 DEF TextInv, Ended, TypeOK, CacheTypeOK, shown

LEMMA RenderedTyped ==
    ASSUME slots \in [Slots -> Reading]
    PROVE  Rendered \in [Codes -> Data \cup {None}]
<1>1. \A c \in Codes : Lookup(slots, c).data \in Data \cup {None}
    BY LookupTyped DEF Reading, Zeroed
<1>2. QED
    BY <1>1 DEF Rendered

\* What may be read of a line is a reading.
LEMMA ReadAsTyped ==
    ASSUME NEW s, DOMAIN s \in SUBSET Nat, NEW r \in ReadAs(s)
    PROVE  r \in Reading /\ r.obis \in Codes /\ r.data \in Data
<1>1. Opening(s) # {} /\ IsCode(s[1])
    BY DEF ReadAs
<1>2. Least(Opening(s)) \in Opening(s)
    BY <1>1, LeastIsIn DEF Opening
<1>3. PICK d \in Data : s[Least(Opening(s))] = Value(d)
    BY <1>2 DEF Opening, IsValue
<1>4. PICK c \in Codes : s[1] = Code(c)
    BY <1>1 DEF IsCode
<1>5. Value(d)[2] = d /\ Code(c)[2] = c
    BY DEF Value, Code
<1>6. s[Least(Opening(s))][2] \in Data /\ s[1][2] \in Codes
    BY <1>3, <1>4, <1>5
<1>7. r \in [obis : IF IsCode(s[2]) THEN Codes ELSE {s[1][2]},
             valid : {TRUE}, typed : {TRUE}, data : {s[Least(Opening(s))][2]}]
    BY DEF ReadAs
<1>8. r \in [obis : Codes, valid : {TRUE}, typed : {TRUE}, data : Data]
    BY <1>6, <1>7
<1>9. QED
    BY <1>8 DEF Reading

LEMMA ParseLineTyped ==
    ASSUME TextInv, ParseLine
    PROVE  TextInv'
<1> DEFINE ends == Finds(mem, at, Newline)
           e == Least(ends)
<1>1. /\ mem \in [0 .. BufSize - 1 -> Octet] /\ BufSize \in Nat /\ Zero \in Octet
      /\ len \in 0 .. BufSize - 1 /\ at \in 0 .. len /\ mem[len] = Zero
    BY SizesAndOctets DEF TextInv, Ended, TypeOK, ParseLine
<1>2. ends # {} /\ ends \in SUBSET Nat
    BY <1>1 DEF ParseLine, Finds
<1>3. e \in ends
    BY <1>2, LeastIsIn
<1>4. e \in 0 .. BufSize - 1 /\ e >= at /\ \A k \in at .. e : mem[k] # Zero
    BY <1>1, <1>3 DEF Finds
<1>5. mem' = Parsed(at, e) /\ at' = e + 1
      /\ UNCHANGED <<task, phase, len, wire, ring>>
    BY DEF ParseLine
<1>6. \/ NoReading
      \/ \E r \in ReadAs(Part(at, e)) : TakeReading(r)
    BY DEF ParseLine
<1> HIDE DEF e, ends
<1>7. e < len
  <2>1. SUFFICES ASSUME ~ (e < len) PROVE FALSE
      OBVIOUS
  <2>2. len \in at .. e
      BY <1>1, <1>4, <2>1
  <2>3. QED
      BY <1>1, <1>4, <2>2
<1>8. mem' \in [0 .. BufSize - 1 -> Octet] /\ at' \in 0 .. len'
    BY <1>1, <1>4, <1>5, <1>7 DEF Parsed
<1>9. mem'[len'] = Zero
  <2>1. len # e /\ len \notin at .. e - 1 /\ len \in DOMAIN mem
      BY <1>1, <1>4, <1>7
  <2>2. QED
      BY <1>1, <1>5, <2>1 DEF Parsed
<1>10. CacheTypeOK' /\ parsed' \in [Codes -> Data \cup {None}]
       /\ published' \in [Codes -> Data \cup {None}]
  <2>1. CacheTypeOK /\ parsed \in [Codes -> Data \cup {None}]
        /\ published \in [Codes -> Data \cup {None}]
      BY DEF TextInv, TypeOK
  <2>2. CASE NoReading
      BY <2>1, <2>2 DEF NoReading, shown, CacheTypeOK
  <2>3. CASE \E r \in ReadAs(Part(at, e)) : TakeReading(r)
    <3>1. PICK r \in ReadAs(Part(at, e)) : TakeReading(r)
        BY <2>3
    <3>2. DOMAIN Part(at, e) \in SUBSET Nat
        BY <1>1, <1>4 DEF Part
    <3>3. r \in Reading /\ r.obis \in Codes /\ r.data \in Data
        BY <3>2, ReadAsTyped
    <3>4. CacheTypeOK'
        BY <2>1, <3>1, <3>3, CacheReadingTyped DEF TakeReading
    <3>5. parsed' \in [Codes -> Data \cup {None}]
        BY <2>1, <3>1, <3>3 DEF TakeReading
    <3>6. published' \in [Codes -> Data \cup {None}]
        BY <2>1, <3>1, RenderedTyped DEF TakeReading, CacheTypeOK
    <3>7. QED
        BY <3>4, <3>5, <3>6
  <2>4. QED
      BY <1>6, <2>2, <2>3
<1>11. QED
    BY <1>5, <1>8, <1>9, <1>10
       DEF TextInv, Ended, TypeOK, RingTypeOK, wire, ring

LEMMA LinesDoneTyped ==
    ASSUME TextInv, LinesDone
    PROVE  TextInv'
<1>1. /\ mem \in [0 .. BufSize - 1 -> Octet] /\ BufSize \in Nat /\ BufSize >= 2
      /\ len \in 0 .. BufSize - 1 /\ at \in 0 .. len
    BY SizesAndOctets DEF TextInv, TypeOK
<1>2. /\ mem' = Moved /\ len' = (IF GivesUp THEN 0 ELSE len - at) /\ at' = 0
      /\ phase' \in {"read", "pause"}
      /\ UNCHANGED <<task, shown, wire, ring>>
    BY DEF LinesDone, KeepRest
<1>3. \A j \in 0 .. BufSize - 1 : j < len - at => j + at \in 0 .. BufSize - 1
    BY <1>1
<1>4. mem' \in [0 .. BufSize - 1 -> Octet]
    BY <1>1, <1>2, <1>3 DEF Moved
<1>5. len' \in 0 .. BufSize - 1 /\ at' \in 0 .. len'
    BY <1>1, <1>2
<1>6. QED
    BY <1>2, <1>4, <1>5
       DEF TextInv, Ended, TypeOK, CacheTypeOK, RingTypeOK, shown, wire, ring

LEMMA TraceTyped ==
    ASSUME TextInv, Trace \/ WebClears
    PROVE  TextInv'
<1>1. RingTypeOK'
    BY RingStepTyped DEF Trace, WebClears, RingNext, TextInv, TypeOK
<1>2. UNCHANGED <<task, text, shown, wire>>
    BY DEF Trace, WebClears
<1>3. QED
    BY <1>1, <1>2 DEF TextInv, Ended, TypeOK, CacheTypeOK, text, shown, wire

LEMMA LineTyped ==
    ASSUME TextInv, MeterIdentifies \/ MeterSends \/ Damage
    PROVE  TextInv'
<1>1. /\ line \in Seq(Octet) /\ Len(line) \in Nat /\ push \in 0 .. PushMod
      /\ faults \in 0 .. MaxFaults /\ meter \in {"quiet", "ident", "telegram"}
      /\ BufSize \in Nat /\ MaxFaults \in Nat /\ Noise \in Octet /\ Zero \in Octet
    BY SizesAndOctets, LenProperties DEF TextInv, TypeOK
<1>2. UNCHANGED <<task, text, shown, ring>>
    BY DEF MeterIdentifies, MeterSends, Damage
<1>3. CASE MeterIdentifies
  <2>1. <<Noise, Newline>> \in Seq(Octet)
      BY SizesAndOctets
  <2>2. line' \in Seq(Octet)
      BY <1>1, <1>3, <2>1, ConcatProperties DEF MeterIdentifies
  <2>3. QED
      BY <1>2, <1>3, <2>2
         DEF MeterIdentifies, TextInv, Ended, TypeOK, CacheTypeOK, RingTypeOK, text, shown, ring
<1>4. CASE MeterSends
  <2>1. line' \in Seq(Octet)
      BY <1>1, <1>4, TelegramTyped, ConcatProperties DEF MeterSends
  <2>2. push' \in 0 .. PushMod
      BY <1>1, <1>4, TelegramTyped, SizesAndOctets DEF MeterSends
  <2>3. meter' \in {"quiet", "ident", "telegram"} /\ faults' = faults
      BY <1>1, <1>4 DEF MeterSends
  <2>4. QED
      BY <1>1, <1>2, <2>1, <2>2, <2>3
         DEF TextInv, Ended, TypeOK, CacheTypeOK, RingTypeOK, text, shown, ring
<1>5. CASE Damage
  <2>1. faults' \in 0 .. MaxFaults /\ meter' \in {"quiet", "ident", "telegram"}
        /\ push' = push
      BY <1>1, <1>5 DEF Damage
  <2>2. line' \in Seq(Octet)
    <3>1. CASE line' = line
        BY <1>1, <3>1
    <3>2. ASSUME NEW i \in DOMAIN line, line' = RemoveAt(line, i)
          PROVE  line' \in Seq(Octet)
      <4>1. i \in 1 .. Len(line) /\ i - 1 \in 0 .. Len(line) /\ i \in 0 .. Len(line)
          BY <1>1, LenProperties
      <4>2. SubSeq(line, 1, i - 1) \in Seq(Octet)
          BY <1>1, <4>1, Cut
      <4>3. SubSeq(line, i + 1, Len(line)) \in Seq(Octet)
          BY <1>1, <4>1, Cut
      <4>4. SubSeq(line, 1, i - 1) \o SubSeq(line, i + 1, Len(line)) \in Seq(Octet)
          BY <4>2, <4>3, ConcatProperties
      <4>5. QED
          BY <3>2, <4>4, Zenon DEF RemoveAt
    <3>3. ASSUME NEW i \in DOMAIN line, line' = [line EXCEPT ![i] = Zero]
          PROVE  line' \in Seq(Octet)
        BY <1>1, <3>3
    <3>4. CASE line' = [k \in 1 .. BufSize |-> Noise] \o line
      <4>1. [k \in 1 .. BufSize |-> Noise] \in Seq(Octet)
          BY <1>1
      <4>2. QED
          BY <1>1, <3>4, <4>1, ConcatProperties
    <3>5. QED
        BY <1>5, <3>1, <3>2, <3>3, <3>4 DEF Damage
  <2>3. QED
      BY <1>2, <2>1, <2>2
         DEF TextInv, Ended, TypeOK, CacheTypeOK, RingTypeOK, text, shown, ring
<1>6. QED
    BY <1>3, <1>4, <1>5

LEMMA SessionTyped ==
    ASSUME TextInv, Wake \/ TimesOut \/ PauseEnds \/ UNCHANGED vars
    PROVE  TextInv'
<1>1. CASE Wake
  <2>1. <<>> \in Seq(Octet)
      BY EmptySeq
  <2>2. QED
      BY <1>1, <2>1 DEF Wake, TextInv, Ended, TypeOK, CacheTypeOK, RingTypeOK, shown, ring
<1>2. CASE TimesOut
  <2>1. faults' \in 0 .. MaxFaults
      BY <1>2, SizesAndOctets DEF TimesOut, TextInv, TypeOK
  <2>2. QED
      BY <1>2, <2>1 DEF TimesOut, TextInv, Ended, TypeOK, CacheTypeOK, RingTypeOK, shown, ring
<1>3. CASE PauseEnds
    BY <1>3 DEF PauseEnds, TextInv, Ended, TypeOK, CacheTypeOK, RingTypeOK, shown, wire, ring
<1>4. CASE UNCHANGED vars
    BY <1>4 DEF vars, TextInv, Ended, TypeOK, CacheTypeOK, RingTypeOK, text, shown, wire, ring
<1>5. QED
    BY <1>1, <1>2, <1>3, <1>4

LEMMA TextStepTyped == TextInv /\ [Next]_vars => TextInv'
BY ReadTyped, ReadIdentTyped, ParseLineTyped, LinesDoneTyped, TraceTyped, LineTyped,
   SessionTyped DEF Next, Handle, Session

LEMMA TextInitTyped == Init => TextInv
<1> SUFFICES ASSUME Init PROVE TextInv
    OBVIOUS
<1>1. CacheTypeOK
  <2>1. Zeroed \in Reading
      BY DEF Zeroed, Reading
  <2>2. QED
      BY <2>1 DEF Init, CacheInit, CacheTypeOK
<1>2. RingTypeOK
    BY RingInitTyped DEF Init
<1>3. <<>> \in Seq(Octet)
    BY EmptySeq
<1>4. mem \in [0 .. BufSize - 1 -> Octet]
    BY SizesAndOctets DEF Init
<1>5. /\ 0 \in 0 .. BufSize - 1 /\ 0 \in 0 .. 0 /\ 0 \in 0 .. PushMod
      /\ MaxFaults \in 0 .. MaxFaults
    BY SizesAndOctets
<1>6. QED
    BY <1>1, <1>2, <1>3, <1>4, <1>5 DEF Init, TextInv, Ended, TypeOK

\* Every variable of both ASCII tasks keeps its type, whatever is on the line:
\* in particular line_start never passes rx_len, nor rx_len the end of rx_buf.
THEOREM AsciiTypeCorrect == Spec => []TypeOK
<1>1. TextInv => TypeOK
    BY DEF TextInv
<1>2. QED
    BY TextInitTyped, TextStepTyped, <1>1, PTL DEF Spec

\* The tasks use the debug ring as the ring is meant to be used, so that the
\* debug page shows the latest octets received (ShowsLatest), for every size.
THEOREM DebugPageShowsLatest == Spec => ShowsLatest
<1>1. Init => RingInit
    BY DEF Init
<1>2. TextInv /\ [Next]_vars => [RingNext]_ring
  <2> SUFFICES ASSUME TextInv, [Next]_vars PROVE [RingNext]_ring
      OBVIOUS
  <2>1. TextInv'
      BY TextStepTyped
  <2>2. writing' \in Seq(Octet)
      BY <2>1 DEF TextInv, TypeOK, RingTypeOK
  <2>3. CASE Read \/ ReadIdent
    <3>1. \E s : BeginWrite(s)
        BY <2>3 DEF Read, ReadUart, ReadIdent
    <3>2. BeginWrite(writing')
        BY <3>1 DEF BeginWrite
    <3>3. QED
        BY <2>2, <3>2 DEF RingNext
  <2>4. CASE Trace \/ WebClears
      BY <2>4 DEF Trace, WebClears, RingNext
  <2>5. CASE UNCHANGED ring
      BY <2>5
  <2>6. QED
      BY <2>3, <2>4, <2>5
         DEF Next, Handle, Session, ParseLine, LinesDone, Wake, TimesOut, PauseEnds,
             MeterIdentifies, MeterSends, Damage, vars
<1>3. Spec => RingSpec
    BY <1>1, <1>2, TextInitTyped, TextStepTyped, PTL DEF Spec, RingSpec
<1>4. QED
    BY <1>3, RingShowsLatest

-----------------------------------------------------------------------------
(* The values in a text                                                    *)

\* The value that the line t gives, if it gives one, and those that the lines
\* of s give, each where its line ends.
ValueOf(t)  == IF ReadAs(t) # {} THEN <<t[Least(Opening(t))][2]>> ELSE <<>>
ValuesAt(s) ==
    [e \in DOMAIN s |-> IF e \in LineEnds(s) THEN ValueOf(LineTo(s, e)) ELSE <<>>]

\* What a line gives is one value or none.
LEMMA ValueTyped ==
    ASSUME NEW t, DOMAIN t \in SUBSET Nat
    PROVE  ValueOf(t) \in Seq(Data)
<1>1. CASE ReadAs(t) # {}
  <2>1. PICK r \in ReadAs(t) : TRUE
      BY <1>1
  <2>2. r.data \in Data
      BY <2>1, ReadAsTyped
  <2>3. r.data = t[Least(Opening(t))][2]
    <3>1. r \in [obis : IF IsCode(t[2]) THEN Codes ELSE {t[1][2]},
                 valid : {TRUE}, typed : {TRUE}, data : {t[Least(Opening(t))][2]}]
        BY <2>1 DEF ReadAs
    <3>2. QED
        BY <3>1
  <2>4. QED
      BY <1>1, <2>2, <2>3 DEF ValueOf
<1>2. CASE ReadAs(t) = {}
    BY <1>2, EmptySeq DEF ValueOf
<1>3. QED
    BY <1>1, <1>2

\* ValuesIn flattens them.
LEMMA ValuesTyped ==
    ASSUME NEW s \in Seq(Octet)
    PROVE  /\ ValuesAt(s) \in Seq(Seq(Data)) /\ Len(ValuesAt(s)) = Len(s)
           /\ ValuesIn[s] = FlattenSeq(ValuesAt(s))
<1>1. Len(s) \in Nat /\ DOMAIN s = 1 .. Len(s) /\ s \in [1 .. Len(s) -> Octet]
    BY LenProperties
<1>2. LineEnds(s) \in SUBSET Nat
    BY <1>1 DEF LineEnds
<1>3. ASSUME NEW e \in 1 .. Len(s)
      PROVE  (IF e \in LineEnds(s) THEN ValueOf(LineTo(s, e)) ELSE <<>>) \in Seq(Data)
  <2>1. PICK b : LineTo(s, e) = SubSeq(s, b, e - 1)
      BY DEF LineTo
  <2>2. DOMAIN LineTo(s, e) \in SUBSET Nat
      BY <2>1
  <2>3. QED
      BY <2>2, ValueTyped, EmptySeq
<1>4. ValuesAt(s) \in [1 .. Len(s) -> Seq(Data)]
    BY <1>1, <1>3 DEF ValuesAt
<1>5. ValuesAt(s) \in Seq(Seq(Data)) /\ Len(ValuesAt(s)) = Len(s)
    BY <1>1, <1>4
<1>6. ValuesIn[s] =
        FlattenSeq([e \in DOMAIN s |->
            LET t == LineTo(s, e)
            IN  IF e \in LineEnds(s) /\ ReadAs(t) # {} THEN <<t[Least(Opening(t))][2]>>
                ELSE <<>>])
    BY DEF ValuesIn
<1>7. [e \in DOMAIN s |->
            LET t == LineTo(s, e)
            IN  IF e \in LineEnds(s) /\ ReadAs(t) # {} THEN <<t[Least(Opening(t))][2]>>
                ELSE <<>>] = ValuesAt(s)
    BY Zenon DEF ValuesAt, ValueOf
<1>8. QED
    BY <1>5, <1>6, <1>7

\* The first line end of s is behind all others.
FirstEnd(s, d) == d \in LineEnds(s) /\ \A x \in LineEnds(s) : d <= x
CutAtEnd(s, d, u) == FirstEnd(s, d) /\ u = SubSeq(s, d + 1, Len(s))

\* The other line ends of s are those of what is behind the first.
LEMMA EndsBehind ==
    ASSUME NEW s \in Seq(Octet), NEW d, NEW u \in Seq(Octet), CutAtEnd(s, d, u)
    PROVE  /\ d \in 1 .. Len(s) /\ Len(u) = Len(s) - d
           /\ \A i \in 1 .. Len(u) : u[i] = s[d + i]
           /\ LineEnds(u) \subseteq 1 .. Len(u)
           /\ LineEnds(s) = {d} \cup {d + i : i \in LineEnds(u)}
<1>1. Len(s) \in Nat /\ DOMAIN s = 1 .. Len(s)
    BY LenProperties
<1>2. /\ d \in 1 .. Len(s) /\ s[d] = Newline /\ \A k \in 1 .. d : s[k] # Zero
      /\ \A x \in LineEnds(s) : d <= x
    BY <1>1 DEF CutAtEnd, FirstEnd, LineEnds
<1>3. d \in 0 .. Len(s)
    BY <1>1, <1>2
<1>4. /\ Len(u) = Len(s) - d /\ \A i \in 1 .. Len(s) - d : u[i] = s[d + i]
    BY <1>3, Behind DEF CutAtEnd
<1>5. DOMAIN u = 1 .. Len(u)
    BY LenProperties
<1>6. LineEnds(u) = {i \in 1 .. Len(s) - d :
                        s[d + i] = Newline /\ \A k \in 1 .. i : s[d + k] # Zero}
  <2>1. LineEnds(u) = {i \in 1 .. Len(s) - d :
                          u[i] = Newline /\ \A k \in 1 .. i : u[k] # Zero}
      BY <1>4, <1>5 DEF LineEnds
  <2>2. ASSUME NEW i \in 1 .. Len(s) - d
        PROVE  /\ u[i] = s[d + i]
               /\ (\A k \in 1 .. i : u[k] # Zero) <=> \A k \in 1 .. i : s[d + k] # Zero
    <3>1. \A k \in 1 .. i : k \in 1 .. Len(s) - d
        BY <1>1, <1>2
    <3>2. QED
        BY <1>4, <3>1
  <2>3. QED
      BY <2>1, <2>2
<1>7. LineEnds(s) = {x \in 1 .. Len(s) : s[x] = Newline /\ \A k \in 1 .. x : s[k] # Zero}
    BY <1>1 DEF LineEnds
<1>8. ASSUME NEW x \in LineEnds(s), x # d
      PROVE  x - d \in LineEnds(u) /\ x = d + (x - d)
  <2>1. x \in 1 .. Len(s) /\ d < x /\ s[x] = Newline /\ \A k \in 1 .. x : s[k] # Zero
      BY <1>1, <1>2, <1>7, <1>8
  <2>2. x - d \in 1 .. Len(s) - d /\ d + (x - d) = x
      BY <1>1, <1>2, <2>1
  <2>3. \A k \in 1 .. x - d : s[d + k] # Zero
    <3>1. \A k \in 1 .. x - d : d + k \in 1 .. x
        BY <1>1, <1>2, <2>1
    <3>2. QED
        BY <2>1, <3>1
  <2>4. QED
      BY <1>6, <2>1, <2>2, <2>3
<1>9. ASSUME NEW i \in LineEnds(u)
      PROVE  d + i \in LineEnds(s)
  <2>1. i \in 1 .. Len(s) - d /\ s[d + i] = Newline /\ \A k \in 1 .. i : s[d + k] # Zero
      BY <1>6
  <2>2. d + i \in 1 .. Len(s)
      BY <1>1, <1>2, <2>1
  <2>3. ASSUME NEW k \in 1 .. d + i PROVE s[k] # Zero
    <3>1. CASE k <= d
        BY <1>2, <3>1
    <3>2. CASE d < k
      <4>1. k - d \in 1 .. i /\ d + (k - d) = k
          BY <1>1, <1>2, <2>1, <3>2
      <4>2. QED
          BY <2>1, <4>1
    <3>3. QED
        BY <1>1, <1>2, <3>1, <3>2
  <2>4. QED
      BY <1>7, <2>1, <2>2, <2>3
<1>10. LineEnds(s) = {d} \cup {d + i : i \in LineEnds(u)}
    BY <1>2, <1>8, <1>9 DEF CutAtEnd, FirstEnd
<1>11. LineEnds(u) \subseteq 1 .. Len(u)
    BY <1>5 DEF LineEnds
<1>12. QED
    BY <1>2, <1>4, <1>10, <1>11

\* The line that ends at e begins behind the end before it.
EndBefore(s, e, b) ==
    b \in LineEnds(s) \cup {0} /\ b < e
        /\ \A c \in LineEnds(s) \cup {0} : c < e => c <= b

\* What LineTo chooses, once that end is known.
LEMMA LineFrom ==
    ASSUME NEW s \in Seq(Octet), NEW e, NEW b, EndBefore(s, e, b)
    PROVE  LineTo(s, e) = SubSeq(s, b + 1, e - 1)
<1> DEFINE before == {c \in LineEnds(s) \cup {0} : c < e}
           IsLast(c) == c \in before /\ \A x \in before : x <= c
           a == CHOOSE c \in before : \A x \in before : x <= c
<1>1. IsLast(b)
    BY DEF EndBefore
<1>2. IsLast(a)
    BY <1>1
<1>3. before \subseteq Nat
    BY LenProperties DEF LineEnds
<1>4. a = b
    BY <1>1, <1>2, <1>3
<1>5. LineTo(s, e) = SubSeq(s, a + 1, e - 1)
    BY DEF LineTo
<1>6. QED
    BY <1>4, <1>5

\* There always is one: the end of the line before, or the front.
LEMMA EndBeforeExists ==
    ASSUME NEW s \in Seq(Octet), NEW e \in Nat, e # 0
    PROVE  \E b \in Nat : EndBefore(s, e, b)
<1> DEFINE M == {e - c : c \in {x \in LineEnds(s) \cup {0} : x < e}}
<1>1. LineEnds(s) \subseteq Nat
    BY LenProperties DEF LineEnds
<1>2. M \in SUBSET Nat /\ e - 0 \in M
    BY <1>1
<1>3. PICK m \in M : \A y \in M : m <= y
    BY <1>2, LeastIn
<1>4. PICK b \in LineEnds(s) \cup {0} : b < e /\ m = e - b
    BY <1>3
<1>5. ASSUME NEW c \in LineEnds(s) \cup {0}, c < e PROVE c <= b
  <2>1. e - c \in M
      BY <1>5
  <2>2. e - b <= e - c
      BY <1>3, <1>4, <2>1
  <2>3. QED
      BY <1>1, <1>4, <2>2
<1>6. QED
    BY <1>1, <1>4, <1>5 DEF EndBefore

\* A line behind the first end is the same line in what is behind that end.
LEMMA LinesBehind ==
    ASSUME NEW s \in Seq(Octet), NEW d, NEW u \in Seq(Octet), CutAtEnd(s, d, u),
           NEW e \in LineEnds(u)
    PROVE  LineTo(s, d + e) = LineTo(u, e)
<1>1. /\ d \in 1 .. Len(s) /\ Len(u) = Len(s) - d
      /\ \A i \in 1 .. Len(u) : u[i] = s[d + i]
      /\ LineEnds(u) \subseteq 1 .. Len(u)
      /\ LineEnds(s) = {d} \cup {d + i : i \in LineEnds(u)}
    BY EndsBehind
<1>2. Len(s) \in Nat /\ Len(u) \in Nat
    BY LenProperties
<1>3. e \in 1 .. Len(u) /\ e \in Nat /\ e # 0 /\ d \in Nat
    BY <1>1, <1>2
<1>4. PICK b \in Nat : EndBefore(u, e, b)
    BY <1>3, EndBeforeExists
<1>5. /\ b \in LineEnds(u) \cup {0} /\ b < e
      /\ \A c \in LineEnds(u) \cup {0} : c < e => c <= b
    BY <1>4 DEF EndBefore
<1>6. EndBefore(s, d + e, d + b)
  <2>1. d + b \in LineEnds(s) \cup {0} /\ d + b < d + e
      BY <1>1, <1>3, <1>5
  <2>2. ASSUME NEW c \in LineEnds(s) \cup {0}, c < d + e PROVE c <= d + b
    <3>1. CASE c = 0 \/ c = d
        BY <1>3, <3>1
    <3>2. CASE c # 0 /\ c # d
      <4>1. PICK i \in LineEnds(u) : c = d + i
          BY <1>1, <3>2
      <4>2. i \in Nat
          BY <1>1, <1>2
      <4>3. i < e
          BY <1>3, <2>2, <4>1, <4>2
      <4>4. i <= b
          BY <1>5, <4>3
      <4>5. QED
          BY <1>3, <1>4, <4>1, <4>2, <4>4
    <3>3. QED
        BY <3>1, <3>2
  <2>3. QED
      BY <2>1, <2>2 DEF EndBefore
<1>7. LineTo(u, e) = SubSeq(u, b + 1, e - 1)
    BY <1>4, LineFrom
<1>8. PICK x \in Nat, y \in Nat : x = d + e /\ y = d + b
    BY <1>3
<1>9. LineTo(s, x) = SubSeq(s, y + 1, x - 1)
  <2>1. EndBefore(s, x, y)
      BY <1>6, <1>8
  <2>2. QED
      BY <2>1, LineFrom
<1>10. SubSeq(u, b + 1, e - 1) = SubSeq(s, y + 1, x - 1)
  <2>1. PICK i \in Nat, j \in Nat : i = b + 1 /\ j = e - 1
      BY <1>3
  <2>2. /\ Len(s) >= d + Len(u) /\ i >= 1 /\ j <= Len(u)
        /\ y + 1 = d + i /\ x - 1 = d + j
      BY <1>1, <1>2, <1>3, <1>8, <2>1
  <2>3. SubSeq(u, i, j) = SubSeq(s, d + i, d + j)
      BY <1>1, <1>3, <2>2, PartBehind
  <2>4. QED
      BY <2>1, <2>2, <2>3
<1>11. QED
    BY <1>7, <1>8, <1>9, <1>10

\* The first line begins at the front.
LEMMA FirstLine ==
    ASSUME NEW s \in Seq(Octet), NEW d, FirstEnd(s, d)
    PROVE  LineTo(s, d) = SubSeq(s, 1, d - 1)
<1>1. d \in 1 .. Len(s) /\ Len(s) \in Nat /\ LineEnds(s) \subseteq 1 .. Len(s)
      /\ \A x \in LineEnds(s) : d <= x
    BY LenProperties DEF FirstEnd, LineEnds
<1>2. EndBefore(s, d, 0)
    BY <1>1 DEF EndBefore
<1>3. LineTo(s, d) = SubSeq(s, 0 + 1, d - 1)
    BY <1>2, LineFrom
<1>4. QED
    BY <1>3

\* Text without a line gives nothing.
LEMMA NoLineNoValue ==
    ASSUME NEW s \in Seq(Octet), LineEnds(s) = {}
    PROVE  ValuesIn[s] = <<>>
<1>1. /\ ValuesAt(s) \in Seq(Seq(Data)) /\ Len(ValuesAt(s)) = Len(s)
      /\ ValuesIn[s] = FlattenSeq(ValuesAt(s))
    BY ValuesTyped
<1>2. \A i \in 1 .. Len(s) : ValuesAt(s)[i] = <<>>
    BY LenProperties DEF ValuesAt
<1>3. QED
    BY <1>1, <1>2, FlattenNothing DEF AllEmpty

\* The values of a text are that of its first line, if it has one, and those of
\* what is behind it.
LEMMA ValuesFromFirst ==
    ASSUME NEW s \in Seq(Octet), NEW d, NEW u \in Seq(Octet), CutAtEnd(s, d, u)
    PROVE  /\ ValueOf(SubSeq(s, 1, d - 1)) \in Seq(Data)
           /\ ValuesIn[s] = ValueOf(SubSeq(s, 1, d - 1)) \o ValuesIn[u]
<1> DEFINE v == ValueOf(SubSeq(s, 1, d - 1))
           f == [i \in 1 .. d - 1 |-> <<>>]
<1>1. /\ d \in 1 .. Len(s) /\ Len(u) = Len(s) - d
      /\ \A i \in 1 .. Len(u) : u[i] = s[d + i]
      /\ LineEnds(u) \subseteq 1 .. Len(u)
      /\ LineEnds(s) = {d} \cup {d + i : i \in LineEnds(u)}
    BY EndsBehind
<1>2. Len(s) \in Nat /\ Len(u) \in Nat /\ d - 1 \in Nat
    BY <1>1, LenProperties
<1>3. FirstEnd(s, d)
    BY DEF CutAtEnd
<1>4. LineTo(s, d) = SubSeq(s, 1, d - 1)
    BY <1>3, FirstLine
<1>5. v \in Seq(Data)
  <2>1. DOMAIN SubSeq(s, 1, d - 1) \in SUBSET Nat
      OBVIOUS
  <2>2. QED
      BY <2>1, ValueTyped
<1>6. f \in Seq(Seq(Data)) /\ Len(f) = d - 1 /\ \A i \in 1 .. d - 1 : f[i] = <<>>
  <2>1. <<>> \in Seq(Data)
      BY EmptySeq
  <2>2. PICK m \in Nat : m = d - 1
      BY <1>2
  <2>3. PICK h : h = [i \in 1 .. m |-> <<>>]
      OBVIOUS
  <2>4. h \in [1 .. m -> Seq(Data)] /\ \A i \in 1 .. m : h[i] = <<>>
      BY <2>1, <2>3
  <2>5. h \in Seq(Seq(Data)) /\ Len(h) = m
      BY <2>2, <2>4
  <2>6. f = h
      BY <2>2, <2>3
  <2>7. QED
      BY <2>2, <2>4, <2>5, <2>6
<1>7. PICK p \in Seq(Seq(Data)) :
         p = ValuesAt(s) /\ Len(p) = Len(s) /\ ValuesIn[s] = FlattenSeq(p)
    BY ValuesTyped
<1>8. PICK q \in Seq(Seq(Data)) :
         q = ValuesAt(u) /\ Len(q) = Len(u) /\ ValuesIn[u] = FlattenSeq(q)
    BY ValuesTyped
<1> HIDE DEF v, f
<1>9. PICK g \in Seq(Seq(Data)) : g = Append(f, v)
    BY <1>5, <1>6, AppendProperties
<1>10. /\ Len(g) = d /\ g[d] = v /\ \A i \in 1 .. d - 1 : g[i] = <<>>
  <2>1. PICK m \in Nat : m = Len(f) /\ m + 1 = d
      BY <1>1, <1>2, <1>6
  <2>2. Len(g) = m + 1 /\ g[m + 1] = v /\ \A i \in 1 .. m : g[i] = f[i]
      BY <1>5, <1>6, <1>9, <2>1, AppendProperties
  <2>3. \A i \in 1 .. d - 1 : i \in 1 .. m
      BY <2>1
  <2>4. QED
      BY <1>6, <2>1, <2>2, <2>3
<1>11. ASSUME NEW e \in 1 .. Len(s)
       PROVE  p[e] = IF e \in LineEnds(s) THEN ValueOf(LineTo(s, e)) ELSE <<>>
    BY <1>7, LenProperties DEF ValuesAt
<1>12. ASSUME NEW e \in 1 .. Len(u)
       PROVE  q[e] = IF e \in LineEnds(u) THEN ValueOf(LineTo(u, e)) ELSE <<>>
    BY <1>8, LenProperties DEF ValuesAt
<1>13. ASSUME NEW e \in 1 .. d - 1 PROVE p[e] = <<>>
  <2>1. e \in 1 .. Len(s) /\ e \notin LineEnds(s)
      BY <1>1, <1>2
  <2>2. QED
      BY <1>11, <2>1
<1>14. p[d] = v
    BY <1>1, <1>4, <1>11 DEF v
<1>15. ASSUME NEW e \in 1 .. Len(u) PROVE p[d + e] = q[e]
  <2>1. d + e \in 1 .. Len(s)
      BY <1>1, <1>2
  <2>2. CASE e \in LineEnds(u)
    <3>1. d + e \in LineEnds(s)
        BY <1>1, <2>2
    <3>2. LineTo(s, d + e) = LineTo(u, e)
        BY <2>2, LinesBehind
    <3>3. QED
        BY <1>11, <1>12, <2>1, <2>2, <3>1, <3>2
  <2>3. CASE e \notin LineEnds(u)
    <3>1. ASSUME d + e \in LineEnds(s) PROVE FALSE
      <4>1. d + e # d
          BY <1>1, <1>2
      <4>2. PICK i \in LineEnds(u) : d + e = d + i
          BY <1>1, <3>1, <4>1
      <4>3. i = e
          BY <1>1, <1>2, <4>2
      <4>4. QED
          BY <2>3, <4>3
    <3>2. QED
        BY <1>11, <1>12, <2>1, <2>3, <3>1
  <2>4. QED
      BY <2>2, <2>3
<1>16. p = g \o q
  <2>1. PICK h \in Seq(Seq(Data)) : h = g \o q
      BY ConcatProperties
  <2>2. /\ Len(h) = Len(g) + Len(q)
        /\ \A i \in 1 .. Len(g) + Len(q) :
              h[i] = IF i <= Len(g) THEN g[i] ELSE q[i - Len(g)]
      BY <2>1, ConcatProperties
  <2>3. Len(h) = Len(p)
      BY <1>1, <1>2, <1>7, <1>8, <1>10, <2>2
  <2>4. ASSUME NEW i \in 1 .. Len(p) PROVE h[i] = p[i]
    <3>1. i \in 1 .. Len(s) /\ i \in 1 .. Len(g) + Len(q)
        BY <1>7, <2>2, <2>3
    <3>2. CASE i < d
      <4>1. i \in 1 .. d - 1 /\ i <= Len(g)
          BY <1>1, <1>2, <1>10, <3>1, <3>2
      <4>2. QED
          BY <1>10, <1>13, <2>2, <3>1, <4>1
    <3>3. CASE i = d
      <4>1. d <= Len(g)
          BY <1>1, <1>10
      <4>2. QED
          BY <1>10, <1>14, <2>2, <3>1, <3>3, <4>1
    <3>4. CASE i > d
      <4>1. i - d \in 1 .. Len(u) /\ d + (i - d) = i /\ ~ (i <= Len(g))
            /\ i - Len(g) = i - d
          BY <1>1, <1>2, <1>10, <3>1, <3>4
      <4>2. p[d + (i - d)] = q[i - d]
          BY <1>15, <4>1
      <4>3. QED
          BY <2>2, <3>1, <4>1, <4>2
    <3>5. QED
        BY <1>1, <1>2, <3>1, <3>2, <3>3, <3>4
  <2>5. h = p
      BY <2>3, <2>4, SeqEqual
  <2>6. QED
      BY <2>1, <2>5
<1>17. FlattenSeq(g) = v
  <2>1. FlattenSeq(g) = FlattenSeq(f) \o v
      BY <1>5, <1>6, <1>9, FlattenAppend
  <2>2. FlattenSeq(f) = <<>>
      BY <1>6, FlattenNothing DEF AllEmpty
  <2>3. QED
      BY <1>5, <2>1, <2>2, ConcatEmptySeq
<1>18. FlattenSeq(g \o q) = FlattenSeq(g) \o FlattenSeq(q)
    BY FlattenConcat
<1>19. ValuesIn[s] = v \o ValuesIn[u]
    BY <1>7, <1>8, <1>16, <1>17, <1>18
<1>20. QED
    BY <1>5, <1>19 DEF v

-----------------------------------------------------------------------------
(* Where the octets are cut                                                *)

\* What has been received and not parsed yet, and what is still to come: no
\* step of the task changes it but parsing.
Unread == Part(at, len) \o line

\* A part of the buffer.
LEMMA PartTyped ==
    ASSUME mem \in [0 .. BufSize - 1 -> Octet], BufSize \in Nat,
           NEW i \in Nat, NEW j \in 0 .. BufSize - 1, i <= j
    PROVE  /\ Part(i, j) \in Seq(Octet) /\ Len(Part(i, j)) = j - i
           /\ \A k \in 1 .. j - i : Part(i, j)[k] = mem[i + k - 1]
<1>1. PICK n \in Nat : n = j - i
    OBVIOUS
<1>2. \A k \in 1 .. n : mem[i + k - 1] \in Octet
  <2>1. \A k \in 1 .. n : i + k - 1 \in 0 .. BufSize - 1
      BY <1>1
  <2>2. QED
      BY <2>1
<1>3. PICK p : p = [k \in 1 .. n |-> mem[i + k - 1]]
    OBVIOUS
<1>4. p \in Seq(Octet) /\ Len(p) = n /\ \A k \in 1 .. n : p[k] = mem[i + k - 1]
    BY <1>2, <1>3
<1>5. p = Part(i, j)
    BY <1>1, <1>3 DEF Part
<1>6. QED
    BY <1>1, <1>4, <1>5

UnreadForm ==
    /\ Unread \in Seq(Octet) /\ Len(Unread) = (len - at) + Len(line)
    /\ \A k \in 1 .. len - at : Unread[k] = mem[at + k - 1]
    /\ \A k \in 1 .. Len(line) : Unread[(len - at) + k] = line[k]
    /\ len - at \in Nat /\ Len(line) \in Nat

\* The text octet by octet: first the buffer, then the line.
LEMMA UnreadTyped == TextInv => UnreadForm
<1> SUFFICES ASSUME TextInv PROVE UnreadForm
    OBVIOUS
<1>1. /\ mem \in [0 .. BufSize - 1 -> Octet] /\ BufSize \in Nat
      /\ at \in Nat /\ len \in 0 .. BufSize - 1 /\ at <= len
      /\ line \in Seq(Octet) /\ Len(line) \in Nat
    BY SizesAndOctets, LenProperties DEF TextInv, TypeOK
<1>2. PICK n \in Nat : n = len - at
    BY <1>1
<1>3. PICK p \in Seq(Octet) :
         p = Part(at, len) /\ Len(p) = n /\ \A k \in 1 .. n : p[k] = mem[at + k - 1]
    BY <1>1, <1>2, PartTyped
<1>4. PICK s \in Seq(Octet) : s = p \o line
    BY <1>1, ConcatProperties
<1>5. /\ Len(s) = n + Len(line)
      /\ \A k \in 1 .. n + Len(line) :
            s[k] = IF k <= n THEN p[k] ELSE line[k - n]
    BY <1>1, <1>3, <1>4, ConcatProperties
<1>6. \A k \in 1 .. n : s[k] = mem[at + k - 1]
    BY <1>1, <1>3, <1>5
<1>7. \A k \in 1 .. Len(line) : s[n + k] = line[k]
  <2>1. \A k \in 1 .. Len(line) :
           n + k \in 1 .. n + Len(line) /\ ~ (n + k <= n) /\ (n + k) - n = k
      BY <1>1
  <2>2. QED
      BY <1>5, <2>1
<1>8. s = Unread
    BY <1>3, <1>4 DEF Unread
<1>9. QED
    BY <1>1, <1>2, <1>5, <1>6, <1>7, <1>8 DEF UnreadForm

LEMMA UnreadTypedNext == TextInv' => UnreadForm'
BY UnreadTyped, PTL

\* While octets are read, parsing begins at the front of the buffer.
FromFront == phase = "read" => at = 0

LEMMA FromFrontInit == Init => FromFront
BY DEF Init, FromFront

LEMMA FromFrontStep == FromFront /\ [Next]_vars => FromFront'
BY DEF FromFront, Next, Handle, Session, Read, ReadUart, Trace, ParseLine, LinesDone, Wake,
       ReadIdent, TimesOut, PauseEnds, WebClears, MeterIdentifies, MeterSends, Damage, vars,
       text, wire

\* Reading moves octets from the line to the buffer.
LEMMA ReadKeeps ==
    ASSUME TextInv, FromFront, Read
    PROVE  Unread' = Unread
<1>1. PICK n \in 1 .. Len(line) : ReadUart(n)
    BY DEF Read
<1>2. TextInv'
    BY ReadTyped
<1>3. /\ Unread \in Seq(Octet) /\ Len(Unread) = (len - at) + Len(line)
      /\ \A k \in 1 .. len - at : Unread[k] = mem[at + k - 1]
      /\ \A k \in 1 .. Len(line) : Unread[(len - at) + k] = line[k]
      /\ len - at \in Nat /\ Len(line) \in Nat
    BY UnreadTyped DEF UnreadForm
<1>4. /\ Unread' \in Seq(Octet) /\ Len(Unread') = (len' - at') + Len(line')
      /\ \A k \in 1 .. len' - at' : Unread'[k] = mem'[at' + k - 1]
      /\ \A k \in 1 .. Len(line') : Unread'[(len' - at') + k] = line'[k]
      /\ len' - at' \in Nat /\ Len(line') \in Nat
    BY <1>2, UnreadTypedNext DEF UnreadForm
<1>5. /\ line \in Seq(Octet) /\ mem \in [0 .. BufSize - 1 -> Octet]
      /\ len \in 0 .. BufSize - 1 /\ BufSize \in Nat /\ len \in Nat /\ at = 0
    BY <1>1, SizesAndOctets DEF TextInv, TypeOK, FromFront, ReadUart
<1>6. n \in 0 .. Len(line) /\ n \in Nat /\ len + n \in 0 .. BufSize - 1
  <2>1. n \in 1 .. BufSize - len - 1
      BY <1>1 DEF ReadUart, Asked
  <2>2. QED
      BY <1>5, <2>1
<1>7. /\ mem' = Stored(len, Received(n)) /\ len' = len + n /\ at' = 0
      /\ line' = SubSeq(line, n + 1, Len(line))
    BY <1>1 DEF ReadUart
<1>8. Len(Received(n)) = n /\ \A k \in 1 .. n : Received(n)[k] = line[k]
    BY <1>5, <1>6, InFront DEF Received
<1>9. Len(line') = Len(line) - n /\ \A k \in 1 .. Len(line) - n : line'[k] = line[n + k]
    BY <1>5, <1>6, <1>7, Behind
<1>10. Len(Unread') = Len(Unread)
  <2>1. Len(Unread') = (len + n - 0) + (Len(line) - n)
      BY <1>4, <1>7, <1>9
  <2>2. Len(Unread) = (len - 0) + Len(line)
      BY <1>3, <1>5
  <2>3. len \in Nat /\ n \in Nat /\ Len(line) \in Nat
      BY <1>3, <1>5, <1>6
  <2>4. QED
      BY <2>1, <2>2, <2>3
<1>11. ASSUME NEW k \in 1 .. Len(Unread) PROVE Unread'[k] = Unread[k]
  <2>1. CASE k <= len
    <3>1. k - 1 \in 0 .. BufSize - 1 /\ k - 1 < len
          /\ k \in 1 .. len - at /\ k \in 1 .. len' - at'
        BY <1>3, <1>5, <1>6, <1>7, <2>1
    <3>2. mem'[k - 1] = mem[k - 1]
        BY <1>5, <1>6, <1>7, <1>8, <3>1 DEF Stored
    <3>3. Unread'[k] = mem'[at' + k - 1] /\ Unread[k] = mem[at + k - 1]
        BY <1>2, <1>3, <1>4, <3>1
    <3>4. QED
        BY <1>5, <1>7, <3>2, <3>3
  <2>2. CASE len < k /\ k <= len + n
    <3>1. k - 1 \in 0 .. BufSize - 1 /\ k - 1 \in len .. len + n - 1
          /\ (k - 1) - len + 1 = k - len /\ k - len \in 1 .. n
          /\ k \in 1 .. len' - at' /\ k - len \in 1 .. Len(line)
          /\ (len - at) + (k - len) = k
        BY <1>3, <1>5, <1>6, <1>7, <2>2
    <3>2. mem'[k - 1] = Received(n)[k - len]
        BY <1>5, <1>6, <1>7, <1>8, <3>1 DEF Stored
    <3>3. Unread'[k] = mem'[at' + k - 1]
        BY <1>2, <1>4, <3>1
    <3>4. Unread[(len - at) + (k - len)] = line[k - len]
        BY <1>3, <3>1
    <3>5. at' + k - 1 = k - 1
        BY <1>7
    <3>6. QED
        BY <1>8, <3>1, <3>2, <3>3, <3>4, <3>5
  <2>3. CASE len + n < k
    <3>1. PICK i \in Nat : i = k - len - n
        BY <1>3, <1>5, <1>6, <2>3
    <3>2. /\ i \in 1 .. Len(line') /\ i \in 1 .. Len(line) - n /\ n + i \in 1 .. Len(line)
          /\ (len' - at') + i = k /\ (len - at) + (n + i) = k
        BY <1>3, <1>5, <1>6, <1>7, <1>9, <2>3, <3>1
    <3>3. Unread'[(len' - at') + i] = line'[i] /\ line'[i] = line[n + i]
        BY <1>2, <1>4, <1>9, <3>2
    <3>4. Unread[(len - at) + (n + i)] = line[n + i]
        BY <1>3, <3>2
    <3>5. QED
        BY <3>2, <3>3, <3>4
  <2>4. QED
      BY <1>3, <1>5, <1>6, <2>1, <2>2, <2>3
<1>12. QED
    BY <1>2, <1>3, <1>4, <1>10, <1>11, SeqEqual

\* So does moving what is left to the front, unless it is given up.
LEMMA LinesDoneKeeps ==
    ASSUME TextInv, LinesDone, ~ GivesUp
    PROVE  Unread' = Unread
<1>1. TextInv'
    BY LinesDoneTyped
<1>2. /\ mem \in [0 .. BufSize - 1 -> Octet] /\ BufSize \in Nat
      /\ len \in Nat /\ at \in Nat /\ len <= BufSize - 1 /\ at <= len
    BY SizesAndOctets DEF TextInv, TypeOK
<1>3. mem' = Moved /\ len' = len - at /\ at' = 0 /\ line' = line
    BY DEF LinesDone, KeepRest, wire
<1>4. PICK n \in Nat : n = len - at
    BY <1>2
<1>5. /\ Unread \in Seq(Octet) /\ Len(Unread) = n + Len(line) /\ Len(line) \in Nat
      /\ \A k \in 1 .. n : Unread[k] = mem[at + k - 1]
      /\ \A k \in 1 .. Len(line) : Unread[n + k] = line[k]
    BY <1>4, UnreadTyped DEF UnreadForm
<1>6. len' - at' = n
    BY <1>3, <1>4
<1>7. /\ Unread' \in Seq(Octet) /\ Len(Unread') = n + Len(line)
      /\ \A k \in 1 .. n : Unread'[k] = mem'[at' + k - 1]
      /\ \A k \in 1 .. Len(line) : Unread'[n + k] = line[k]
    BY <1>1, <1>3, <1>6, UnreadTypedNext DEF UnreadForm
<1>8. ASSUME NEW k \in 1 .. n PROVE Unread'[k] = Unread[k]
  <2>1. k - 1 \in 0 .. BufSize - 1 /\ k - 1 < len - at /\ (k - 1) + at = at + k - 1
        /\ 0 + k - 1 = k - 1
      BY <1>2, <1>4
  <2>2. mem'[k - 1] = mem[(k - 1) + at]
      BY <1>2, <1>3, <2>1 DEF Moved
  <2>3. QED
      BY <1>3, <1>5, <1>7, <2>1, <2>2
<1>9. ASSUME NEW k \in 1 .. Len(Unread) PROVE Unread'[k] = Unread[k]
  <2>1. CASE k <= n
      BY <1>5, <1>8, <2>1
  <2>2. CASE n < k
    <3>1. k - n \in 1 .. Len(line) /\ n + (k - n) = k
        BY <1>5, <2>2
    <3>2. QED
        BY <1>5, <1>7, <3>1
  <2>3. QED
      BY <2>1, <2>2, <1>5
<1>10. QED
    BY <1>5, <1>7, <1>9, SeqEqual

\* Parsing takes the first line off it, and leaves the rest as it is.
LEMMA ParseTakesLine ==
    ASSUME TextInv, ParseLine
    PROVE  \E e \in at .. len - 1 :
              /\ e = Least(Finds(mem, at, Newline))
              /\ CutAtEnd(Unread, (e - at) + 1, Unread')
              /\ SubSeq(Unread, 1, e - at) = Part(at, e)
<1> DEFINE ends == Finds(mem, at, Newline)
<1>1. PICK e : e = Least(ends)
    OBVIOUS
<1>2. /\ mem \in [0 .. BufSize - 1 -> Octet] /\ BufSize \in Nat
      /\ len \in Nat /\ at \in Nat /\ len <= BufSize - 1 /\ at <= len /\ mem[len] = Zero
      /\ line \in Seq(Octet)
    BY SizesAndOctets DEF TextInv, Ended, TypeOK, ParseLine
<1>3. ends # {} /\ ends \in SUBSET Nat
    BY <1>2 DEF ParseLine, Finds
<1>4. e \in ends /\ \A x \in ends : e <= x
  <2>1. PICK x \in ends : \A y \in ends : x <= y
      BY <1>3, LeastIn
  <2>2. QED
      BY <1>1, <2>1 DEF Least
<1>5. /\ e \in 0 .. BufSize - 1 /\ e >= at /\ mem[e] = Newline
      /\ \A k \in at .. e : mem[k] # Zero
    BY <1>2, <1>4 DEF Finds
<1>6. mem' = Parsed(at, e) /\ at' = e + 1 /\ len' = len /\ line' = line
    BY <1>1 DEF ParseLine, wire
<1>7. \A x \in 0 .. BufSize - 1 :
         x >= at /\ mem[x] = Newline /\ (\A k \in at .. x : mem[k] # Zero) => e <= x
    BY <1>2, <1>4 DEF Finds
<1> HIDE DEF ends
<1>8. e < len
  <2>1. SUFFICES ASSUME ~ (e < len) PROVE FALSE
      BY <1>2, <1>5
  <2>2. len \in at .. e
      BY <1>2, <1>5, <2>1
  <2>3. QED
      BY <1>2, <1>5, <2>2
<1>9. PICK n \in Nat, d \in Nat : n = len - at /\ d = (e - at) + 1
    BY <1>2, <1>5
<1>10. /\ Unread \in Seq(Octet) /\ Len(Unread) = n + Len(line) /\ Len(line) \in Nat
       /\ \A k \in 1 .. n : Unread[k] = mem[at + k - 1]
       /\ \A k \in 1 .. Len(line) : Unread[n + k] = line[k]
    BY <1>9, UnreadTyped DEF UnreadForm
<1>11. d \in 1 .. n /\ at + d - 1 = e
    BY <1>2, <1>5, <1>8, <1>9
<1>12. FirstEnd(Unread, d)
  <2>1. DOMAIN Unread = 1 .. Len(Unread)
      BY <1>10, LenProperties
  <2>2. \A k \in 1 .. d : k \in 1 .. n /\ at + k - 1 \in at .. e
      BY <1>2, <1>5, <1>9, <1>11
  <2>3. Unread[d] = Newline /\ \A k \in 1 .. d : Unread[k] # Zero
      BY <1>5, <1>10, <1>11, <2>2
  <2>4. d \in LineEnds(Unread)
      BY <1>10, <1>11, <2>1, <2>3 DEF LineEnds
  <2>5. ASSUME NEW x \in LineEnds(Unread), x < d PROVE FALSE
    <3>1. x \in 1 .. Len(Unread) /\ Unread[x] = Newline
        BY <2>1 DEF LineEnds
    <3>2. x \in 1 .. n /\ at + x - 1 \in 0 .. BufSize - 1 /\ at + x - 1 >= at
          /\ at + x - 1 < e
        BY <1>2, <1>5, <1>8, <1>9, <1>10, <1>11, <2>5, <3>1
    <3>3. mem[at + x - 1] = Newline
        BY <1>10, <3>1, <3>2
    <3>4. \A k \in at .. at + x - 1 : k \in at .. e
        BY <1>2, <1>5, <3>2
    <3>5. e <= at + x - 1
        BY <1>5, <1>7, <3>2, <3>3, <3>4
    <3>6. QED
        BY <1>2, <1>5, <3>2, <3>5
  <2>6. \A x \in LineEnds(Unread) : x \in Nat
      BY <1>10, <2>1 DEF LineEnds
  <2>7. QED
      BY <2>4, <2>5, <2>6, <1>11 DEF FirstEnd
<1>13. Unread' = SubSeq(Unread, d + 1, Len(Unread))
  <2>1. TextInv'
      BY ParseLineTyped
  <2>2. len' - at' = n - d
      BY <1>2, <1>5, <1>6, <1>9
  <2>3. /\ Unread' \in Seq(Octet) /\ Len(Unread') = (n - d) + Len(line)
        /\ \A k \in 1 .. n - d : Unread'[k] = mem'[at' + k - 1]
        /\ \A k \in 1 .. Len(line) : Unread'[(n - d) + k] = line[k]
      BY <1>6, <2>1, <2>2, UnreadTypedNext DEF UnreadForm
  <2>4. d \in 0 .. Len(Unread)
      BY <1>10, <1>11
  <2>5. PICK u \in Seq(Octet) :
           /\ u = SubSeq(Unread, d + 1, Len(Unread)) /\ Len(u) = Len(Unread) - d
           /\ \A k \in 1 .. Len(Unread) - d : u[k] = Unread[d + k]
    <3>1. LET u == SubSeq(Unread, d + 1, Len(Unread))
          IN  /\ u \in Seq(Octet) /\ Len(u) = Len(Unread) - d
              /\ \A k \in 1 .. Len(Unread) - d : u[k] = Unread[d + k]
        BY <1>10, <2>4, Behind
    <3>2. QED
        BY <3>1
  <2>6. Len(Unread') = Len(u)
      BY <1>9, <1>10, <2>3, <2>5
  <2>7. ASSUME NEW k \in 1 .. Len(u) PROVE Unread'[k] = u[k]
    <3>1. u[k] = Unread[d + k]
        BY <2>5
    <3>2. CASE k <= n - d
      <4>1. /\ k \in 1 .. n - d /\ d + k \in 1 .. n /\ at' + k - 1 = e + k
            /\ at + (d + k) - 1 = e + k /\ e + k \in 0 .. BufSize - 1
            /\ e + k # e /\ e + k \notin at .. e - 1
          BY <1>2, <1>5, <1>6, <1>9, <1>10, <1>11, <2>5, <3>2
      <4>2. mem'[e + k] = mem[e + k]
          BY <1>2, <1>6, <4>1 DEF Parsed
      <4>3. Unread'[k] = mem'[e + k] /\ Unread[d + k] = mem[e + k]
          BY <1>10, <2>3, <4>1
      <4>4. QED
          BY <3>1, <4>2, <4>3
    <3>3. CASE n - d < k
      <4>1. PICK i \in Nat : i = k - (n - d)
          BY <1>9, <1>11, <2>5, <3>3
      <4>2. i \in 1 .. Len(line) /\ (n - d) + i = k /\ n + i = d + k
          BY <1>10, <1>11, <2>5, <3>3, <4>1
      <4>3. Unread'[(n - d) + i] = line[i] /\ Unread[n + i] = line[i]
          BY <1>10, <2>3, <4>2
      <4>4. QED
          BY <3>1, <4>2, <4>3
    <3>4. k \in Nat /\ n - d \in Int
        BY <1>9, <1>10, <1>11, <2>5
    <3>5. k <= n - d \/ n - d < k
        BY <3>4
    <3>6. QED
        BY <3>2, <3>3, <3>5, Zenon
  <2>8. Unread' = u
      BY <2>3, <2>5, <2>6, <2>7, SeqEqual
  <2>9. QED
      BY <2>5, <2>8
<1>14. CutAtEnd(Unread, d, Unread')
    BY <1>12, <1>13 DEF CutAtEnd
<1>15. SubSeq(Unread, 1, e - at) = Part(at, e)
  <2>1. PICK m \in Nat : m = e - at /\ m \in 0 .. Len(Unread)
      BY <1>2, <1>5, <1>9, <1>10, <1>11
  <2>2. PICK p \in Seq(Octet) :
           p = SubSeq(Unread, 1, m) /\ Len(p) = m /\ \A k \in 1 .. m : p[k] = Unread[k]
    <3>1. LET p == SubSeq(Unread, 1, m)
          IN  /\ p \in Seq(Octet) /\ Len(p) = m
              /\ \A k \in 1 .. m : p[k] = Unread[k]
        BY <1>10, <2>1, InFront
    <3>2. QED
        BY <3>1
  <2>3. PICK q \in Seq(Octet) :
           q = Part(at, e) /\ Len(q) = m /\ \A k \in 1 .. m : q[k] = mem[at + k - 1]
      BY <1>2, <1>5, <2>1, PartTyped
  <2>4. ASSUME NEW k \in 1 .. m PROVE p[k] = q[k]
    <3>1. k \in 1 .. n
        BY <1>9, <1>11, <2>1
    <3>2. QED
        BY <1>10, <2>2, <2>3, <3>1
  <2>5. p = q
      BY <2>2, <2>3, <2>4, SeqEqual
  <2>6. QED
      BY <2>1, <2>2, <2>3, <2>5
<1>16. e \in at .. len - 1
    BY <1>2, <1>5, <1>8
<1>17. QED
    BY <1>1, <1>9, <1>14, <1>15, <1>16 DEF ends

\* What is still owed are the values in the text.
LEMMA OwedIs == Owed = ValuesIn[Unread] /\ Owed' = ValuesIn[Unread']
BY DEF Owed, Unread

\* The first value of a text is the one its first line gives.
LEMMA OwedParsed ==
    ASSUME TextInv, ParseLine
    PROVE  \/ parsed' = parsed /\ Owed = Owed'
           \/ \E v \in Data, c \in Codes :
                 /\ parsed' = [parsed EXCEPT ![c] = v] /\ Owed # <<>>
                 /\ Owed' = Tail(Owed) /\ v = Head(Owed)
<1>1. PICK e \in at .. len - 1 :
         /\ e = Least(Finds(mem, at, Newline))
         /\ CutAtEnd(Unread, (e - at) + 1, Unread')
         /\ SubSeq(Unread, 1, e - at) = Part(at, e)
    BY ParseTakesLine
<1>2. /\ at \in Nat /\ e \in Nat /\ at <= e
      /\ Unread \in Seq(Octet) /\ Unread' \in Seq(Octet)
  <2>1. Unread \in Seq(Octet) /\ Unread' \in Seq(Octet)
      BY ParseLineTyped, UnreadTyped, UnreadTypedNext DEF UnreadForm
  <2>2. at \in Nat /\ len \in Nat
      BY SizesAndOctets DEF TextInv, TypeOK
  <2>3. QED
      BY <1>1, <2>1, <2>2
<1>3. PICK t : t = Part(at, e)
    OBVIOUS
<1>4. PICK d \in Nat : d = (e - at) + 1 /\ d - 1 = e - at
    BY <1>2
<1>5. SubSeq(Unread, 1, d - 1) = t /\ CutAtEnd(Unread, d, Unread')
    BY <1>1, <1>3, <1>4
<1>6. /\ ValueOf(t) \in Seq(Data)
      /\ ValuesIn[Unread] = ValueOf(t) \o ValuesIn[Unread']
    BY <1>2, <1>5, ValuesFromFirst
<1>7. PICK w \in Seq(Data) : w = ValuesIn[Unread']
    BY <1>2, ValuesTyped, FlattenConcat
<1>8. IF ReadAs(t) = {} THEN NoReading ELSE \E r \in ReadAs(t) : TakeReading(r)
    BY <1>1, <1>3 DEF ParseLine
<1>9. CASE ReadAs(t) = {}
  <2>1. ValueOf(t) = <<>> /\ parsed' = parsed
      BY <1>8, <1>9 DEF ValueOf, NoReading, shown
  <2>2. Owed = Owed'
      BY <1>6, <1>7, <2>1, OwedIs, ConcatEmptySeq
  <2>3. QED
      BY <2>1, <2>2
<1>10. CASE ReadAs(t) # {}
  <2>1. PICK r \in ReadAs(t) : TakeReading(r)
      BY <1>8, <1>10
  <2>2. DOMAIN t \in SUBSET Nat
      BY <1>2, <1>3 DEF Part
  <2>3. r.obis \in Codes /\ r.data \in Data
      BY <2>1, <2>2, ReadAsTyped
  <2>4. r \in [obis : IF IsCode(t[2]) THEN Codes ELSE {t[1][2]},
               valid : {TRUE}, typed : {TRUE}, data : {t[Least(Opening(t))][2]}]
      BY <2>1 DEF ReadAs
  <2>5. r.data = t[Least(Opening(t))][2]
      BY <2>4
  <2>6. PICK v \in Data, c \in Codes : v = r.data /\ c = r.obis
      BY <2>3
  <2>7. ValueOf(t) = <<v>>
      BY <1>10, <2>5, <2>6 DEF ValueOf
  <2>8. parsed' = [parsed EXCEPT ![c] = v]
      BY <2>1, <2>6 DEF TakeReading
  <2>9. Owed = <<v>> \o w /\ Owed' = w
      BY <1>6, <1>7, <2>7, OwedIs
  <2>10. PICK x \in Seq(Data) : x = <<v>> \o w
    <3>1. <<v>> \in Seq(Data)
        OBVIOUS
    <3>2. QED
        BY <3>1, ConcatProperties
  <2>11. x # <<>> /\ Head(x) = v /\ Tail(x) = w
    <3>1. <<v>> \in Seq(Data) /\ Len(<<v>>) = 1 /\ <<v>>[1] = v
        OBVIOUS
    <3>2. PICK y \in Seq(Data) : y = <<v>> /\ Len(y) = 1 /\ y[1] = v
        BY <3>1
    <3>3. /\ Len(x) = 1 + Len(w)
          /\ \A i \in 1 .. 1 + Len(w) : x[i] = IF i <= 1 THEN v ELSE w[i - 1]
        BY <2>10, <3>2, ConcatProperties
    <3>4. Len(w) \in Nat
        BY LenProperties
    <3>5. x # <<>>
        BY <3>3, <3>4, EmptySeq
    <3>6. Head(x) = v
        BY <3>3, <3>4, <3>5, HeadTailProperties
    <3>7. PICK z \in Seq(Data) : z = Tail(x) /\ Len(z) = Len(x) - 1
                                 /\ \A i \in 1 .. Len(z) : z[i] = x[i + 1]
        BY <3>5, HeadTailProperties
    <3>8. Len(z) = Len(w) /\ \A i \in 1 .. Len(z) : z[i] = w[i]
        BY <3>3, <3>4, <3>7
    <3>9. z = w
        BY <3>8, SeqEqual
    <3>10. QED
        BY <3>5, <3>6, <3>7, <3>9
  <2>12. QED
      BY <2>8, <2>9, <2>10, <2>11
<1>11. QED
    BY <1>9, <1>10

\* However the octets of the line are cut into reads, and wherever lines are
\* split, what is parsed is what one look at the whole text would find, in its
\* order and once each, for every size of the buffer (both tasks).
THEOREM CutsDoNotMatterHolds == Spec => CutsDoNotMatter
<1>1. Init => TextInv /\ FromFront
    BY TextInitTyped, FromFrontInit
<1>2. TextInv /\ FromFront /\ [Next]_vars => (TextInv /\ FromFront)'
    BY TextStepTyped, FromFrontStep
<1>3. ASSUME TextInv, FromFront
      PROVE  \A before \in {Owed}, after \in {Owed'} :
                /\ Read \/ (LinesDone /\ ~ GivesUp) => after = before
                /\ ParseLine => after = before \/ (before # <<>> /\ after = Tail(before))
                /\ ParseLine /\ parsed' # parsed =>
                      /\ before # <<>>
                      /\ \E c \in Codes : parsed' = [parsed EXCEPT ![c] = Head(before)]
  <2>1. Read \/ (LinesDone /\ ~ GivesUp) => Owed' = Owed
      BY <1>3, ReadKeeps, LinesDoneKeeps, OwedIs
  <2>2. ASSUME ParseLine
        PROVE  /\ Owed' = Owed \/ (Owed # <<>> /\ Owed' = Tail(Owed))
               /\ parsed' # parsed =>
                     /\ Owed # <<>>
                     /\ \E c \in Codes : parsed' = [parsed EXCEPT ![c] = Head(Owed)]
      BY <1>3, <2>2, OwedParsed
  <2>3. QED
      BY <2>1, <2>2
<1>4. QED
    BY <1>1, <1>2, <1>3, PTL DEF Spec, CutsDoNotMatter

-----------------------------------------------------------------------------
(* The end of a session                                                    *)

\* The '!' and the zero are none of the other octets.
LEMMA MarkAndZero ==
    /\ Mark # Zero /\ Mark # Newline /\ Zero # Newline /\ Zero # Noise /\ Mark # Noise
    /\ \A c \in Codes : Mark # Code(c) /\ Zero # Code(c)
    /\ \A d \in Data : Mark # Value(d) /\ Zero # Value(d)
BY AsciiAssumption

\* What is left of a telegram: the '!' comes in it only as its last line, and
\* no octet is zero.
Ending(s) ==
    \A k \in 1 .. Len(s) :
        /\ s[k] # Zero
        /\ s[k] = Mark => /\ k + 1 = Len(s) /\ s[k + 1] = Newline
                          /\ k = 1 \/ s[k - 1] = Newline

\* Without faults a session waits for its identification, then for its telegram,
\* then has the rest of it before it; and once the line of the '!' is parsed
\* nothing is left.
InSession ==
    /\ phase = "ident" => \/ meter = "ident" /\ line = <<>>
                          \/ meter = "quiet" /\ line = <<Noise, Newline>>
    /\ phase \in {"read", "split"} =>
          /\ meter # "ident" /\ Ending(Unread)
          /\ meter = "telegram" => Unread \in {<<>>, <<Newline>>}
    /\ phase = "split" =>
          /\ at > 0 => mem[at - 1] = Zero
          /\ \A j \in 0 .. at - 1 : mem[j] = Mark => Unread = <<>>
LeaveInv == task = "iec" /\ faults = MaxFaults => InSession

\* Behind a line a telegram goes on.
LEMMA EndingBehind ==
    ASSUME NEW s \in Seq(Octet), NEW d, NEW u \in Seq(Octet), CutAtEnd(s, d, u), Ending(s)
    PROVE  /\ Ending(u)
           /\ \A k \in 1 .. d : s[k] = Mark => u = <<>>
           /\ s = <<>> \/ s = <<Newline>> => u = <<>>
<1>1. /\ d \in 1 .. Len(s) /\ Len(u) = Len(s) - d
      /\ \A i \in 1 .. Len(u) : u[i] = s[d + i]
    BY EndsBehind
<1>2. Len(s) \in Nat /\ Len(u) \in Nat
    BY LenProperties
<1>3. ASSUME NEW k \in 1 .. Len(u)
      PROVE  /\ u[k] # Zero
             /\ u[k] = Mark => /\ k + 1 = Len(u) /\ u[k + 1] = Newline
                               /\ k = 1 \/ u[k - 1] = Newline
  <2>1. PICK x \in Nat : x = d + k
      BY <1>1, <1>2
  <2>2. x \in 1 .. Len(s) /\ u[k] = s[x]
      BY <1>1, <1>2, <2>1
  <2>3. /\ s[x] # Zero
        /\ s[x] = Mark => /\ x + 1 = Len(s) /\ s[x + 1] = Newline
                          /\ x = 1 \/ s[x - 1] = Newline
      BY <2>2 DEF Ending
  <2>4. ASSUME s[x] = Mark
        PROVE  /\ k + 1 = Len(u) /\ u[k + 1] = Newline
               /\ k = 1 \/ u[k - 1] = Newline
    <3>0. x + 1 = Len(s) /\ d \in Nat /\ k \in Nat
        BY <1>1, <1>2, <2>3, <2>4
    <3>1. k + 1 = Len(u) /\ k + 1 \in 1 .. Len(u) /\ x + 1 = d + (k + 1)
      <4>1. Len(u) = Len(s) - d /\ Len(s) \in Nat /\ x = d + k
          BY <1>1, <1>2, <2>1
      <4>2. PICK a \in Nat, b \in Nat : a = Len(u) /\ b = Len(s)
          BY <1>2
      <4>3. k + 1 = a /\ k + 1 \in 1 .. a /\ x + 1 = d + (k + 1)
          BY <3>0, <4>1, <4>2
      <4>4. QED
          BY <4>2, <4>3
    <3>2. u[k + 1] = Newline
        BY <1>1, <2>3, <2>4, <3>1
    <3>3. ASSUME k # 1 PROVE u[k - 1] = Newline
      <4>1. k - 1 \in 1 .. Len(u) /\ x - 1 = d + (k - 1) /\ x # 1
          BY <1>1, <1>2, <2>1, <3>3
      <4>2. QED
          BY <1>1, <2>3, <2>4, <4>1
    <3>4. QED
        BY <3>1, <3>2, <3>3
  <2>5. QED
      BY <2>2, <2>3, <2>4
<1>4. ASSUME NEW k \in 1 .. d, s[k] = Mark PROVE u = <<>>
  <2>1. k \in 1 .. Len(s) /\ k + 1 = Len(s)
      BY <1>1, <1>2, <1>4 DEF Ending
  <2>2. k # d
    <3>1. s[d] = Newline
        BY DEF CutAtEnd, FirstEnd, LineEnds
    <3>2. QED
        BY <1>4, <3>1, MarkAndZero
  <2>3. Len(u) <= 0
      BY <1>1, <1>2, <2>1, <2>2
  <2>4. QED
      BY <1>2, <2>3, EmptySeq
<1>5. ASSUME s = <<>> \/ s = <<Newline>> PROVE u = <<>>
  <2>1. Len(s) <= 1
    <3>1. CASE s = <<>>
        BY <1>2, <3>1, EmptySeq
    <3>2. CASE s = <<Newline>>
      <4>1. Len(<<Newline>>) = 1
          OBVIOUS
      <4>2. QED
          BY <3>2, <4>1
    <3>3. QED
        BY <1>5, <3>1, <3>2
  <2>2. Len(u) <= 0
      BY <1>1, <1>2, <2>1
  <2>3. QED
      BY <1>2, <2>2, EmptySeq
<1>6. QED
    BY <1>3, <1>4, <1>5 DEF Ending

\* Whole lines, none of them that of the '!'.
WholeLines(s) ==
    \A k \in 1 .. Len(s) : /\ s[k] # Mark /\ s[k] # Zero
                           /\ k = Len(s) => s[k] = Newline

\* Whole lines and the line of the '!' are an end of a telegram,
LEMMA LinesAndMark ==
    ASSUME NEW s \in Seq(Octet), WholeLines(s)
    PROVE  Ending(s \o <<Mark, Newline>>)
<1>1. Len(s) \in Nat
    BY LenProperties
<1>2. PICK n \in Nat : n = Len(s)
    BY <1>1
<1>3. PICK m : m = <<Mark, Newline>>
    OBVIOUS
<1>4. PICK l \in Nat : l = 2
    OBVIOUS
<1>5. m \in Seq(Octet) /\ Len(m) = l /\ m[1] = Mark /\ m[2] = Newline
  <2>1. <<Mark, Newline>> \in Seq(Octet)
      BY SizesAndOctets
  <2>2. Len(<<Mark, Newline>>) = 2
      OBVIOUS
  <2>3. <<Mark, Newline>>[1] = Mark /\ <<Mark, Newline>>[2] = Newline
      OBVIOUS
  <2>4. Len(m) = l
      BY <1>3, <1>4, <2>2, Zenon
  <2>5. QED
      BY <1>3, <2>1, <2>3, <2>4, Zenon
<1>6. PICK t \in Seq(Octet) : t = s \o m
    BY <1>3, <1>4, <1>5, ConcatProperties
<1>7. /\ Len(t) = n + 2
      /\ \A k \in 1 .. n + 2 : t[k] = IF k <= n THEN s[k] ELSE m[k - n]
  <2>1. /\ Len(t) = Len(s) + Len(m)
        /\ \A k \in 1 .. Len(s) + Len(m) :
              t[k] = IF k <= Len(s) THEN s[k] ELSE m[k - Len(s)]
      BY <1>3, <1>4, <1>5, <1>6, ConcatProperties
  <2>2. /\ Len(t) = n + l
        /\ \A k \in 1 .. n + l : t[k] = IF k <= n THEN s[k] ELSE m[k - n]
      BY <1>2, <1>3, <1>4, <1>5, <2>1
  <2>3. QED
      BY <1>3, <1>4, <1>5, <2>2
<1>8. ASSUME NEW k \in 1 .. n
      PROVE  t[k] # Mark /\ t[k] # Zero /\ (k = n => t[k] = Newline)
    BY <1>2, <1>7 DEF WholeLines
<1>9. t[n + 1] = Mark /\ t[n + 2] = Newline
  <2>1. /\ n + 1 \in 1 .. n + 2 /\ ~ (n + 1 <= n) /\ (n + 1) - n = 1
        /\ n + 2 \in 1 .. n + 2 /\ ~ (n + 2 <= n) /\ (n + 2) - n = 2
      OBVIOUS
  <2>2. QED
      BY <1>3, <1>4, <1>5, <1>7, <2>1
<1>10. ASSUME NEW k \in 1 .. n + 2
      PROVE  /\ t[k] # Zero
             /\ t[k] = Mark => /\ k + 1 = n + 2 /\ t[k + 1] = Newline
                               /\ k = 1 \/ t[k - 1] = Newline
  <2>1. CASE k \in 1 .. n
      BY <1>8, <2>1
  <2>2. CASE k = n + 1
    <3>1. k + 1 = n + 2 /\ k - 1 = n
        BY <2>2
    <3>2. k = 1 \/ t[k - 1] = Newline
      <4>1. CASE n = 0
          BY <2>2, <4>1
      <4>2. CASE n # 0
        <5>1. n \in 1 .. n
            BY <4>2
        <5>2. QED
            BY <1>8, <3>1, <5>1
      <4>3. QED
          BY <4>1, <4>2
    <3>3. QED
        BY <1>9, <2>2, <3>1, <3>2, MarkAndZero
  <2>3. CASE k = n + 2
      BY <1>9, <2>3, MarkAndZero
  <2>4. k \in 1 .. n \/ k = n + 1 \/ k = n + 2
      OBVIOUS
  <2>5. QED
      BY <2>1, <2>2, <2>3, <2>4
<1>11. Ending(t)
    BY <1>7, <1>10 DEF Ending
<1>12. QED
    BY <1>3, <1>4, <1>5, <1>6, <1>11

\* also if the end of a line comes before them.
LEMMA LinesAfterNewline ==
    ASSUME NEW s \in Seq(Octet), WholeLines(s)
    PROVE  <<Newline>> \o s \in Seq(Octet) /\ WholeLines(<<Newline>> \o s)
<1>1. PICK n \in Nat : n = Len(s)
    BY LenProperties
<1>2. PICK m, l : m = <<Newline>> /\ l = 1
    OBVIOUS
<1>3. m \in Seq(Octet) /\ Len(m) = l /\ m[1] = Newline /\ l \in Nat
  <2>1. <<Newline>> \in Seq(Octet)
      BY SizesAndOctets
  <2>2. Len(<<Newline>>) = 1 /\ <<Newline>>[1] = Newline /\ 1 \in Nat
      OBVIOUS
  <2>3. QED
      BY <1>2, <2>1, <2>2, Zenon
<1>4. PICK t \in Seq(Octet) : t = m \o s
    BY <1>2, <1>3, ConcatProperties
<1>5. /\ Len(t) = 1 + n
      /\ \A k \in 1 .. 1 + n : t[k] = IF k <= 1 THEN m[k] ELSE s[k - 1]
  <2>1. /\ Len(t) = Len(m) + Len(s)
        /\ \A k \in 1 .. Len(m) + Len(s) :
              t[k] = IF k <= Len(m) THEN m[k] ELSE s[k - Len(m)]
      BY <1>2, <1>3, <1>4, ConcatProperties
  <2>2. /\ Len(t) = l + n
        /\ \A k \in 1 .. l + n : t[k] = IF k <= l THEN m[k] ELSE s[k - l]
      BY <1>1, <1>2, <1>3, <2>1
  <2>3. QED
      BY <1>2, <1>3, <2>2
<1>6. ASSUME NEW k \in 1 .. 1 + n
      PROVE  t[k] # Mark /\ t[k] # Zero /\ (k = 1 + n => t[k] = Newline)
  <2>1. CASE k = 1
    <3>1. t[k] = Newline
        BY <1>2, <1>3, <1>5, <2>1
    <3>2. QED
        BY <3>1, MarkAndZero
  <2>2. CASE k # 1
    <3>1. k - 1 \in 1 .. n /\ ~ (k <= 1) /\ (k = 1 + n => k - 1 = n)
        BY <2>2
    <3>2. t[k] = s[k - 1]
        BY <1>5, <3>1
    <3>3. QED
        BY <1>1, <3>1, <3>2 DEF WholeLines
  <2>3. QED
      BY <2>1, <2>2
<1>7. WholeLines(t)
    BY <1>5, <1>6 DEF WholeLines
<1>8. QED
    BY <1>2, <1>3, <1>4, <1>7

\* A telegram is made of them.
LEMMA TelegramLines ==
    ASSUME TextInv
    PROVE  \E t \in Seq(Octet) : WholeLines(t) /\ Telegram = t \o <<Mark, Newline>>
<1>1. PushNumber \in 1 .. PushMod
    BY SizesAndOctets DEF PushNumber, TextInv, TypeOK
<1>2. PICK n \in Nat : n = Len(Text)
    BY AsciiAssumption, LenProperties
<1>3. PICK m \in Nat : m = 3 * n
    BY <1>2
<1>4. ASSUME NEW k \in 1 .. m
      PROVE  LET o == LineOf(Text[(k + 2) \div 3])[((k - 1) % 3) + 1]
             IN  o \in Octet /\ o # Mark /\ o # Zero /\ (k = m => o = Newline)
  <2>1. (k + 2) \div 3 \in 1 .. Len(Text)
      BY <1>2, <1>3
  <2>2. PICK c \in Codes : c = Text[(k + 2) \div 3]
      BY <2>1, AsciiAssumption, ElementOfSeq
  <2>3. PICK x \in 1 .. 3 : x = ((k - 1) % 3) + 1 /\ (k = m => x = 3)
    <3>1. ((k - 1) % 3) + 1 \in 1 .. 3
        OBVIOUS
    <3>2. k = m => ((k - 1) % 3) + 1 = 3
        BY <1>2, <1>3
    <3>3. QED
        BY <3>1, <3>2
  <2>4. PICK d \in Data : d = [from |-> c, push |-> PushNumber]
      BY <1>1, AsciiAssumption
  <2>5. LineOf(c) = <<Code(c), Value(d), Newline>>
      BY <2>4 DEF LineOf
  <2>6. /\ LineOf(c)[1] = Code(c) /\ LineOf(c)[2] = Value(d) /\ LineOf(c)[3] = Newline
      BY <2>5
  <2>7. x = 1 \/ x = 2 \/ x = 3
      OBVIOUS
  <2>8. LineOf(c)[x] \in Octet /\ LineOf(c)[x] # Mark /\ LineOf(c)[x] # Zero
        /\ (x = 3 => LineOf(c)[x] = Newline)
      BY <2>6, <2>7, SizesAndOctets, MarkAndZero
  <2>9. QED
      BY <2>2, <2>3, <2>8
<1> DEFINE t == [k \in 1 .. m |-> LineOf(Text[(k + 2) \div 3])[((k - 1) % 3) + 1]]
<1>5. /\ \A k \in 1 .. m : t[k] \in Octet /\ t[k] # Mark /\ t[k] # Zero
                           /\ (k = m => t[k] = Newline)
      /\ t \in [1 .. m -> Octet]
    BY <1>4
<1>6. Telegram = t \o <<Mark, Newline>>
    BY <1>2, <1>3, Zenon DEF Telegram, t
<1> HIDE DEF t
<1>7. t \in Seq(Octet) /\ Len(t) = m
    BY <1>5
<1>8. WholeLines(t)
    BY <1>5, <1>7 DEF WholeLines
<1>9. QED
    BY <1>6, <1>7, <1>8

LEMMA OctetsRegroup ==
    \A p \in Seq(Octet), q \in Seq(Octet), r \in Seq(Octet) :
        p \o (q \o r) = (p \o q) \o r
BY ConcatAssociative

\* What is left of a line or two before a telegram, and the telegram.
LEMMA TelegramEnds ==
    ASSUME TextInv, NEW s \in {<<>>, <<Newline>>}
    PROVE  Ending(s \o Telegram)
<1>1. PICK t \in Seq(Octet) : WholeLines(t) /\ Telegram = t \o <<Mark, Newline>>
    BY TelegramLines
<1>2. <<Mark, Newline>> \in Seq(Octet) /\ <<Newline>> \in Seq(Octet)
    BY SizesAndOctets
<1>3. CASE s = <<>>
  <2>1. s \o Telegram = Telegram
      BY <1>3, TelegramTyped, ConcatEmptySeq
  <2>2. QED
      BY <1>1, <2>1, LinesAndMark
<1>4. CASE s = <<Newline>>
  <2>1. PICK u \in Seq(Octet) : u = <<Newline>> \o t /\ WholeLines(u)
      BY <1>1, LinesAfterNewline
  <2>2. s \o Telegram = u \o <<Mark, Newline>>
    <3>1. PICK m \in Seq(Octet), n \in Seq(Octet) : m = <<Mark, Newline>> /\ n = <<Newline>>
        BY <1>2
    <3>2. n \o (t \o m) = (n \o t) \o m
        BY OctetsRegroup, Zenon
    <3>3. QED
        BY <1>1, <1>4, <2>1, <3>1, <3>2, Zenon
  <2>3. QED
      BY <2>1, <2>2, LinesAndMark
<1>5. QED
    BY <1>3, <1>4

LEMMA ShortEnds == Ending(<<>>) /\ Ending(<<Newline>>)
<1>1. ASSUME NEW k \in 1 .. Len(<<>>) PROVE FALSE
    OBVIOUS
<1>2. ASSUME NEW k \in 1 .. Len(<<Newline>>) PROVE <<Newline>>[k] = Newline
    OBVIOUS
<1>3. QED
    BY <1>1, <1>2, MarkAndZero DEF Ending

\* InSession holds from Wake on and through every step of a session: one lemma
\* for each action that says something about the text.
LEMMA LeaveInit == Init => LeaveInv
BY DEF Init, LeaveInv, InSession

LEMMA LeaveRead ==
    ASSUME TextInv, FromFront, InSession, Read
    PROVE  InSession'
<1>1. PICK n \in 1 .. Len(line) : ReadUart(n)
    BY DEF Read
<1>2. phase = "read" /\ phase' = "split" /\ at' = 0 /\ meter' = meter
    BY <1>1 DEF ReadUart
<1>3. Unread' = Unread
    BY ReadKeeps
<1>4. \A j \in 0 .. 0 - 1 : FALSE
    OBVIOUS
<1>5. QED
    BY <1>2, <1>3, <1>4 DEF InSession

LEMMA LeaveLinesDone ==
    ASSUME TextInv, InSession, task = "iec", LinesDone
    PROVE  InSession'
<1>1. ~ GivesUp
    BY DEF GivesUp
<1>2. Unread' = Unread
    BY <1>1, LinesDoneKeeps
<1>3. phase = "split" /\ phase' \in {"read", "pause"} /\ meter' = meter
    BY DEF LinesDone, wire
<1>4. QED
    BY <1>2, <1>3 DEF InSession

LEMMA LeaveParseLine ==
    ASSUME TextInv, InSession, ParseLine
    PROVE  InSession'
<1>1. PICK e \in at .. len - 1 :
         /\ e = Least(Finds(mem, at, Newline))
         /\ CutAtEnd(Unread, (e - at) + 1, Unread')
    BY ParseTakesLine
<1>2. /\ at \in Nat /\ len \in Nat /\ e \in Nat /\ at <= e /\ e < len
      /\ mem \in [0 .. BufSize - 1 -> Octet] /\ BufSize \in Nat /\ len <= BufSize - 1
  <2>1. /\ at \in Nat /\ len \in Nat /\ mem \in [0 .. BufSize - 1 -> Octet]
        /\ BufSize \in Nat /\ len <= BufSize - 1
      BY SizesAndOctets DEF TextInv, TypeOK
  <2>2. QED
      BY <1>1, <2>1
<1>3. /\ mem' = Parsed(at, e) /\ at' = e + 1 /\ phase = "split" /\ phase' = "split"
      /\ meter' = meter
    BY <1>1 DEF ParseLine, wire
<1>4. Unread \in Seq(Octet) /\ Unread' \in Seq(Octet)
    BY ParseLineTyped, UnreadTyped, UnreadTypedNext DEF UnreadForm
<1>5. PICK d \in Nat : d = (e - at) + 1
    BY <1>2
<1>6. /\ CutAtEnd(Unread, d, Unread') /\ Ending(Unread) /\ meter # "ident"
      /\ meter = "telegram" => Unread = <<>> \/ Unread = <<Newline>>
      /\ \A j \in 0 .. at - 1 : mem[j] = Mark => Unread = <<>>
    BY <1>1, <1>3, <1>5 DEF InSession
<1>7. /\ Ending(Unread') /\ \A k \in 1 .. d : Unread[k] = Mark => Unread' = <<>>
      /\ Unread = <<>> \/ Unread = <<Newline>> => Unread' = <<>>
    BY <1>4, <1>6, EndingBehind
<1>8. mem'[at' - 1] = Zero
  <2>1. e \in 0 .. BufSize - 1 /\ at' - 1 = e
      BY <1>2, <1>3
  <2>2. QED
      BY <1>2, <1>3, <2>1 DEF Parsed
<1>9. ASSUME NEW j \in 0 .. at' - 1, mem'[j] = Mark PROVE Unread' = <<>>
  <2>1. j \in 0 .. BufSize - 1 /\ j \in 0 .. e
      BY <1>2, <1>3
  <2>2. mem[j] = Mark
      BY <1>2, <1>3, <1>9, <2>1, MarkAndZero DEF Parsed
  <2>3. CASE j < at
    <3>1. j \in 0 .. at - 1
        BY <1>2, <2>1, <2>3
    <3>2. QED
        BY <1>6, <1>7, <2>2, <3>1
  <2>4. CASE at <= j
    <3>1. PICK k \in Nat : k = (j - at) + 1
        BY <1>2, <2>1, <2>4
    <3>2. k \in 1 .. d /\ k \in 1 .. len - at /\ at + k - 1 = j
        BY <1>2, <1>5, <2>1, <2>4, <3>1
    <3>3. Unread[k] = mem[at + k - 1]
        BY <3>2, UnreadTyped DEF UnreadForm
    <3>4. QED
        BY <1>7, <2>2, <3>2, <3>3
  <2>5. QED
      BY <1>2, <2>1, <2>3, <2>4
<1>10. QED
    BY <1>3, <1>6, <1>7, <1>8, <1>9 DEF InSession

LEMMA LeaveReadIdent ==
    ASSUME TextInv, InSession, ReadIdent
    PROVE  InSession'
<1>1. PICK n : n = IF Len(line) < BufSize THEN Len(line) ELSE BufSize - 1
    OBVIOUS
<1>2. /\ n > 0 /\ phase = "ident" /\ phase' = "read" /\ meter' = "telegram"
      /\ len' = 0 /\ at' = 0 /\ line' = SubSeq(line, n + 1, Len(line))
    BY <1>1 DEF ReadIdent
<1>3. /\ line \in Seq(Octet) /\ BufSize \in Nat /\ BufSize >= 2 /\ Len(line) \in Nat
    BY SizesAndOctets, LenProperties DEF TextInv, TypeOK
<1>4. n \in Nat /\ n >= 1 /\ n <= Len(line)
    BY <1>1, <1>2, <1>3
<1>5. line = <<Noise, Newline>>
  <2>1. line # <<>>
      BY <1>3, <1>4, EmptySeq
  <2>2. QED
      BY <1>2, <2>1 DEF InSession
<1>6. PICK l \in Nat : l = Len(line) /\ l <= 2 /\ line[2] = Newline
  <2>1. Len(<<Noise, Newline>>) = 2 /\ <<Noise, Newline>>[2] = Newline
      OBVIOUS
  <2>2. Len(line) <= 2 /\ line[2] = Newline
      BY <1>5, <2>1
  <2>3. QED
      BY <1>3, <2>2
<1>7. n \in 0 .. Len(line)
    BY <1>3, <1>4
<1>8. /\ line' \in Seq(Octet) /\ Len(line') = Len(line) - n
      /\ \A i \in 1 .. Len(line) - n : line'[i] = line[n + i]
    BY <1>2, <1>3, <1>7, Behind
<1>9. line' \in {<<>>, <<Newline>>}
  <2>1. CASE l - n <= 0
    <3>1. Len(line') = 0
        BY <1>4, <1>6, <1>8, <2>1
    <3>2. QED
        BY <1>8, <3>1, EmptySeq
  <2>2. CASE l - n > 0
    <3>1. n = 1 /\ l = 2
        BY <1>4, <1>6, <2>2
    <3>2. /\ 1 \in 1 .. Len(line) - n /\ n + 1 = 2 /\ Len(line') = 1
        BY <1>6, <1>8, <3>1
    <3>3. line'[1] = Newline
        BY <1>6, <1>8, <3>2
    <3>4. <<Newline>> \in Seq(Octet) /\ Len(<<Newline>>) = 1 /\ <<Newline>>[1] = Newline
        BY SizesAndOctets
    <3>5. \A i \in 1 .. Len(line') : i = 1
        BY <3>2
    <3>6. line' = <<Newline>>
        BY <1>8, <3>2, <3>3, <3>4, <3>5, SeqEqual
    <3>7. QED
        BY <3>6
  <2>3. QED
      BY <1>4, <2>1, <2>2
<1>10. Unread' = line'
  <2>1. Part(at, len)' = <<>>
    <3>1. Part(at, len)' = [k \in 1 .. 0 - 0 |-> mem'[0 + k - 1]]
        BY <1>2 DEF Part
    <3>2. \A k \in 1 .. 0 - 0 : FALSE
        OBVIOUS
    <3>3. QED
        BY <3>1, <3>2, EmptySeq
  <2>2. Unread' = Part(at, len)' \o line'
      BY DEF Unread
  <2>3. QED
      BY <1>8, <2>1, <2>2, ConcatEmptySeq
<1>11. QED
    BY <1>2, <1>9, <1>10, ShortEnds DEF InSession

LEMMA LeaveMeter ==
    ASSUME TextInv, InSession, task = "iec", MeterIdentifies \/ MeterSends
    PROVE  InSession'
<1>1. /\ phase' = phase /\ at' = at /\ len' = len /\ mem' = mem /\ phase # "split"
    BY DEF MeterIdentifies, MeterSends, Apart, text
<1>2. line \in Seq(Octet)
    BY DEF TextInv, TypeOK
<1>3. CASE MeterIdentifies
  <2>1. meter = "ident" /\ meter' = "quiet" /\ line' = line \o <<Noise, Newline>>
      BY <1>3 DEF MeterIdentifies
  <2>2. phase # "read"
      BY <2>1 DEF InSession
  <2>3. phase = "ident" => line' = <<Noise, Newline>>
    <3>1. SUFFICES ASSUME phase = "ident" PROVE line' = <<Noise, Newline>>
        OBVIOUS
    <3>2. line = <<>>
        BY <2>1, <3>1 DEF InSession
    <3>3. <<Noise, Newline>> \in Seq(Octet)
        BY SizesAndOctets
    <3>4. QED
        BY <2>1, <3>2, <3>3, ConcatEmptySeq
  <2>4. QED
      BY <1>1, <2>1, <2>2, <2>3 DEF InSession
<1>4. CASE MeterSends
  <2>1. meter = "telegram" /\ meter' = "quiet" /\ line' = line \o Telegram
      BY <1>4 DEF MeterSends
  <2>2. phase # "ident"
      BY <2>1 DEF InSession
  <2>3. ASSUME phase = "read" PROVE Ending(Unread')
    <3>1. Unread \in {<<>>, <<Newline>>}
        BY <2>1, <2>3 DEF InSession
    <3>2. PICK p \in Seq(Octet) : p = Part(at, len)
      <4>1. /\ mem \in [0 .. BufSize - 1 -> Octet] /\ BufSize \in Nat
            /\ at \in Nat /\ len \in 0 .. BufSize - 1 /\ at <= len
          BY SizesAndOctets DEF TextInv, TypeOK
      <4>2. QED
          BY <4>1, PartTyped
    <3>3. Unread' = p \o (line \o Telegram)
        BY <1>1, <2>1, <3>2 DEF Unread, Part
    <3>4. Telegram \in Seq(Octet)
        BY TelegramTyped DEF TextInv, TypeOK
    <3>5. p \o (line \o Telegram) = (p \o line) \o Telegram
        BY <1>2, <3>4, OctetsRegroup, Zenon
    <3>6. Unread' = Unread \o Telegram
        BY <3>2, <3>3, <3>5 DEF Unread
    <3>7. QED
        BY <3>1, <3>6, TelegramEnds
  <2>4. QED
      BY <1>1, <2>1, <2>2, <2>3 DEF InSession
<1>5. QED
    BY <1>3, <1>4

\* Together; a timeout without a fault ends the session.
LEMMA LeaveStep == TextInv /\ FromFront /\ LeaveInv /\ [Next]_vars => LeaveInv'
<1> SUFFICES ASSUME TextInv, FromFront, LeaveInv, [Next]_vars,
                    task' = "iec", faults' = MaxFaults
             PROVE  InSession'
    BY DEF LeaveInv
<1>1. task = "iec"
    BY DEF Next, Handle, Session, Read, ReadUart, Trace, ParseLine, LinesDone, Wake,
           ReadIdent, TimesOut, PauseEnds, WebClears, MeterIdentifies, MeterSends, Damage,
           vars
<1>2. faults \in 0 .. MaxFaults /\ MaxFaults \in Nat
    BY SizesAndOctets DEF TextInv, TypeOK
<1>3. ~ Damage
    BY <1>2 DEF Damage
<1>4. ASSUME ~ TimesOut PROVE InSession
  <2>1. faults = faults'
      BY <1>3, <1>4
         DEF Next, Handle, Session, Read, ReadUart, Trace, ParseLine, LinesDone, Wake,
             ReadIdent, PauseEnds, WebClears, MeterIdentifies, MeterSends, vars, wire
  <2>2. QED
      BY <1>1, <2>1 DEF LeaveInv
<1>5. CASE TimesOut \/ PauseEnds
    BY <1>5 DEF TimesOut, PauseEnds, InSession
<1>6. CASE Wake
    BY <1>6 DEF Wake, InSession
<1>7. CASE ~ TimesOut /\ UNCHANGED <<text, meter, line>>
    BY <1>4, <1>7 DEF text, InSession, Unread, Part
<1>8. CASE ~ TimesOut /\ (Trace \/ WebClears \/ UNCHANGED vars)
    BY <1>7, <1>8 DEF Trace, WebClears, vars, wire
<1>9. CASE ~ TimesOut /\ (Read \/ ReadIdent \/ ParseLine \/ LinesDone)
    BY <1>1, <1>4, <1>9, LeaveRead, LeaveReadIdent, LeaveParseLine, LeaveLinesDone
<1>10. CASE ~ TimesOut /\ (MeterIdentifies \/ MeterSends)
    BY <1>1, <1>4, <1>10, LeaveMeter
<1>11. QED
    BY <1>3, <1>5, <1>6, <1>8, <1>9, <1>10 DEF Next, Handle, Session

\* Without text nothing is owed.
LEMMA NothingOwed == ValuesIn[<<>>] = <<>>
<1>1. <<>> \in Seq(Octet) /\ LineEnds(<<>>) = {}
    BY EmptySeq DEF LineEnds
<1>2. QED
    BY <1>1, NoLineNoValue

\* The line of the '!' gives no value.
LEMMA MarkIsNoValue ==
    ASSUME NEW s \in Seq(Octet), Len(s) <= 2, Len(s) >= 2, s[1] = Mark, s[2] = Newline
    PROVE  ValuesIn[s] = <<>>
<1>1. PICK n \in Nat : n = Len(s) /\ n = 2
    BY LenProperties
<1>2. DOMAIN s = 1 .. n
    BY <1>1, LenProperties
<1>3. FirstEnd(s, n)
  <2>1. \A x \in 1 .. n : x = 1 \/ x = n
      BY <1>1
  <2>2. \A x \in 1 .. n : s[x] # Zero
      BY <1>1, <2>1, MarkAndZero
  <2>3. n \in LineEnds(s)
      BY <1>1, <1>2, <2>2 DEF LineEnds
  <2>4. 1 \notin LineEnds(s)
      BY MarkAndZero DEF LineEnds
  <2>5. LineEnds(s) \subseteq 1 .. n
      BY <1>2 DEF LineEnds
  <2>6. \A x \in LineEnds(s) : x = n
      BY <2>1, <2>4, <2>5
  <2>7. QED
      BY <1>1, <2>3, <2>6 DEF FirstEnd
<1>4. PICK u \in Seq(Octet) : u = SubSeq(s, n + 1, Len(s)) /\ u = <<>>
  <2>1. n \in 0 .. Len(s)
      BY <1>1
  <2>2. SubSeq(s, n + 1, Len(s)) \in Seq(Octet) /\ Len(SubSeq(s, n + 1, Len(s))) = Len(s) - n
      BY <2>1, Behind
  <2>3. Len(s) - n = 0
      BY <1>1
  <2>4. SubSeq(s, n + 1, Len(s)) = <<>>
      BY <2>2, <2>3, EmptySeq
  <2>5. QED
      BY <2>2, <2>4
<1>5. CutAtEnd(s, n, u)
    BY <1>3, <1>4 DEF CutAtEnd
<1>6. ValuesIn[s] = ValueOf(SubSeq(s, 1, n - 1)) \o ValuesIn[u]
    BY <1>5, ValuesFromFirst
<1>7. ValueOf(SubSeq(s, 1, n - 1)) = <<>>
  <2>1. PICK m \in Nat : m = n - 1 /\ m \in 0 .. Len(s) /\ 1 \in 1 .. m
      BY <1>1
  <2>2. SubSeq(s, 1, m)[1] = Mark
      BY <2>1, InFront
  <2>3. ~ IsCode(Mark)
      BY MarkAndZero DEF IsCode
  <2>4. ReadAs(SubSeq(s, 1, m)) = {}
      BY <2>2, <2>3 DEF ReadAs
  <2>5. QED
      BY <2>1, <2>4 DEF ValueOf
<1>8. <<>> \in Seq(Data) /\ <<>> \o <<>> = <<>>
    BY EmptySeq, ConcatEmptySeq
<1>9. QED
    BY <1>4, <1>6, <1>7, <1>8, NothingOwed

\* Where the '!' is found, in the rest of the text or in what an earlier line
\* left behind it, everything has been parsed.
LEMMA EndSeenRightly ==
    ASSUME TextInv, InSession, LinesDone, EndSeen, ~ GivesUp
    PROVE  Owed = <<>>
<1>1. /\ mem \in [0 .. BufSize - 1 -> Octet] /\ BufSize \in Nat
      /\ len \in Nat /\ at \in Nat /\ len <= BufSize - 1 /\ at <= len
    BY SizesAndOctets DEF TextInv, TypeOK
<1>2. /\ phase = "split" /\ mem' = Moved /\ Finds(mem, at, Newline) = {}
      /\ mem[len] = Zero
    BY DEF LinesDone, KeepRest, TextInv, Ended
<1>3. PICK n \in Nat : n = len - at
    BY <1>1
<1>4. /\ Unread \in Seq(Octet) /\ Len(Unread) = n + Len(line) /\ Len(line) \in Nat
      /\ \A k \in 1 .. n : Unread[k] = mem[at + k - 1]
    BY <1>3, UnreadTyped DEF UnreadForm
<1>5. Ending(Unread) /\ \A j \in 0 .. at - 1 : mem[j] = Mark => Unread = <<>>
    BY <1>2 DEF InSession
<1>6. PICK j \in 0 .. BufSize - 1 : mem'[j] = Mark /\ \A k \in 0 .. j : mem'[k] # Zero
  <2>1. DOMAIN mem' = 0 .. BufSize - 1
      BY <1>1, <1>2 DEF Moved
  <2>2. QED
      BY <2>1 DEF EndSeen, Finds
<1>7. \A x \in 0 .. BufSize - 1 : mem'[x] = IF x < n THEN mem[x + at] ELSE mem[x]
    BY <1>1, <1>2, <1>3 DEF Moved
<1>8. Unread = <<>> \/ \E k \in 1 .. n : Unread[k] = Mark
  <2>1. CASE j < n
    <3>1. j + 1 \in 1 .. n /\ at + (j + 1) - 1 = j + at
        BY <1>1, <1>3, <2>1
    <3>2. Unread[j + 1] = mem[j + at]
        BY <1>4, <3>1
    <3>3. QED
        BY <1>6, <1>7, <2>1, <3>1, <3>2
  <2>2. CASE n <= j /\ j < at
    <3>1. j \in 0 .. at - 1 /\ ~ (j < n)
        BY <1>1, <1>3, <2>2
    <3>2. QED
        BY <1>5, <1>6, <1>7, <3>1
  <2>3. CASE n <= j /\ at <= j
    <3>1. j < len
      <4>1. SUFFICES ASSUME len <= j PROVE FALSE
          BY <1>1
      <4>2. len \in 0 .. j /\ len \in 0 .. BufSize - 1 /\ ~ (len < n)
          BY <1>1, <1>3, <4>1
      <4>3. mem'[len] = mem[len]
          BY <1>7, <4>2
      <4>4. QED
          BY <1>2, <1>6, <4>2, <4>3
    <3>2. PICK k \in Nat : k = (j - at) + 1
        BY <1>1, <2>3
    <3>3. k \in 1 .. n /\ at + k - 1 = j /\ ~ (j < n)
        BY <1>1, <1>3, <2>3, <3>1, <3>2
    <3>4. Unread[k] = mem[j]
        BY <1>4, <3>3
    <3>5. QED
        BY <1>6, <1>7, <3>3, <3>4
  <2>4. QED
      BY <1>1, <1>3, <2>1, <2>2, <2>3
<1>9. ASSUME NEW i \in 1 .. n PROVE Unread[i] # Newline
  <2>1. SUFFICES ASSUME Unread[i] = Newline PROVE FALSE
      OBVIOUS
  <2>2. at + i - 1 \in 0 .. BufSize - 1 /\ at + i - 1 >= at
      BY <1>1, <1>3
  <2>3. mem[at + i - 1] = Newline
      BY <1>4, <2>1
  <2>4. ASSUME NEW x \in at .. at + i - 1 PROVE mem[x] # Zero
    <3>1. PICK k \in Nat : k = (x - at) + 1
        BY <1>1
    <3>2. k \in 1 .. n /\ k \in 1 .. Len(Unread) /\ at + k - 1 = x
        BY <1>1, <1>3, <1>4, <3>1
    <3>3. QED
        BY <1>4, <1>5, <3>2 DEF Ending
  <2>5. at + i - 1 \in Finds(mem, at, Newline)
      BY <1>1, <2>2, <2>3, <2>4 DEF Finds
  <2>6. QED
      BY <1>2, <2>5
<1>10. CASE Unread = <<>>
    BY <1>10, OwedIs, NothingOwed
<1>11. CASE \E k \in 1 .. n : Unread[k] = Mark
  <2>1. PICK k \in 1 .. n : Unread[k] = Mark
      BY <1>11
  <2>2. k \in 1 .. Len(Unread)
      BY <1>4
  <2>3. k + 1 = Len(Unread) /\ Unread[k + 1] = Newline /\ (k = 1 \/ Unread[k - 1] = Newline)
      BY <1>5, <2>1, <2>2 DEF Ending
  <2>4. k = 1
    <3>1. SUFFICES ASSUME k # 1 PROVE FALSE
        OBVIOUS
    <3>2. k - 1 \in 1 .. n
        BY <3>1
    <3>3. QED
        BY <1>9, <2>3, <3>1, <3>2
  <2>5. Len(Unread) <= 2 /\ Len(Unread) >= 2 /\ Unread[1] = Mark /\ Unread[2] = Newline
    <3>1. PICK a \in Nat : a = k + 1 /\ a = 2
        BY <2>4
    <3>2. PICK l \in Nat : l = Len(Unread)
        BY <1>3, <1>4
    <3>3. l <= 2 /\ l >= 2
        BY <2>3, <3>1, <3>2
    <3>4. Unread[a] = Newline
        BY <2>3, <3>1
    <3>5. Unread[1] = Mark /\ Unread[2] = Newline
        BY <2>1, <2>4, <3>1, <3>4, Zenon
    <3>6. QED
        BY <3>2, <3>3, <3>5
  <2>6. QED
      BY <1>4, <2>5, MarkIsNoValue, OwedIs
<1>12. QED
    BY <1>8, <1>10, <1>11

\* iec62056_21_task leaves a session on the '!' only with all values of the
\* telegram read, if nothing has happened to the line: what earlier lines and
\* sessions have left in the buffer is never taken for that '!', nor is one that
\* has come with lines before it that are still to be parsed.
THEOREM LeavesAtEndHolds == Spec => LeavesAtEnd
<1>1. Init => TextInv /\ FromFront /\ LeaveInv
    BY TextInitTyped, FromFrontInit, LeaveInit
<1>2. TextInv /\ FromFront /\ LeaveInv /\ [Next]_vars => (TextInv /\ FromFront /\ LeaveInv)'
    BY TextStepTyped, FromFrontStep, LeaveStep
<1>3. ASSUME TextInv, LeaveInv
      PROVE  LinesDone /\ phase' = "pause" /\ faults = MaxFaults => Owed = <<>>
  <2>1. SUFFICES ASSUME LinesDone, phase' = "pause", faults = MaxFaults
                 PROVE  Owed = <<>>
      OBVIOUS
  <2>2. task = "iec" /\ EndSeen
      BY <2>1 DEF LinesDone
  <2>3. ~ GivesUp /\ InSession
      BY <1>3, <2>1, <2>2 DEF GivesUp, LeaveInv
  <2>4. QED
      BY <1>3, <2>1, <2>2, <2>3, EndSeenRightly
<1>4. QED
    BY <1>1, <1>2, <1>3, PTL DEF Spec, LeavesAtEnd
=============================================================================
