------------------------- MODULE HdlcFraming_proofs -------------------------
(* Theorems about HdlcFraming, for a buffer and a line of any length and    *)
(* any number of frames and faults.                                         *)
EXTENDS HdlcFraming, SequenceTheorems, FiniteSetTheorems,
        WellFoundedInduction, TLAPS

-----------------------------------------------------------------------------
(* Sequences, octet by octet                                               *)

LEMMA DropProperties ==
    ASSUME NEW S, NEW s \in Seq(S), NEW n \in 0 .. Len(s)
    PROVE  /\ Drop(s, n) \in Seq(S) /\ Len(Drop(s, n)) = Len(s) - n
           /\ \A i \in 1 .. Len(s) - n : Drop(s, n)[i] = s[n + i]
<1>1. Len(s) \in Nat /\ n \in Nat /\ n <= Len(s)
    BY LenProperties
<1>2. \A i \in n + 1 .. Len(s) : s[i] \in S
    BY <1>1, ElementOfSeq
<1>3. QED
    BY <1>1, <1>2, SubSeqProperties DEF Drop

LEMMA FirstOctets ==
    ASSUME NEW S, NEW s \in Seq(S), NEW n \in 0 .. Len(s)
    PROVE  /\ SubSeq(s, 1, n) \in Seq(S) /\ Len(SubSeq(s, 1, n)) = n
           /\ \A i \in 1 .. n : SubSeq(s, 1, n)[i] = s[i]
<1>1. Len(s) \in Nat /\ n \in Nat /\ n <= Len(s)
    BY LenProperties
<1>2. \A i \in 1 .. n : s[i] \in S
    BY <1>1, ElementOfSeq
<1>3. QED
    BY <1>1, <1>2, SubSeqProperties

LEMMA DropFits ==
    ASSUME NEW S, NEW s \in Seq(S), NEW n \in 0 .. Len(s), NEW size \in Nat,
           Len(s) <= size
    PROVE  Drop(s, n) \in Seq(S) /\ Len(Drop(s, n)) <= size
<1>1. Drop(s, n) \in Seq(S) /\ Len(Drop(s, n)) = Len(s) - n
    BY DropProperties
<1>2. Len(s) \in Nat /\ Len(s) - n <= size
    BY LenProperties
<1>3. QED
    BY <1>1, <1>2

\* Reading n octets moves them from the line to the buffer and changes
\* nothing about the two together.
LEMMA ReadMoves ==
    ASSUME NEW S, NEW b \in Seq(S), NEW l \in Seq(S), NEW n \in 1 .. Len(l)
    PROVE  (b \o SubSeq(l, 1, n)) \o Drop(l, n) = b \o l
<1>1. Len(l) \in Nat /\ n \in 0 .. Len(l) /\ n \in Nat
    BY LenProperties
<1>2. SubSeq(l, 1, n) \in Seq(S) /\ Drop(l, n) \in Seq(S)
    BY <1>1, FirstOctets, DropProperties
<1>3. SubSeq(l, 1, n) \o Drop(l, n) = l
  <2>1. /\ 1 \in 1 .. Len(l) + 1 /\ n \in 1 - 1 .. Len(l)
        /\ Len(l) \in n .. Len(l)
      BY <1>1
  <2>2. SubSeq(l, 1, n) \o Drop(l, n) = SubSeq(l, 1, Len(l))
      BY <2>1, ConcatAdjacentSubSeq DEF Drop
  <2>3. QED
      BY <2>2, SubSeqFull
<1>4. \A u, v \in Seq(S) : u \o v = l => (b \o u) \o v = b \o l
  <2>1. \A u, v \in Seq(S) : (b \o u) \o v = b \o (u \o v)
      BY ConcatAssociative
  <2>2. SUFFICES ASSUME NEW u \in Seq(S), NEW v \in Seq(S), u \o v = l
                 PROVE  (b \o u) \o v = b \o l
      OBVIOUS
  <2>3. (b \o u) \o v = b \o (u \o v)
      BY <2>1
  <2>4. QED
      BY <2>2, <2>3, Zenon
<1>5. QED
    BY <1>2, <1>3, <1>4, Zenon

-----------------------------------------------------------------------------
(* Frames in a sequence of octets                                          *)

\* The four parts of frame k stand in a row from octet i on.
ImageAt(k, s, i) ==
    /\ i + 3 <= Len(s)
    /\ s[i] = Flag /\ s[i + 1] = <<k, 1>> /\ s[i + 2] = <<k, 2>>
    /\ s[i + 3] = Flag

LEMMA SubSeqIsImage ==
    ASSUME NEW S, NEW s \in Seq(S), NEW k, NEW m \in 1 .. Len(s),
           NEW n \in 1 .. Len(s)
    PROVE  SubSeq(s, m, n) = Image(k) <=> n = m + 3 /\ ImageAt(k, s, m)
<1>1. Len(s) \in Nat /\ m \in Nat /\ n \in Nat /\ n <= Len(s) /\ 1 <= m
    BY LenProperties
<1>2. \A i \in m .. n : s[i] \in S
    BY <1>1, ElementOfSeq
<1>3. /\ SubSeq(s, m, n) \in Seq(S)
      /\ Len(SubSeq(s, m, n)) = IF m <= n THEN n - m + 1 ELSE 0
      /\ \A i \in 1 .. n - m + 1 : SubSeq(s, m, n)[i] = s[m + i - 1]
    BY <1>1, <1>2, SubSeqProperties
<1>4. /\ Len(Image(k)) = 4
      /\ Image(k)[1] = Flag /\ Image(k)[2] = <<k, 1>>
      /\ Image(k)[3] = <<k, 2>> /\ Image(k)[4] = Flag
    BY DEF Image
<1>5. n = m + 3 =>
         /\ SubSeq(s, m, n)[1] = s[m] /\ SubSeq(s, m, n)[2] = s[m + 1]
         /\ SubSeq(s, m, n)[3] = s[m + 2] /\ SubSeq(s, m, n)[4] = s[m + 3]
  <2>1. /\ m + 1 - 1 = m /\ m + 2 - 1 = m + 1 /\ m + 3 - 1 = m + 2
        /\ m + 4 - 1 = m + 3
      BY <1>1
  <2>2. n = m + 3 => \A i \in {1, 2, 3, 4} : i \in 1 .. n - m + 1
      BY <1>1
  <2>3. n = m + 3 =>
           /\ SubSeq(s, m, n)[1] = s[m + 1 - 1]
           /\ SubSeq(s, m, n)[2] = s[m + 2 - 1]
           /\ SubSeq(s, m, n)[3] = s[m + 3 - 1]
           /\ SubSeq(s, m, n)[4] = s[m + 4 - 1]
      BY <1>3, <2>2
  <2>4. QED
      BY <2>1, <2>3
<1>6. ASSUME SubSeq(s, m, n) = Image(k)
      PROVE  n = m + 3 /\ ImageAt(k, s, m)
  <2>1. n = m + 3
    <3>1. Len(SubSeq(s, m, n)) = 4
        BY <1>4, <1>6
    <3>2. \A len \in Nat :
             len = (IF m <= n THEN n - m + 1 ELSE 0) /\ len = 4 => n = m + 3
        BY <1>1
    <3>3. QED
        BY <1>3, <3>1, <3>2
  <2>2. /\ Image(k)[1] = s[m] /\ Image(k)[2] = s[m + 1]
        /\ Image(k)[3] = s[m + 2] /\ Image(k)[4] = s[m + 3]
      BY <1>6, <1>5, <2>1
  <2>3. QED
      BY <1>1, <1>4, <2>1, <2>2 DEF ImageAt
<1>7. ASSUME n = m + 3, ImageAt(k, s, m)
      PROVE  SubSeq(s, m, n) = Image(k)
  <2> DEFINE T == S \cup {Flag, <<k, 1>>, <<k, 2>>}
  <2>1. SubSeq(s, m, n) \in Seq(T) /\ Image(k) \in Seq(T)
    <3>1. SubSeq(s, m, n) \in Seq(T)
        BY <1>3, SeqMonotonic
    <3>2. Image(k) \in Seq(T)
        BY DEF Image
    <3>3. QED
        BY <3>1, <3>2
  <2> HIDE DEF T
  <2>2. Len(SubSeq(s, m, n)) = 4
      BY <1>1, <1>3, <1>7
  <2>3. \A i \in 1 .. 4 : SubSeq(s, m, n)[i] = Image(k)[i]
    <3>1. /\ SubSeq(s, m, n)[1] = Image(k)[1]
          /\ SubSeq(s, m, n)[2] = Image(k)[2]
          /\ SubSeq(s, m, n)[3] = Image(k)[3]
          /\ SubSeq(s, m, n)[4] = Image(k)[4]
        BY <1>4, <1>7, <1>5 DEF ImageAt
    <3>2. \A i \in 1 .. 4 : i = 1 \/ i = 2 \/ i = 3 \/ i = 4
        OBVIOUS
    <3>3. QED
        BY <3>1, <3>2
  <2>4. QED
      BY <1>4, <2>1, <2>2, <2>3, SeqEqual
<1>8. QED
    BY <1>6, <1>7

LEMMA WholeAt ==
    ASSUME NEW S, NEW s \in Seq(S), NEW k
    PROVE  Whole(k, s) <=> \E i \in 1 .. Len(s) : ImageAt(k, s, i)
<1>1. Len(s) \in Nat
    BY LenProperties
<1>2. \A i \in 1 .. Len(s) : i + 3 <= Len(s) => i + 3 \in 1 .. Len(s)
    BY <1>1
<1>3. \A i \in 1 .. Len(s) :
         i + 3 <= Len(s) =>
            (SubSeq(s, i, i + 3) = Image(k) <=> ImageAt(k, s, i))
    BY <1>2, SubSeqIsImage
<1>4. QED
    BY <1>3 DEF Whole, ImageAt

-----------------------------------------------------------------------------
(* dlms_hdlc_find_frame                                                    *)

Start(b) == FindFrame(b)[1]

\* A set of numbers that is not empty has a least element.
LEMMA LeastIn ==
    ASSUME NEW M \in SUBSET Nat, M # {}
    PROVE  \E x \in M : \A y \in M : x <= y
<1> DEFINE R == OpToRel(<, Nat)
<1>1. PICK x \in M : \A y \in M : ~ (<<y, x>> \in R)
    <2> HIDE DEF R
    <2>1. IsWellFoundedOn(R, Nat)
        BY NatLessThanWellFounded DEF R
    <2>2. QED
        BY <2>1, WFMin
<1>2. \A y \in M : ~ (y < x)
    BY <1>1 DEF OpToRel
<1>3. QED
    BY <1>2

\* What is found is a pair of flags in a row with something between them,
\* and no such pair begins before it.
LEMMA FrameFound ==
    ASSUME NEW S, NEW b \in Seq(S), Found(b)
    PROVE  /\ Start(b) \in 1 .. Len(b) /\ End(b) \in 1 .. Len(b)
           /\ Start(b) + 1 < End(b) /\ b[Start(b)] = Flag /\ b[End(b)] = Flag
           /\ \A i \in Start(b) + 1 .. End(b) - 1 : b[i] # Flag
           /\ \A q \in Candidates(b) : Start(b) <= q[1]
<1> DEFINE M == {q[1] : q \in Candidates(b)}
<1>1. Len(b) \in Nat
    BY LenProperties
<1>2. M \in SUBSET Nat /\ M # {}
    BY <1>1 DEF Found, Candidates
<1>3. PICK x \in M : \A y \in M : x <= y
    BY <1>2, LeastIn
<1>4. PICK p \in Candidates(b) : p[1] = x
    BY <1>3
<1>5. \A q \in Candidates(b) : p[1] <= q[1]
    BY <1>3, <1>4
<1>6. /\ FindFrame(b) \in Candidates(b)
      /\ \A q \in Candidates(b) : FindFrame(b)[1] <= q[1]
    BY <1>4, <1>5 DEF FindFrame
<1>7. QED
    BY <1>6 DEF Start, End, Candidates

LEMMA ImageIsFound ==
    ASSUME NEW S, NEW b \in Seq(S), NEW k \in 0 .. MaxFrames,
           NEW i \in 1 .. Len(b), ImageAt(k, b, i)
    PROVE  <<i, i + 3>> \in Candidates(b) /\ Found(b)
<1>1. Len(b) \in Nat /\ i \in Nat /\ 1 <= i
    BY LenProperties
<1>2. <<k, 1>> # Flag /\ <<k, 2>> # Flag
    BY FramingAssumption
<1>3. \A j \in i + 1 .. i + 3 - 1 : j = i + 1 \/ j = i + 2
    BY <1>1
<1>4. \A j \in i + 1 .. i + 3 - 1 : b[j] # Flag
    BY <1>2, <1>3 DEF ImageAt
<1>5. i + 3 \in 1 .. Len(b) /\ i + 1 < i + 3
    BY <1>1 DEF ImageAt
<1>6. QED
    BY <1>4, <1>5 DEF ImageAt, Candidates, Found

\* The frame found is the one sent as k, or none, or it is no frame at all.
LEMMA ParsedAt ==
    ASSUME NEW S, NEW b \in Seq(S), Found(b), NEW k \in 1 .. MaxFrames
    PROVE  k \in Parsed(b) <=> End(b) = Start(b) + 3 /\ ImageAt(k, b, Start(b))
<1>1. Start(b) \in 1 .. Len(b) /\ End(b) \in 1 .. Len(b)
    BY FrameFound
<1>2. SubSeq(b, Start(b), End(b)) = Image(k)
        <=> End(b) = Start(b) + 3 /\ ImageAt(k, b, Start(b))
    BY <1>1, SubSeqIsImage
<1>3. QED
    BY <1>2 DEF Parsed, Start, End

LEMMA ParsedAtMostOne ==
    ASSUME NEW S, NEW b \in Seq(S), Found(b)
    PROVE  Parsed(b) = {} \/ \E k \in 1 .. MaxFrames : Parsed(b) = {k}
<1>1. SUFFICES ASSUME NEW k \in Parsed(b), NEW l \in Parsed(b)
               PROVE  k = l
    BY DEF Parsed
<1>2. k \in 1 .. MaxFrames /\ l \in 1 .. MaxFrames
    BY DEF Parsed
<1>3. ImageAt(k, b, Start(b)) /\ ImageAt(l, b, Start(b))
    BY <1>2, ParsedAt
<1>4. <<k, 1>> = <<l, 1>>
    BY <1>3 DEF ImageAt
<1>5. QED
    BY <1>4

LEMMA HandedNone ==
    ASSUME NEW S, delivered \in Seq(S)
    PROVE  Handed({}) = delivered
<1>1. Cardinality({}) = 0
    BY FS_EmptySet
<1>2. \A f \in [1 .. 0 -> {}] : f = <<>>
    OBVIOUS
<1>3. <<>> \in [1 .. 0 -> {}] /\ IsInjective(<<>>)
    BY DEF IsInjective
<1>4. SetToSeq({}) = <<>>
    BY <1>1, <1>2, <1>3 DEF SetToSeq
<1>5. QED
    BY <1>4, ConcatEmptySeq DEF Handed

LEMMA HandedOne ==
    ASSUME NEW S, delivered \in Seq(S), NEW k \in S
    PROVE  Handed({k}) = Append(delivered, k)
<1>1. Cardinality({k}) = 1
    BY FS_Singleton
<1> DEFINE one == [i \in 1 .. 1 |-> k]
<1>2. \A f \in [1 .. 1 -> {k}] : f = one
    OBVIOUS
<1>3. one \in [1 .. 1 -> {k}] /\ IsInjective(one)
    BY DEF IsInjective
<1>4. SetToSeq({k}) = one
    BY <1>1, <1>2, <1>3 DEF SetToSeq
<1>5. one = <<k>>
    OBVIOUS
<1>6. QED
    BY <1>4, <1>5, AppendIsConcat DEF Handed

-----------------------------------------------------------------------------
(* What a step works on                                                    *)

\* The buffer once n more octets have been read from the line.
Filled(n) == buf \o SubSeq(line, 1, n)

LEMMA FilledTyped ==
    ASSUME TypeOK, NEW n \in 0 .. Len(line)
    PROVE  /\ Filled(n) \in Seq(Octet) /\ Len(Filled(n)) = Len(buf) + n
           /\ Drop(line, n) \in Seq(Octet)
<1>1. buf \in Seq(Octet) /\ line \in Seq(Octet)
    BY DEF TypeOK
<1>2. /\ SubSeq(line, 1, n) \in Seq(Octet)
      /\ Len(SubSeq(line, 1, n)) = n
    BY <1>1, FirstOctets
<1>3. QED
    BY <1>1, <1>2, ConcatProperties, DropProperties DEF Filled

LEMMA FitTyped ==
    ASSUME TypeOK, NEW n \in 1 .. Len(line)
    PROVE  /\ Fit(n) \in 0 .. Len(line) /\ Fit(n) <= n
           /\ Len(buf) + Fit(n) <= BufSize
<1>1. Len(buf) \in Nat /\ Len(line) \in Nat /\ Len(buf) <= BufSize
    BY LenProperties DEF TypeOK
<1>2. QED
    BY <1>1, FramingAssumption DEF Fit

FirstTelegram(b) ==
    CHOOSE i \in Telegrams(b) : \A j \in Telegrams(b) : i <= j

LEMMA TelegramFound ==
    ASSUME NEW S, NEW b \in Seq(S), Telegrams(b) # {}
    PROVE  /\ FirstTelegram(b) \in 2 .. Len(b)
           /\ b[FirstTelegram(b)] = <<0, 2>>
<1>1. Len(b) \in Nat
    BY LenProperties
<1>2. Telegrams(b) \in SUBSET Nat
    BY <1>1 DEF Telegrams
<1>3. FirstTelegram(b) \in Telegrams(b)
    BY <1>2, LeastIn DEF FirstTelegram
<1>4. QED
    BY <1>3 DEF Telegrams

\* What is handed on when a frame has been found: the one frame that was
\* sent in just these octets, or nothing.
LEMMA HandedOn ==
    ASSUME TypeOK, NEW b \in Seq(Octet), Found(b)
    PROVE  \/ Parsed(b) = {} /\ Handed(Parsed(b)) = delivered
           \/ \E k \in 1 .. MaxFrames :
                 /\ Parsed(b) = {k} /\ Handed(Parsed(b)) = Append(delivered, k)
                 /\ End(b) = Start(b) + 3 /\ ImageAt(k, b, Start(b))
<1>1. delivered \in Seq(1 .. MaxFrames)
    BY DEF TypeOK
<1>2. CASE Parsed(b) = {}
    BY <1>1, <1>2, HandedNone
<1>3. ASSUME NEW k \in 1 .. MaxFrames, Parsed(b) = {k}
      PROVE  /\ Handed(Parsed(b)) = Append(delivered, k)
             /\ End(b) = Start(b) + 3 /\ ImageAt(k, b, Start(b))
  <2>1. Handed({k}) = Append(delivered, k)
      BY <1>1, HandedOne
  <2>2. k \in Parsed(b)
      BY <1>3
  <2>3. End(b) = Start(b) + 3 /\ ImageAt(k, b, Start(b))
      BY <2>2, ParsedAt
  <2>4. QED
      BY <1>3, <2>1, <2>3
<1>4. QED
    BY <1>2, <1>3, ParsedAtMostOne

LEMMA HandedTyped ==
    ASSUME TypeOK, NEW b \in Seq(Octet), Found(b)
    PROVE  Handed(Parsed(b)) \in Seq(1 .. MaxFrames)
<1>1. delivered \in Seq(1 .. MaxFrames)
    BY DEF TypeOK
<1>2. \A k \in 1 .. MaxFrames : Append(delivered, k) \in Seq(1 .. MaxFrames)
    BY <1>1, AppendProperties
<1>3. QED
    BY <1>1, <1>2, HandedOn

\* What comes onto the line, and what its octets are.
LEMMA PiecesTyped ==
    ASSUME NEW k \in 0 .. MaxFrames
    PROVE  /\ Image(k) \in Seq(Octet) /\ Tail(Image(k)) \in Seq(Octet)
           /\ <<Flag, <<k, 1>>, Flag, <<k, 2>>, Flag>> \in Seq(Octet)
           /\ Tail(Image(k)) = <<<<k, 1>>, <<k, 2>>, Flag>>
<1>1. Flag \in Octet /\ <<k, 1>> \in Octet /\ <<k, 2>> \in Octet
    BY DEF Octet
<1>2. Image(k) \in Seq(Octet) /\ Image(k) # <<>>
    BY <1>1 DEF Image
<1>3. Tail(Image(k)) = <<<<k, 1>>, <<k, 2>>, Flag>>
    BY DEF Image
<1>4. QED
    BY <1>1, <1>2, <1>3, HeadTailProperties

LEMMA OtherTyped ==
    /\ <<Noise>> \in Seq(Octet) /\ <<Slash, Noise>> \in Seq(Octet)
    /\ <<<<0, 1>>, <<0, 2>>>> \in Seq(Octet)
<1>1. /\ Noise \in Octet /\ Slash \in Octet
      /\ <<0, 1>> \in Octet /\ <<0, 2>> \in Octet
    BY FramingAssumption DEF Octet
<1>2. QED
    BY <1>1

-----------------------------------------------------------------------------
(* Types                                                                   *)

LEMMA FramingInitTyped == Init => TypeOK
<1>1. 0 \in 0 .. MaxFrames /\ MaxFaults \in 0 .. MaxFaults /\ 0 <= BufSize
    BY FramingAssumption
<1>2. QED
    BY <1>1, EmptySeq DEF Init, TypeOK

LEMMA ListenTyped ==
    ASSUME TypeOK, NEW n \in 1 .. Len(line), Listen(n)
    PROVE  TypeOK'
<1> DEFINE b == Filled(n)
<1>1. /\ b \in Seq(Octet) /\ Len(b) <= BufSize /\ Len(b) \in Nat
      /\ line' \in Seq(Octet)
  <2>1. n \in 0 .. Len(line)
      BY LenProperties DEF TypeOK
  <2>2. QED
      BY <2>1, FilledTyped, LenProperties DEF Listen, Filled
<1> HIDE DEF b
<1>2. \A m \in 0 .. Len(b) : Drop(b, m) \in Seq(Octet) /\ Len(Drop(b, m)) <= BufSize
    BY <1>1, DropFits, FramingAssumption
<1>3. delivered' \in Seq(1 .. MaxFrames) /\ buf' \in Seq(Octet) /\ Len(buf') <= BufSize
  <2>1. CASE Found(b) /\ delivered' = Handed(Parsed(b)) /\ buf' = Removed(b)
    <3>1. delivered' \in Seq(1 .. MaxFrames)
        BY <1>1, <2>1, HandedTyped
    <3>2. End(b) \in 1 .. Len(b)
        BY <1>1, <2>1, FrameFound
    <3>3. End(b) - 1 \in 0 .. Len(b)
        BY <1>1, <3>2
    <3>4. QED
        BY <1>2, <2>1, <3>1, <3>3 DEF Removed, TypeOK
  <2>2. CASE Telegrams(b) # {} /\ buf' = Drop(b, FirstTelegram(b) - 1)
             /\ UNCHANGED delivered
    <3>1. FirstTelegram(b) \in 2 .. Len(b)
        BY <1>1, <2>2, TelegramFound
    <3>2. FirstTelegram(b) - 1 \in 0 .. Len(b)
        BY <1>1, <3>1
    <3>3. QED
        BY <1>2, <2>2, <3>2 DEF TypeOK
  <2>3. CASE buf' = Cleared(b) /\ UNCHANGED delivered
    <3>1. 0 <= BufSize
        BY FramingAssumption
    <3>2. QED
        BY <1>1, <2>3, <3>1, EmptySeq DEF Cleared, TypeOK
  <2>4. QED
      BY <2>1, <2>2, <2>3 DEF Listen, b, Filled, FirstTelegram
<1>4. QED
    BY <1>1, <1>3 DEF Listen, TypeOK

LEMMA WaitReadsTyped ==
    ASSUME TypeOK, NEW n \in 1 .. Len(line), WaitReads(n)
    PROVE  TypeOK'
<1> DEFINE b == Filled(Fit(n))
<1>1. /\ b \in Seq(Octet) /\ Len(b) <= BufSize /\ Len(b) \in Nat
      /\ line' \in Seq(Octet)
  <2>1. n \in 0 .. Len(line)
      BY LenProperties DEF TypeOK
  <2>2. /\ b \in Seq(Octet) /\ Len(b) = Len(buf) + Fit(n)
      BY FitTyped, FilledTyped
  <2>3. Len(b) \in Nat
      BY <2>2, LenProperties
  <2>4. Len(b) <= BufSize
      BY <2>2, FitTyped
  <2>5. line' \in Seq(Octet)
      BY <2>1, FilledTyped DEF WaitReads
  <2>6. QED
      BY <2>2, <2>3, <2>4, <2>5
<1> HIDE DEF b
<1>2. delivered' \in Seq(1 .. MaxFrames) /\ buf' \in Seq(Octet) /\ Len(buf') <= BufSize
      /\ waiting' \in BOOLEAN /\ unsearched' \in BOOLEAN
  <2>1. CASE Found(b) /\ Parsed(b) # {} /\ delivered' = Handed(Parsed(b))
             /\ waiting' = FALSE /\ buf' = b /\ UNCHANGED unsearched
    <3>1. delivered' \in Seq(1 .. MaxFrames)
        BY <1>1, <2>1, HandedTyped
    <3>2. QED
        BY <1>1, <2>1, <3>1 DEF TypeOK
  <2>2. CASE Found(b) /\ buf' = Drop(b, End(b)) /\ unsearched' = TRUE
             /\ UNCHANGED <<delivered, waiting>>
    <3>1. End(b) \in 0 .. Len(b)
        BY <1>1, <2>2, FrameFound
    <3>2. Drop(b, End(b)) \in Seq(Octet) /\ Len(Drop(b, End(b))) <= BufSize
        BY <1>1, <3>1, DropFits, FramingAssumption
    <3>3. QED
        BY <2>2, <3>2 DEF TypeOK
  <2>3. CASE buf' = b /\ unsearched' = FALSE /\ UNCHANGED <<delivered, waiting>>
      BY <1>1, <2>3 DEF TypeOK
  <2>4. QED
      BY <2>1, <2>2, <2>3 DEF WaitReads, b, Filled
<1>3. QED
    BY <1>1, <1>2 DEF WaitReads, TypeOK

\* An octet lost in the middle.
LEMMA RemoveAtProperties ==
    ASSUME NEW S, NEW s \in Seq(S), NEW i \in 1 .. Len(s)
    PROVE  /\ RemoveAt(s, i) \in Seq(S) /\ Len(RemoveAt(s, i)) = Len(s) - 1
           /\ \A j \in 1 .. Len(s) - 1 :
                 RemoveAt(s, i)[j] = IF j < i THEN s[j] ELSE s[j + 1]
<1>1. Len(s) \in Nat /\ i \in Nat /\ 1 <= i /\ i <= Len(s)
    BY LenProperties
<1>2. /\ i - 1 \in 0 .. Len(s) /\ i \in 0 .. Len(s)
      /\ i - 1 + (Len(s) - i) = Len(s) - 1
    BY <1>1
<1>3. /\ SubSeq(s, 1, i - 1) \in Seq(S) /\ Len(SubSeq(s, 1, i - 1)) = i - 1
      /\ \A j \in 1 .. i - 1 : SubSeq(s, 1, i - 1)[j] = s[j]
    BY <1>2, FirstOctets
<1>4. /\ Drop(s, i) \in Seq(S) /\ Len(Drop(s, i)) = Len(s) - i
      /\ \A j \in 1 .. Len(s) - i : Drop(s, i)[j] = s[i + j]
    BY <1>2, DropProperties
<1> DEFINE u == SubSeq(s, 1, i - 1)
           v == Drop(s, i)
<1>5. RemoveAt(s, i) = u \o v
    BY DEF RemoveAt, Drop
<1>6. /\ RemoveAt(s, i) \in Seq(S) /\ Len(RemoveAt(s, i)) = Len(s) - 1
      /\ \A j \in 1 .. Len(s) - 1 :
            RemoveAt(s, i)[j] = IF j <= i - 1 THEN u[j] ELSE v[j - (i - 1)]
  <2>1. /\ u \in Seq(S) /\ Len(u) = i - 1 /\ v \in Seq(S)
        /\ Len(v) = Len(s) - i
      BY <1>3, <1>4
  <2> HIDE DEF u, v
  <2>2. /\ u \o v \in Seq(S) /\ Len(u \o v) = Len(u) + Len(v)
        /\ \A j \in 1 .. Len(u) + Len(v) :
              (u \o v)[j] = IF j <= Len(u) THEN u[j] ELSE v[j - Len(u)]
      BY <2>1, ConcatProperties
  <2>3. QED
      BY <1>2, <1>5, <2>1, <2>2
<1>7. ASSUME NEW j \in 1 .. Len(s) - 1
      PROVE  RemoveAt(s, i)[j] = IF j < i THEN s[j] ELSE s[j + 1]
  <2>1. CASE j < i
    <3>1. j \in 1 .. i - 1 /\ j <= i - 1
        BY <1>1, <2>1
    <3>2. QED
        BY <1>3, <1>6, <2>1, <3>1
  <2>2. CASE ~ (j < i)
    <3>1. /\ j - (i - 1) \in 1 .. Len(s) - i /\ ~ (j <= i - 1)
          /\ i + (j - (i - 1)) = j + 1
        BY <1>1, <2>2
    <3>2. RemoveAt(s, i)[j] = Drop(s, i)[j - (i - 1)]
        BY <1>6, <3>1
    <3>3. QED
        BY <1>4, <2>2, <3>1, <3>2
  <2>3. QED
      BY <2>1, <2>2
<1>8. QED
    BY <1>6, <1>7

LEMMA SendTyped ==
    ASSUME TypeOK, SendFrame \/ SendAwkward \/ SendOther
    PROVE  /\ \E o \in Seq(Octet) : line' = line \o o
           /\ sent' \in 0 .. MaxFrames /\ intact' \subseteq 1 .. sent'
           /\ faults' \in 0 .. MaxFaults
<1>1. CASE SendFrame \/ SendAwkward
  <2>1. /\ sent + 1 \in 0 .. MaxFrames /\ sent + 1 \in 1 .. sent + 1
        /\ 1 .. sent \subseteq 1 .. sent + 1
      BY <1>1, FramingAssumption DEF SendFrame, SendAwkward, TypeOK
  <2>2. PICK k \in 0 .. MaxFrames : k = sent + 1 /\ sent' = k
      BY <1>1, <2>1 DEF SendFrame, SendAwkward
  <2>3. intact' \subseteq 1 .. k
      BY <1>1, <2>1, <2>2 DEF SendFrame, SendAwkward, TypeOK
  <2>4. \E o \in Seq(Octet) : line' = line \o o
      BY <1>1, <2>2, PiecesTyped DEF SendFrame, SendAwkward, Put
  <2>5. faults' \in 0 .. MaxFaults
      BY <1>1 DEF SendFrame, SendAwkward, TypeOK
  <2>6. QED
      BY <2>2, <2>3, <2>4, <2>5
<1>2. CASE SendOther
  <2>1. \E o \in Seq(Octet) : line' = line \o o
      BY <1>2, OtherTyped DEF SendOther, Put
  <2>2. faults - 1 \in 0 .. MaxFaults
      BY <1>2, FramingAssumption DEF SendOther, TypeOK
  <2>3. QED
      BY <1>2, <2>1, <2>2 DEF SendOther, TypeOK
<1>3. QED
    BY <1>1, <1>2

LEMMA FramingStepTyped == TypeOK /\ [Next]_vars => TypeOK'
<1> SUFFICES ASSUME TypeOK, [Next]_vars PROVE TypeOK'
    OBVIOUS
<1>1. ASSUME NEW n \in 1 .. Len(line), Listen(n) \/ WaitReads(n)
      PROVE  TypeOK'
    BY <1>1, ListenTyped, WaitReadsTyped
<1> <<>> \in Seq(Octet) /\ Len(<<>>) <= BufSize
    BY EmptySeq, FramingAssumption
<1>2. CASE TextLine
    BY <1>2 DEF TextLine, wire, TypeOK
<1>3. CASE WaitBegins
    BY <1>3 DEF WaitBegins, Emptied, wire, TypeOK
<1>4. CASE WaitTimesOut
    BY <1>4 DEF WaitTimesOut, wire, TypeOK
<1>5. CASE SendFrame \/ SendAwkward \/ SendOther
  <2>1. line' \in Seq(Octet)
      BY <1>5, SendTyped, ConcatProperties DEF TypeOK
  <2>2. UNCHANGED task
      BY <1>5 DEF SendFrame, SendAwkward, SendOther
  <2>3. QED
      BY <1>5, <2>1, <2>2, SendTyped DEF task, TypeOK
<1>6. CASE OctetLost
  <2>1. line' \in Seq(Octet)
      BY <1>6, RemoveAtProperties DEF OctetLost, TypeOK
  <2>2. faults' \in 0 .. MaxFaults
    <3>1. faults - 1 \in 0 .. MaxFaults
        BY <1>6, FramingAssumption DEF OctetLost, TypeOK
    <3>2. QED
        BY <1>6, <3>1 DEF OctetLost
  <2>3. intact' \subseteq 1 .. sent
      BY <1>6 DEF OctetLost, StillWhole, TypeOK
  <2>4. QED
      BY <1>6, <2>1, <2>2, <2>3 DEF OctetLost, task, TypeOK
<1>7. CASE UNCHANGED vars
    BY <1>7 DEF vars, task, wire, TypeOK
<1>8. QED
    BY <1>1, <1>2, <1>3, <1>4, <1>5, <1>6, <1>7 DEF Next, Reads

\* Every variable keeps its type, in both loops: in particular no read is
\* copied past the end of rx_buf or rx_buffer.
THEOREM FramingTypeCorrect == Spec => []TypeOK
<1>1. Init => TypeOK
    BY FramingInitTyped
<1>2. TypeOK /\ [Next]_vars => TypeOK'
    BY FramingStepTyped
<1>3. QED
    BY <1>1, <1>2, PTL DEF Spec

-----------------------------------------------------------------------------
(* What the loops leave in their buffers                                   *)

LEMMA NothingInEmpty == ~ Found(<<>>)
<1>1. Len(<<>>) = 0
    OBVIOUS
<1>2. QED
    BY <1>1 DEF Found, Candidates

\* What is to be found behind a cut was there before it.
LEMMA FoundBehindCut ==
    ASSUME NEW S, NEW b \in Seq(S), NEW n \in 0 .. Len(b), Found(Drop(b, n))
    PROVE  Found(b)
<1> DEFINE d == Drop(b, n)
<1>0. Len(b) \in Nat /\ n \in Nat /\ n <= Len(b)
  <2>1. Len(b) \in Nat
      BY LenProperties, ZenonT(30)
  <2>2. QED
      BY <2>1
<1>1. /\ d \in Seq(S) /\ Len(d) = Len(b) - n
      /\ \A i \in 1 .. Len(b) - n : d[i] = b[n + i]
    BY DropProperties, ZenonT(30)
<1> HIDE DEF d
<1>2. Found(d)
    BY DEF d
<1>3. /\ Start(d) \in 1 .. Len(d) /\ End(d) \in 1 .. Len(d)
      /\ Start(d) + 1 < End(d) /\ d[Start(d)] = Flag /\ d[End(d)] = Flag
      /\ \A i \in Start(d) + 1 .. End(d) - 1 : d[i] # Flag
    BY <1>0, <1>1, <1>2, FrameFound
<1>4. PICK p, q \in 1 .. Len(d) : p = Start(d) /\ q = End(d)
    BY <1>3
<1>5. /\ p + 1 < q /\ d[p] = Flag /\ d[q] = Flag
      /\ \A i \in p + 1 .. q - 1 : d[i] # Flag
    BY <1>3, <1>4
<1>6. /\ n + p \in 1 .. Len(b) /\ n + q \in 1 .. Len(b) /\ n + p + 1 < n + q
      /\ b[n + p] = Flag /\ b[n + q] = Flag
    BY <1>0, <1>1, <1>5
<1>7. \A i \in n + p + 1 .. n + q - 1 : b[i] # Flag
  <2>1. SUFFICES ASSUME NEW i \in n + p + 1 .. n + q - 1 PROVE b[i] # Flag
      OBVIOUS
  <2>2. /\ i - n \in p + 1 .. q - 1 /\ i - n \in 1 .. Len(b) - n
        /\ n + (i - n) = i
      BY <1>0, <1>1, <1>5
  <2>3. QED
      BY <1>0, <1>1, <1>5, <2>2
<1>8. <<n + p, n + q>> \in Candidates(b)
    BY <1>6, <1>7 DEF Candidates
<1>9. QED
    BY <1>8 DEF Found

\* Only wait_for_frame waits.
Modes == waiting => loop = "wait"

\* Unless the last read made it discard a candidate it has overlooked none.
NoneOverlooked == waiting /\ ~ unsearched => ~ Found(buf)

\* If the listener's buffer holds a frame, it begins with a flag, so that it
\* is not taken for a text line.
FlagFirst ==
    loop = "listen" /\ Found(buf) => Len(buf) > 0 /\ buf[1] = Flag

BufferInv == Modes /\ NoneOverlooked /\ FlagFirst /\ RoomLeft

LEMMA BufferInit == Init => BufferInv
BY NothingInEmpty, FramingAssumption
DEF Init, BufferInv, Modes, NoneOverlooked, FlagFirst, RoomLeft

LEMMA BufferKeptByListener ==
    ASSUME TypeOK, BufferInv, NEW n \in 1 .. Len(line), Listen(n)
    PROVE  BufferInv'
<1> DEFINE b == Filled(n)
<1>1. /\ b \in Seq(Octet) /\ Len(b) <= BufSize /\ Len(b) \in Nat
  <2>1. n \in 0 .. Len(line)
      BY LenProperties DEF TypeOK
  <2>2. QED
      BY <2>1, FilledTyped, LenProperties DEF Listen, Filled
<1> HIDE DEF b
<1>2. /\ Len(buf') < BufSize
      /\ Found(buf') => Len(buf') > 0 /\ buf'[1] = Flag
  <2>1. CASE Found(b) /\ buf' = Removed(b)
    <3>1. PICK e \in 1 .. Len(b) : e = End(b) /\ e >= 3 /\ b[e] = Flag
        BY <1>1, <2>1, FrameFound
    <3>2. e - 1 \in 0 .. Len(b) /\ 1 \in 1 .. Len(b) - (e - 1) /\ (e - 1) + 1 = e
        BY <1>1, <3>1
    <3>3. PICK d \in Seq(Octet) : /\ d = Drop(b, e - 1) /\ Len(d) = Len(b) - (e - 1)
                                  /\ d[1] = b[e]
      <4>1. Drop(b, e - 1)[1] = b[(e - 1) + 1]
          BY <1>1, <3>2, DropProperties
      <4>2. QED
          BY <1>1, <3>2, <4>1, DropProperties
    <3>4. Len(d) > 0 /\ Len(d) < BufSize
        BY <1>1, <3>1, <3>3, FramingAssumption
    <3>5. buf' = d
        BY <2>1, <3>1, <3>3 DEF Removed
    <3>6. QED
        BY <3>1, <3>3, <3>4, <3>5
  <2>2. CASE /\ ~ Found(b) /\ Telegrams(b) # {}
             /\ buf' = Drop(b, FirstTelegram(b) - 1)
    <3>1. PICK t \in 2 .. Len(b) : t = FirstTelegram(b)
        BY <1>1, <2>2, TelegramFound
    <3>2. t - 1 \in 0 .. Len(b)
        BY <1>1, <3>1
    <3>3. PICK d \in Seq(Octet) : d = Drop(b, t - 1) /\ Len(d) = Len(b) - (t - 1)
        BY <1>1, <3>2, DropProperties
    <3>4. Len(d) < BufSize
        BY <1>1, <3>1, <3>3, FramingAssumption
    <3>5. ~ Found(Drop(b, t - 1))
        BY <1>1, <2>2, <3>2, FoundBehindCut
    <3>6. QED
        BY <2>2, <3>1, <3>3, <3>4, <3>5
  <2>3. CASE ~ Found(b) /\ buf' = Cleared(b)
    <3>1. CASE Len(b) = BufSize
        BY <2>3, <3>1, NothingInEmpty, FramingAssumption DEF Cleared
    <3>2. CASE Len(b) # BufSize
        BY <1>1, <2>3, <3>2, FramingAssumption DEF Cleared
    <3>3. QED
        BY <3>1, <3>2
  <2>4. QED
      BY <2>1, <2>2, <2>3 DEF Listen, b, Filled, FirstTelegram
<1>3. loop = "listen" /\ loop' = loop /\ waiting' = waiting
    BY DEF Listen
<1>4. QED
    BY <1>2, <1>3
    DEF BufferInv, Modes, NoneOverlooked, FlagFirst, RoomLeft

LEMMA BufferKept == TypeOK /\ BufferInv /\ [Next]_vars => BufferInv'
<1> SUFFICES ASSUME TypeOK, BufferInv, [Next]_vars PROVE BufferInv'
    OBVIOUS
<1>1. ASSUME NEW n \in 1 .. Len(line), Listen(n)
      PROVE  BufferInv'
    BY <1>1, BufferKeptByListener
<1>2. ASSUME NEW n \in 1 .. Len(line), WaitReads(n)
      PROVE  BufferInv'
  <2> DEFINE b == Filled(Fit(n))
  <2> HIDE DEF b
  <2>1. loop = "wait" /\ loop' = loop
      BY <1>2 DEF WaitReads, BufferInv, Modes
  <2>2. \/ waiting' = FALSE
        \/ waiting' = waiting /\ unsearched' = TRUE
        \/ waiting' = waiting /\ unsearched' = FALSE /\ buf' = b /\ ~ Found(b)
      BY <1>2 DEF WaitReads, b, Filled
  <2>3. QED
      BY <2>1, <2>2
      DEF BufferInv, Modes, NoneOverlooked, FlagFirst, RoomLeft
<1>3. CASE TextLine
    BY <1>3, NothingInEmpty, FramingAssumption
    DEF TextLine, BufferInv, Modes, NoneOverlooked, FlagFirst, RoomLeft
<1>4. CASE WaitBegins
    BY <1>4, NothingInEmpty
    DEF WaitBegins, Emptied, BufferInv, Modes, NoneOverlooked, FlagFirst,
        RoomLeft
<1>5. CASE WaitTimesOut
    BY <1>5 DEF WaitTimesOut, BufferInv, Modes, NoneOverlooked, FlagFirst,
                RoomLeft
<1>6. CASE UNCHANGED task
    BY <1>6 DEF task, BufferInv, Modes, NoneOverlooked, FlagFirst, RoomLeft
<1>7. QED
    BY <1>1, <1>2, <1>3, <1>4, <1>5, <1>6
    DEF Next, Reads, SendFrame, SendAwkward, SendOther, OctetLost, vars

\* The listener never holds a full buffer when it asks for more.
THEOREM RoomLeftHolds == Spec => []RoomLeft
<1>1. Init => TypeOK /\ BufferInv
    BY FramingInitTyped, BufferInit
<1>2. TypeOK /\ BufferInv /\ [Next]_vars => (TypeOK /\ BufferInv)'
    BY FramingStepTyped, BufferKept
<1>3. BufferInv => RoomLeft
    BY DEF BufferInv
<1>4. QED
    BY <1>1, <1>2, <1>3, PTL DEF Spec

\* wait_for_frame times out over a whole frame in its buffer only when its last
\* read was spent on discarding a candidate before it.
THEOREM GivesUpRightlyHolds == Spec => GivesUpRightly
<1>1. Init => TypeOK /\ BufferInv
    BY FramingInitTyped, BufferInit
<1>2. TypeOK /\ BufferInv /\ [Next]_vars => (TypeOK /\ BufferInv)'
    BY FramingStepTyped, BufferKept
<1>3. ASSUME TypeOK, BufferInv, WaitTimesOut, ~ unsearched
      PROVE  \A k \in 1 .. sent : ~ Whole(k, buf)
  <2>1. ~ Found(buf)
      BY <1>3 DEF WaitTimesOut, BufferInv, NoneOverlooked
  <2>2. \A k \in 1 .. sent : k \in 0 .. MaxFrames
      BY <1>3, FramingAssumption DEF TypeOK
  <2>3. QED
      BY <1>3, <2>1, <2>2, WholeAt, ImageIsFound DEF TypeOK
<1>4. QED
    BY <1>1, <1>2, <1>3, PTL DEF Spec, GivesUpRightly

-----------------------------------------------------------------------------
(* What the listener loses                                                 *)

\* Two sequences one behind the other, as the provers are to see them: as a
\* whole, and only then as a concatenation.
Joined(b, r) == b \o r

LEMMA FrontOfJoined ==
    ASSUME NEW S, NEW b \in Seq(S), NEW r \in Seq(S)
    PROVE  /\ Joined(b, r) \in Seq(S) /\ Len(Joined(b, r)) = Len(b) + Len(r)
           /\ \A j \in 1 .. Len(b) : Joined(b, r)[j] = b[j]
           /\ \A j \in 1 .. Len(r) : Joined(b, r)[Len(b) + j] = r[j]
<1>1. Len(b) \in Nat /\ Len(r) \in Nat
    BY LenProperties
<1>2. \A j \in 1 .. Len(r) : /\ Len(b) + j \in 1 .. Len(b) + Len(r)
                             /\ ~ (Len(b) + j <= Len(b))
                             /\ Len(b) + j - Len(b) = j
    BY <1>1
<1>3. QED
    BY <1>1, <1>2, ConcatProperties DEF Joined

LEMMA JoinedBehindCut ==
    ASSUME NEW S, NEW b \in Seq(S), NEW r \in Seq(S), NEW n \in 0 .. Len(b)
    PROVE  /\ Joined(Drop(b, n), r) \in Seq(S)
           /\ Len(Joined(Drop(b, n), r)) = Len(Joined(b, r)) - n
           /\ \A j \in 1 .. Len(Joined(b, r)) - n :
                 Joined(Drop(b, n), r)[j] = Joined(b, r)[n + j]
<1>1. PICK d \in Seq(S) : /\ d = Drop(b, n) /\ Len(d) = Len(b) - n
                          /\ \A i \in 1 .. Len(b) - n : d[i] = b[n + i]
    BY DropProperties
<1>2. Len(b) \in Nat /\ Len(r) \in Nat /\ n \in Nat /\ n <= Len(b)
    BY LenProperties
<1>3. /\ Joined(d, r) \in Seq(S)
      /\ Len(Joined(d, r)) = Len(d) + Len(r)
      /\ Len(Joined(b, r)) = Len(b) + Len(r)
    BY FrontOfJoined
<1>4. ASSUME NEW j \in 1 .. Len(b) + Len(r) - n
      PROVE  Joined(d, r)[j] = Joined(b, r)[n + j]
  <2>1. CASE j <= Len(d)
    <3>1. j \in 1 .. Len(d) /\ n + j \in 1 .. Len(b) /\ j \in 1 .. Len(b) - n
        BY <1>1, <1>2, <2>1
    <3>2. Joined(d, r)[j] = d[j] /\ Joined(b, r)[n + j] = b[n + j]
        BY <3>1, FrontOfJoined
    <3>3. QED
        BY <1>1, <3>1, <3>2
  <2>2. CASE ~ (j <= Len(d))
    <3>1. PICK m \in 1 .. Len(r) : j = Len(d) + m /\ n + j = Len(b) + m
      <4>1. j - Len(d) \in 1 .. Len(r) /\ j = Len(d) + (j - Len(d))
            /\ n + j = Len(b) + (j - Len(d))
          BY <1>1, <1>2, <2>2
      <4>2. QED
          BY <4>1
    <3>2. Joined(d, r)[Len(d) + m] = r[m] /\ Joined(b, r)[Len(b) + m] = r[m]
        BY FrontOfJoined
    <3>3. QED
        BY <3>1, <3>2
  <2>3. QED
      BY <2>1, <2>2
<1>5. Len(Joined(d, r)) = Len(Joined(b, r)) - n
    BY <1>1, <1>2, <1>3
<1>6. QED
    BY <1>1, <1>3, <1>4, <1>5

LEMMA ShiftedWhole ==
    ASSUME NEW S, NEW s \in Seq(S), NEW d \in Seq(S), NEW n \in Nat,
           Len(d) = Len(s) - n, \A j \in 1 .. Len(s) - n : d[j] = s[n + j],
           NEW k, NEW i \in 1 .. Len(s), ImageAt(k, s, i), n < i
    PROVE  Whole(k, d)
<1>1. Len(s) \in Nat
    BY LenProperties
<1>2. /\ i - n \in 1 .. Len(d) /\ i - n + 3 <= Len(d)
      /\ \A m \in 0 .. 3 : i - n + m \in 1 .. Len(s) - n /\ n + (i - n + m) = i + m
    BY <1>1 DEF ImageAt
<1>3. \A m \in 0 .. 3 : d[i - n + m] = s[i + m]
    BY <1>2
<1>4. /\ i - n + 0 = i - n /\ i + 0 = i
      /\ d[i - n + 0] = s[i + 0] /\ d[i - n + 1] = s[i + 1]
      /\ d[i - n + 2] = s[i + 2] /\ d[i - n + 3] = s[i + 3]
    BY <1>1, <1>3
<1>5. ImageAt(k, d, i - n)
    BY <1>2, <1>4 DEF ImageAt
<1>6. QED
    BY <1>2, <1>5, WholeAt

\* A whole frame that begins behind a cut is whole afterwards.
LEMMA WholeBehindCut ==
    ASSUME NEW S, NEW b \in Seq(S), NEW r \in Seq(S), NEW n \in 0 .. Len(b),
           NEW k, NEW i \in 1 .. Len(Joined(b, r)),
           ImageAt(k, Joined(b, r), i), n < i
    PROVE  Whole(k, Joined(Drop(b, n), r))
<1>1. n \in Nat
    BY LenProperties
<1>2. Joined(b, r) \in Seq(S)
    BY FrontOfJoined
<1> DEFINE s == Joined(b, r)
           d == Joined(Drop(b, n), r)
<1>3. /\ d \in Seq(S) /\ Len(d) = Len(s) - n
      /\ \A j \in 1 .. Len(s) - n : d[j] = s[n + j]
    BY JoinedBehindCut
<1>4. s \in Seq(S) /\ i \in 1 .. Len(s) /\ ImageAt(k, s, i)
    BY <1>2
<1> HIDE DEF s, d
<1>5. Whole(k, d)
    BY <1>1, <1>3, <1>4, ShiftedWhole
<1>6. QED
    BY <1>5 DEF d

\* The frame that is taken out is the first; every other whole one begins at
\* its closing flag, which stays, or behind it.
LEMMA WholeBehindFrame ==
    ASSUME NEW b \in Seq(Octet), NEW r \in Seq(Octet), Found(b),
           NEW k \in 1 .. MaxFrames, Whole(k, Joined(b, r)), k \notin Parsed(b)
    PROVE  Whole(k, Joined(Drop(b, End(b) - 1), r))
<1> DEFINE s == Joined(b, r)
<1>1. /\ s \in Seq(Octet) /\ Len(s) = Len(b) + Len(r) /\ Whole(k, s)
      /\ \A j \in 1 .. Len(b) : s[j] = b[j]
  <2>1. s \in Seq(Octet) /\ Len(s) = Len(b) + Len(r)
      BY FrontOfJoined
  <2>2. \A j \in 1 .. Len(b) : s[j] = b[j]
      BY FrontOfJoined
  <2>3. QED
      BY <2>1, <2>2
<1> HIDE DEF s
<1>2. PICK i \in 1 .. Len(s) : ImageAt(k, s, i)
    BY <1>1, WholeAt
<1>3. PICK p, e \in 1 .. Len(b) : p = Start(b) /\ e = End(b)
    BY FrameFound
<1>4. /\ p + 1 < e /\ b[p] = Flag /\ b[e] = Flag
      /\ \A j \in p + 1 .. e - 1 : b[j] # Flag
      /\ \A q \in Candidates(b) : p <= q[1]
    BY <1>3, FrameFound
<1>5. Len(b) \in Nat /\ Len(r) \in Nat /\ Len(s) \in Nat
    BY LenProperties
<1>6. e - 1 < i
  <2>1. SUFFICES ASSUME i < e PROVE FALSE
      BY <1>5
  <2>2. i \in 1 .. Len(b) /\ s[i] = b[i] /\ b[i] = Flag
      BY <1>1, <1>2, <1>5, <2>1 DEF ImageAt
  <2>3. i + 3 <= Len(b) => ImageAt(k, b, i)
    <3>1. i + 3 <= Len(b) => \A j \in i .. i + 3 : s[j] = b[j]
        BY <1>1, <1>5, <2>2
    <3>2. QED
        BY <1>2, <1>5, <2>2, <3>1 DEF ImageAt
  <2>4. CASE p < i
      BY <1>4, <1>5, <2>1, <2>2, <2>4
  <2>5. CASE i < p
    <3>1. i + 3 <= Len(b)
        BY <1>4, <1>5, <2>5
    <3>2. <<i, i + 3>> \in Candidates(b)
        BY <2>2, <2>3, <3>1, ImageIsFound
    <3>3. p <= i
        BY <1>4, <3>2
    <3>4. QED
        BY <1>5, <2>5, <3>3
  <2>6. CASE i = p
    <3>1. s[p + 2] # Flag
      <4>1. s[p + 2] = <<k, 2>>
          BY <1>2, <2>6 DEF ImageAt
      <4>2. QED
          BY <4>1, FramingAssumption
    <3>2. e # p + 2
        BY <1>1, <1>4, <3>1
    <3>3. p + 3 <= e /\ p + 3 <= Len(b)
        BY <1>4, <1>5, <3>2
    <3>4. b[p + 3] = Flag
        BY <2>3, <2>6, <3>3 DEF ImageAt
    <3>5. e = p + 3
        BY <1>4, <1>5, <3>3, <3>4
    <3>6. k \in Parsed(b)
        BY <1>3, <2>3, <2>6, <3>3, <3>5, ParsedAt
    <3>7. QED
        BY <3>6
  <2>7. QED
      BY <1>5, <2>4, <2>5, <2>6
<1>7. e - 1 \in 0 .. Len(b)
    BY <1>5
<1>8. QED
    BY <1>2, <1>3, <1>6, <1>7, WholeBehindCut DEF s

\* A telegram that is recognised ends before any frame that is not complete.
LEMMA WholeBehindTelegram ==
    ASSUME NEW b \in Seq(Octet), NEW r \in Seq(Octet), ~ Found(b),
           Telegrams(b) # {}, NEW k \in 1 .. MaxFrames, Whole(k, Joined(b, r))
    PROVE  Whole(k, Joined(Drop(b, FirstTelegram(b) - 1), r))
<1> DEFINE s == Joined(b, r)
<1>1. /\ s \in Seq(Octet) /\ Len(s) = Len(b) + Len(r) /\ Whole(k, s)
      /\ \A j \in 1 .. Len(b) : s[j] = b[j]
  <2>1. s \in Seq(Octet) /\ Len(s) = Len(b) + Len(r)
      BY FrontOfJoined
  <2>2. \A j \in 1 .. Len(b) : s[j] = b[j]
      BY FrontOfJoined
  <2>3. QED
      BY <2>1, <2>2
<1> HIDE DEF s
<1>2. PICK i \in 1 .. Len(s) : ImageAt(k, s, i)
    BY <1>1, WholeAt
<1>3. PICK t \in 2 .. Len(b) : t = FirstTelegram(b) /\ b[t] = <<0, 2>>
    BY TelegramFound
<1>4. Len(b) \in Nat /\ Len(r) \in Nat /\ Len(s) \in Nat
    BY LenProperties
<1>5. t - 1 < i
  <2>1. SUFFICES ASSUME i < t PROVE FALSE
      BY <1>4
  <2>2. i + 3 > Len(b)
    <3>1. SUFFICES ASSUME i + 3 <= Len(b) PROVE FALSE
        BY <1>4
    <3>2. \A j \in i .. i + 3 : s[j] = b[j]
        BY <1>1, <1>4, <3>1
    <3>3. i \in 1 .. Len(b) /\ ImageAt(k, b, i)
        BY <1>2, <1>4, <3>1, <3>2 DEF ImageAt
    <3>4. k \in 0 .. MaxFrames
        OBVIOUS
    <3>5. QED
        BY <3>3, <3>4, ImageIsFound
  <2>3. t = i + 1 \/ t = i + 2
      BY <1>4, <2>1, <2>2
  <2>4. s[t] = <<k, 1>> \/ s[t] = <<k, 2>>
      BY <1>2, <2>3 DEF ImageAt
  <2>5. s[t] = <<0, 2>> /\ k # 0
      BY <1>1, <1>3, <1>4
  <2>6. QED
      BY <2>4, <2>5
<1>6. t - 1 \in 0 .. Len(b)
    BY <1>4
<1>7. QED
    BY <1>2, <1>3, <1>5, <1>6, WholeBehindCut DEF s

LEMMA WholeInJoined ==
    ASSUME NEW S, NEW b \in Seq(S), NEW r \in Seq(S), NEW k
    PROVE  /\ Whole(k, b) => Whole(k, Joined(b, r))
           /\ Whole(k, r) => Whole(k, Joined(b, r))
<1> DEFINE s == Joined(b, r)
<1>1. Len(b) \in Nat /\ Len(r) \in Nat
    BY LenProperties
<1>2. s \in Seq(S) /\ Len(s) = Len(b) + Len(r)
    BY FrontOfJoined
<1>3. \A j \in 1 .. Len(b) : s[j] = b[j]
    BY FrontOfJoined
<1>4. \A j \in 1 .. Len(r) : s[Len(b) + j] = r[j]
    BY FrontOfJoined
<1> HIDE DEF s
<1>5. ASSUME Whole(k, b) PROVE Whole(k, s)
  <2>1. PICK i \in 1 .. Len(b) : ImageAt(k, b, i)
      BY <1>5, WholeAt
  <2>2. i \in 1 .. Len(s) /\ ImageAt(k, s, i)
      BY <1>1, <1>2, <1>3, <2>1 DEF ImageAt
  <2>3. QED
      BY <1>2, <2>2, WholeAt
<1>6. ASSUME Whole(k, r) PROVE Whole(k, s)
  <2>1. PICK i \in 1 .. Len(r) : ImageAt(k, r, i)
      BY <1>6, WholeAt
  <2>2. i + 3 <= Len(r) /\ \A m \in 0 .. 3 : i + m \in 1 .. Len(r)
      BY <1>1, <2>1 DEF ImageAt
  <2>3. \A m \in 0 .. 3 : s[Len(b) + (i + m)] = r[i + m]
      BY <1>4, <2>2
  <2>4. /\ i + 0 = i /\ Len(b) + (i + 0) = Len(b) + i
        /\ Len(b) + (i + 1) = Len(b) + i + 1
        /\ Len(b) + (i + 2) = Len(b) + i + 2
        /\ Len(b) + (i + 3) = Len(b) + i + 3
      BY <1>1
  <2>5. /\ s[Len(b) + (i + 0)] = r[i + 0] /\ s[Len(b) + (i + 1)] = r[i + 1]
        /\ s[Len(b) + (i + 2)] = r[i + 2] /\ s[Len(b) + (i + 3)] = r[i + 3]
      BY <2>3
  <2>6. Len(b) + i \in 1 .. Len(s) /\ Len(b) + i + 3 <= Len(s)
      BY <1>1, <1>2, <2>2
  <2>7. ImageAt(k, s, Len(b) + i)
      BY <2>1, <2>4, <2>5, <2>6 DEF ImageAt
  <2>8. QED
      BY <1>2, <2>6, <2>7, WholeAt
<1>7. QED
    BY <1>5, <1>6 DEF s

\* What more arrives behind a line leaves a whole frame whole.
LEMMA WholeOnLongerLine ==
    ASSUME NEW S, NEW b \in Seq(S), NEW l \in Seq(S), NEW o \in Seq(S),
           NEW k, Whole(k, Joined(b, l))
    PROVE  Whole(k, Joined(b, l \o o))
<1>1. \A x, y, z \in Seq(S) : Joined(Joined(x, y), z) = Joined(x, y \o z)
    BY ConcatAssociative DEF Joined
<1>2. Joined(b, l) \in Seq(S)
    BY FrontOfJoined
<1>3. Whole(k, Joined(Joined(b, l), o))
    BY <1>2, WholeInJoined
<1>4. Joined(Joined(b, l), o) = Joined(b, l \o o)
    BY <1>1
<1>5. QED
    BY <1>3, <1>4, Zenon

\* A frame that is sent is whole, with flags of its own and with the shared
\* one.
LEMMA SentWhole ==
    ASSUME NEW l \in Seq(Octet), NEW k \in 0 .. MaxFrames
    PROVE  /\ Whole(k, Joined(l, Image(k)))
           /\ l # <<>> /\ Last(l) = Flag => Whole(k, Joined(l, Tail(Image(k))))
<1>1. /\ Image(k) \in Seq(Octet) /\ Tail(Image(k)) \in Seq(Octet)
      /\ Tail(Image(k)) = <<<<k, 1>>, <<k, 2>>, Flag>>
    BY PiecesTyped
<1>2. Whole(k, Joined(l, Image(k)))
  <2>1. Len(Image(k)) = 4 /\ ImageAt(k, Image(k), 1)
      BY DEF Image, ImageAt
  <2>2. Whole(k, Image(k))
      BY <1>1, <2>1, WholeAt
  <2>3. QED
      BY <1>1, <2>2, WholeInJoined
<1>3. ASSUME l # <<>>, Last(l) = Flag
      PROVE  Whole(k, Joined(l, Tail(Image(k))))
  <2> DEFINE t == <<<<k, 1>>, <<k, 2>>, Flag>>
             s == Joined(l, t)
  <2>1. Len(t) = 3 /\ t[1] = <<k, 1>> /\ t[2] = <<k, 2>> /\ t[3] = Flag
      OBVIOUS
  <2>2. t \in Seq(Octet) /\ Tail(Image(k)) = t
      BY <1>1
  <2> HIDE DEF t
  <2>3. s \in Seq(Octet) /\ Len(s) = Len(l) + Len(t)
      BY <2>2, FrontOfJoined
  <2>4. \A j \in 1 .. Len(l) : s[j] = l[j]
      BY <2>2, FrontOfJoined
  <2>5. \A j \in 1 .. Len(t) : s[Len(l) + j] = t[j]
      BY <2>2, FrontOfJoined
  <2> HIDE DEF s
  <2>6. Len(l) \in Nat \ {0} /\ l[Len(l)] = Flag
      BY <1>3, EmptySeq DEF Last
  <2>7. s[Len(l)] = Flag /\ Len(l) \in 1 .. Len(s) /\ Len(l) + 3 <= Len(s)
      BY <2>1, <2>3, <2>4, <2>6
  <2>8. /\ s[Len(l) + 1] = t[1] /\ s[Len(l) + 2] = t[2] /\ s[Len(l) + 3] = t[3]
      BY <2>1, <2>5
  <2>9. ImageAt(k, s, Len(l))
      BY <2>1, <2>7, <2>8 DEF ImageAt
  <2>10. Whole(k, s)
      BY <2>3, <2>7, <2>9, WholeAt
  <2>11. Whole(k, Joined(l, t))
      BY <2>10 DEF s
  <2>12. QED
      BY <2>2, <2>11, Zenon
<1>4. QED
    BY <1>2, <1>3

LEMMA HandedSet ==
    ASSUME TypeOK, NEW b \in Seq(Octet), Found(b)
    PROVE  /\ \A k \in ToSet(delivered) : k \in ToSet(Handed(Parsed(b)))
           /\ \A k \in Parsed(b) : k \in ToSet(Handed(Parsed(b)))
<1>1. delivered \in Seq(1 .. MaxFrames)
    BY DEF TypeOK
<1>2. ASSUME NEW k \in 1 .. MaxFrames
      PROVE  /\ \A l \in ToSet(delivered) : l \in ToSet(Append(delivered, k))
             /\ k \in ToSet(Append(delivered, k))
  <2>1. Len(delivered) \in Nat /\ DOMAIN delivered = 1 .. Len(delivered)
      BY <1>1, LenProperties
  <2> DEFINE d == Append(delivered, k)
  <2>2. /\ d \in Seq(1 .. MaxFrames) /\ Len(d) = Len(delivered) + 1
        /\ \A i \in 1 .. Len(delivered) : d[i] = delivered[i]
        /\ d[Len(delivered) + 1] = k
      BY <1>1, AppendProperties
  <2> HIDE DEF d
  <2>3. DOMAIN d = 1 .. Len(delivered) + 1
      BY <2>2, LenProperties
  <2>4. /\ Len(delivered) + 1 \in DOMAIN d
        /\ \A i \in DOMAIN delivered : i \in DOMAIN d /\ d[i] = delivered[i]
      BY <2>1, <2>2, <2>3
  <2>5. (\A l \in ToSet(delivered) : l \in ToSet(d)) /\ k \in ToSet(d)
      BY <2>2, <2>4 DEF ToSet
  <2>6. QED
      BY <2>5 DEF d
<1>3. QED
    BY <1>2, HandedOn

\* A read takes nothing away from what buffer and line hold together.
LEMMA ReadKeepsJoined ==
    ASSUME TypeOK, NEW n \in 1 .. Len(line)
    PROVE  Joined(Filled(n), Drop(line, n)) = Joined(buf, line)
BY ReadMoves DEF TypeOK, Joined, Filled

LEMMA InReachIs ==
    /\ \A k : InReach(k) <=> k \in ToSet(delivered) \/ Whole(k, Joined(buf, line))
    /\ \A k : InReach(k)' <=> k \in ToSet(delivered') \/ Whole(k, Joined(buf', line'))
BY DEF InReach, Joined

LEMMA IntactAreFrames ==
    ASSUME TypeOK, NEW k \in intact
    PROVE  k \in 1 .. MaxFrames /\ k \in 0 .. MaxFrames
<1>1. k \in 1 .. sent /\ sent \in Nat /\ sent <= MaxFrames /\ MaxFrames \in Nat
    BY FramingAssumption DEF TypeOK
<1>2. QED
    BY <1>1

\* Octets in which no frame is found, and those behind them, hold a frame that
\* is not whole in the latter only if it begins in the last three of the former.
LEMMA AcrossTheEnd ==
    ASSUME NEW b \in Seq(Octet), NEW r \in Seq(Octet), ~ Found(b),
           NEW k \in 1 .. MaxFrames, Whole(k, Joined(b, r)), ~ Whole(k, r)
    PROVE  \E i \in Len(b) - 2 .. Len(b) :
              i \in 1 .. Len(Joined(b, r)) /\ ImageAt(k, Joined(b, r), i)
<1> DEFINE s == Joined(b, r)
<1>1. /\ s \in Seq(Octet) /\ Len(s) = Len(b) + Len(r)
      /\ \A j \in 1 .. Len(b) : s[j] = b[j]
      /\ \A j \in 1 .. Len(r) : s[Len(b) + j] = r[j]
  <2>1. s \in Seq(Octet) /\ Len(s) = Len(b) + Len(r)
      BY FrontOfJoined
  <2>2. \A j \in 1 .. Len(b) : s[j] = b[j]
      BY FrontOfJoined
  <2>3. \A j \in 1 .. Len(r) : s[Len(b) + j] = r[j]
      BY FrontOfJoined
  <2>4. QED
      BY <2>1, <2>2, <2>3
<1> HIDE DEF s
<1>2. Len(b) \in Nat /\ Len(r) \in Nat /\ Len(s) \in Nat
    BY <1>1, LenProperties
<1>3. PICK i \in 1 .. Len(s) : ImageAt(k, s, i)
    BY <1>1, WholeAt DEF s
<1>4. i <= Len(b)
  <2>1. Len(r) = Len(s) - Len(b) /\ \A j \in 1 .. Len(s) - Len(b) : r[j] = s[Len(b) + j]
      BY <1>1, <1>2
  <2>2. Len(b) < i => Whole(k, r)
      BY <1>1, <1>2, <1>3, <2>1, ShiftedWhole
  <2>3. QED
      BY <1>2, <2>2
<1>5. i + 3 > Len(b)
  <2>1. SUFFICES ASSUME i + 3 <= Len(b) PROVE FALSE
      BY <1>2
  <2>2. \A j \in i .. i + 3 : s[j] = b[j]
      BY <1>1, <1>2, <2>1
  <2>3. i \in 1 .. Len(b) /\ ImageAt(k, b, i) /\ k \in 0 .. MaxFrames
      BY <1>2, <1>3, <2>1, <2>2 DEF ImageAt
  <2>4. QED
      BY <2>3, ImageIsFound
<1>6. QED
    BY <1>2, <1>3, <1>4, <1>5 DEF s

\* Two frames cannot both begin there.
LEMMA OneAcrossTheEnd ==
    ASSUME NEW b \in Seq(Octet), NEW r \in Seq(Octet), ~ Found(b),
           NEW k \in 1 .. MaxFrames, Whole(k, Joined(b, r)), ~ Whole(k, r),
           NEW l \in 1 .. MaxFrames, Whole(l, Joined(b, r)), ~ Whole(l, r)
    PROVE  k = l
<1> DEFINE s == Joined(b, r)
<1>1. PICK i \in Len(b) - 2 .. Len(b) : i \in 1 .. Len(s) /\ ImageAt(k, s, i)
    BY AcrossTheEnd
<1>2. PICK j \in Len(b) - 2 .. Len(b) : j \in 1 .. Len(s) /\ ImageAt(l, s, j)
    BY AcrossTheEnd
<1> HIDE DEF s
<1>3. Len(b) \in Nat
    BY LenProperties
<1>4. /\ <<k, 1>> # Flag /\ <<k, 2>> # Flag
      /\ <<l, 1>> # Flag /\ <<l, 2>> # Flag
    BY FramingAssumption
<1>5. j # i + 1 /\ j # i + 2 /\ i # j + 1 /\ i # j + 2
    BY <1>1, <1>2, <1>4 DEF ImageAt
<1>6. i = j
    BY <1>1, <1>2, <1>3, <1>5
<1>7. <<k, 1>> = <<l, 1>>
    BY <1>1, <1>2, <1>6 DEF ImageAt
<1>8. QED
    BY <1>7

\* What a read of the listener has lost ran over the end of a full buffer in
\* which there was no frame.
LEMMA LostByRead ==
    ASSUME TypeOK, NEW n \in 1 .. Len(line), Listen(n),
           NEW k \in intact, InReach(k), ~ InReach(k)'
    PROVE  /\ ~ Found(Filled(n)) /\ Telegrams(Filled(n)) = {}
           /\ Len(Filled(n)) = BufSize
           /\ Whole(k, Joined(Filled(n), line')) /\ ~ Whole(k, line')
<1> DEFINE b == Filled(n)
           r == Drop(line, n)
<1>1. b \in Seq(Octet) /\ r \in Seq(Octet) /\ line' = r
  <2>1. n \in 0 .. Len(line)
      BY LenProperties DEF TypeOK
  <2>2. QED
      BY <2>1, FilledTyped DEF Listen
<1>2. k \in 1 .. MaxFrames
    BY IntactAreFrames
<1>3. k \in ToSet(delivered) \/ Whole(k, Joined(b, r))
  <2>1. Joined(b, r) = Joined(buf, line)
      BY ReadKeepsJoined
  <2>2. k \in ToSet(delivered) \/ Whole(k, Joined(buf, line))
      BY InReachIs
  <2>3. QED
      BY <2>1, <2>2, Zenon
<1>4. k \notin ToSet(delivered') /\ ~ Whole(k, Joined(buf', r))
    BY <1>1, InReachIs
<1>5. \/ /\ Found(b) /\ delivered' = Handed(Parsed(b))
         /\ buf' = Drop(b, End(b) - 1)
      \/ /\ ~ Found(b) /\ Telegrams(b) # {}
         /\ buf' = Drop(b, FirstTelegram(b) - 1) /\ delivered' = delivered
      \/ /\ ~ Found(b) /\ Telegrams(b) = {}
         /\ buf' = Cleared(b) /\ delivered' = delivered
    BY DEF Listen, Filled, Removed, FirstTelegram
<1> HIDE DEF b, r
<1>6. ~ (Found(b) /\ delivered' = Handed(Parsed(b)) /\ buf' = Drop(b, End(b) - 1))
  <2>1. SUFFICES ASSUME Found(b), delivered' = Handed(Parsed(b)),
                        buf' = Drop(b, End(b) - 1)
                 PROVE  FALSE
      OBVIOUS
  <2>2. k \notin ToSet(delivered) /\ k \notin Parsed(b)
      BY <1>1, <1>4, <2>1, HandedSet
  <2>3. Whole(k, Joined(Drop(b, End(b) - 1), r))
      BY <1>1, <1>2, <1>3, <2>1, <2>2, WholeBehindFrame
  <2>4. QED
      BY <1>4, <2>1, <2>3
<1>7. ~ (/\ ~ Found(b) /\ Telegrams(b) # {}
         /\ buf' = Drop(b, FirstTelegram(b) - 1) /\ delivered' = delivered)
    BY <1>1, <1>2, <1>3, <1>4, WholeBehindTelegram
<1>8. /\ ~ Found(b) /\ Telegrams(b) = {}
      /\ buf' = Cleared(b) /\ delivered' = delivered
    BY <1>5, <1>6, <1>7
<1>9. Whole(k, Joined(b, r))
    BY <1>3, <1>4, <1>8
<1>10. Len(b) = BufSize /\ buf' = <<>>
    BY <1>4, <1>8, <1>9 DEF Cleared
<1>11. Joined(<<>>, r) = r
    BY <1>1, ConcatEmptySeq DEF Joined
<1>12. ~ Whole(k, r)
    BY <1>4, <1>10, <1>11
<1>13. QED
    BY <1>1, <1>8, <1>9, <1>10, <1>12 DEF b

\* ... in the terms of the property.
LEMMA LostIsOverrun ==
    ASSUME TypeOK, NEW n \in 1 .. Len(line), Listen(n),
           NEW k \in intact, InReach(k), ~ InReach(k)'
    PROVE  Overrun(k)
<1> DEFINE b == Filled(n)
           r == Drop(line, n)
           all == Joined(buf, line)
<1>1. b \in Seq(Octet) /\ r \in Seq(Octet) /\ line' = r
  <2>1. n \in 0 .. Len(line)
      BY LenProperties DEF TypeOK
  <2>2. QED
      BY <2>1, FilledTyped DEF Listen
<1>2. /\ ~ Found(b) /\ Len(b) = BufSize
      /\ Whole(k, Joined(b, r)) /\ ~ Whole(k, r)
    BY <1>1, LostByRead
<1>3. all = b \o r
    BY ReadKeepsJoined DEF Joined
<1> HIDE DEF b, r, all
<1>4. Len(b) \in Nat /\ Len(r) \in Nat /\ Len(b \o r) = Len(b) + Len(r)
    BY <1>1, LenProperties, ConcatProperties
<1>5. SubSeq(b \o r, 1, Len(b)) = b
    BY <1>1, SubSeqOfConcat1, SubSeqFull, <1>4
<1>6. SubSeq(b \o r, Len(b) + 1, Len(b) + Len(r)) = r
    BY <1>1, SubSeqOfConcat2, <1>4
<1>7. Len(all) >= BufSize
    BY <1>2, <1>3, <1>4
<1>8. SubSeq(all, 1, BufSize) = b
    BY <1>2, <1>3, <1>5
<1>9. Drop(all, BufSize) = r
    BY <1>2, <1>3, <1>4, <1>6 DEF Drop
<1>10. Whole(k, all)
    BY <1>2, <1>3 DEF Joined
<1>11. all = buf \o line
    BY DEF all, Joined
<1>12. QED
    BY <1>2, <1>7, <1>8, <1>9, <1>10, <1>11 DEF Overrun

\* What else happens to a listener, on the line or in its buffer, loses none.
LEMMA NothingElseLost ==
    ASSUME TypeOK, BufferInv, loop = "listen",
           \/ TextLine \/ WaitBegins \/ WaitTimesOut
           \/ SendFrame \/ SendAwkward \/ SendOther \/ OctetLost
           \/ UNCHANGED vars,
           NEW k \in intact, k \in intact', InReach(k)
    PROVE  InReach(k)'
<1>1. buf \in Seq(Octet) /\ line \in Seq(Octet)
    BY DEF TypeOK
<1>2. CASE TextLine
  <2>1. ~ Found(buf)
    <3>1. Head(buf) = buf[1] /\ loop = "listen" /\ Head(buf) # Flag
        BY <1>2, FramingAssumption DEF TextLine
    <3>2. QED
        BY <3>1 DEF BufferInv, FlagFirst
  <2>2. Joined(buf, line) = buf
      BY <1>1, <1>2, ConcatEmptySeq DEF TextLine, Joined
  <2>3. ~ Whole(k, buf)
      BY <1>1, <2>1, IntactAreFrames, WholeAt, ImageIsFound
  <2>4. ~ Whole(k, Joined(buf, line))
      BY <2>2, <2>3, Zenon
  <2>5. k \in ToSet(delivered) /\ delivered' = delivered
      BY <1>2, <2>4, InReachIs DEF TextLine
  <2>6. QED
      BY <2>5, InReachIs
<1>3. CASE WaitBegins \/ WaitTimesOut
    BY <1>3 DEF WaitBegins, WaitTimesOut, BufferInv, Modes
<1>4. CASE SendFrame \/ SendAwkward \/ SendOther
  <2>1. PICK o \in Seq(Octet) : line' = line \o o
      BY <1>4, SendTyped
  <2>2. buf' = buf /\ delivered' = delivered
      BY <1>4 DEF SendFrame, SendAwkward, SendOther, task
  <2>3. Whole(k, Joined(buf, line)) => Whole(k, Joined(buf, line \o o))
      BY <1>1, WholeOnLongerLine
  <2>4. QED
      BY <2>1, <2>2, <2>3, InReachIs
<1>5. CASE OctetLost
  <2>1. k \in ToSet(delivered) \/ Whole(k, buf \o line')
      BY <1>5 DEF OctetLost, StillWhole
  <2>2. buf' = buf /\ delivered' = delivered
      BY <1>5 DEF OctetLost, task
  <2>3. QED
      BY <2>1, <2>2 DEF InReach
<1>6. CASE UNCHANGED vars
    BY <1>6 DEF vars, task, wire, InReach
<1>7. QED
    BY <1>2, <1>3, <1>4, <1>5, <1>6

\* The frames of which the octets came and that are out of reach after a step.
Lost == {k \in intact \cap intact' : InReach(k) /\ ~ InReach(k)'}

LEMMA LosesOneAtMost ==
    ASSUME TypeOK, BufferInv, [Next]_vars, loop = "listen", NEW k \in Lost
    PROVE  Lost = {k} /\ Overrun(k)
<1>1. \A l \in Lost : l \in intact /\ l \in intact' /\ InReach(l) /\ ~ InReach(l)'
    BY DEF Lost
<1>2. PICK n \in 1 .. Len(line) : Listen(n)
  <2>1. \A n \in 1 .. Len(line) : ~ WaitReads(n)
      BY DEF WaitReads, BufferInv, Modes
  <2>2. QED
      BY <1>1, <2>1, NothingElseLost DEF Next, Reads
<1>3. Overrun(k)
    BY <1>1, <1>2, LostIsOverrun
<1>4. ASSUME NEW l \in Lost PROVE l = k
  <2>1. /\ ~ Found(Filled(n))
        /\ Whole(k, Joined(Filled(n), line')) /\ ~ Whole(k, line')
        /\ Whole(l, Joined(Filled(n), line')) /\ ~ Whole(l, line')
      BY <1>1, <1>2, LostByRead
  <2>2. n \in 0 .. Len(line)
      BY LenProperties DEF TypeOK
  <2>3. Filled(n) \in Seq(Octet) /\ line' \in Seq(Octet)
      BY <1>2, <2>2, FilledTyped DEF Listen
  <2>4. k \in 1 .. MaxFrames /\ l \in 1 .. MaxFrames
      BY <1>1, IntactAreFrames
  <2>5. QED
      BY <2>1, <2>3, <2>4, OneAcrossTheEnd
<1>5. QED
    BY <1>3, <1>4

\* Whatever noise, broken and awkward frames, telegrams and text lines come and
\* however the octets are cut into reads, the listener loses of the frames that
\* arrive whole only the one that runs over the end of a full buffer.
THEOREM NothingIntactLostHolds == Spec => NothingIntactLost
<1>1. Init => TypeOK /\ BufferInv
    BY FramingInitTyped, BufferInit
<1>2. TypeOK /\ BufferInv /\ [Next]_vars => (TypeOK /\ BufferInv)'
    BY FramingStepTyped, BufferKept
<1>3. ASSUME TypeOK, BufferInv, [Next]_vars
      PROVE  LET lost == {k \in intact \cap intact' : InReach(k) /\ ~ InReach(k)'}
             IN  loop = "listen" => \A k \in lost : lost = {k} /\ Overrun(k)
    BY <1>3, LosesOneAtMost DEF Lost
<1>4. QED
    BY <1>1, <1>2, <1>3, PTL DEF Spec, NothingIntactLost

-----------------------------------------------------------------------------
(* A clean line                                                            *)

\* Octets that are whole frames, or the closing flag of one and whole frames:
\* of any three in a row there is one that is a flag and one that is not.
CleanText(t) ==
    /\ \A i \in 1 .. Len(t) : t[i] = Flag \/ t[i] \in (1 .. MaxFrames) \X {1, 2}
    /\ Len(t) > 0 => t[1] = Flag /\ t[Len(t)] = Flag
    /\ Len(t) > 1 => t[Len(t) - 1] # Flag
    /\ \A i \in 1 .. Len(t) - 2 :
          \E x, y \in i .. i + 2 : t[x] = Flag /\ t[y] # Flag

CleanInv ==
    loop = "listen" /\ faults = MaxFaults =>
        CleanText(Joined(buf, line)) /\ \A k \in intact : InReach(k)

LEMMA EmptyIsClean == CleanText(<<>>)
<1>1. Len(<<>>) = 0
    OBVIOUS
<1>2. QED
    BY <1>1 DEF CleanText

\* A frame is found in the first five of them.
LEMMA CleanFull ==
    ASSUME NEW b \in Seq(Octet), NEW r \in Seq(Octet), Len(b) > 4,
           CleanText(Joined(b, r))
    PROVE  Found(b)
<1> DEFINE s == Joined(b, r)
<1>1. /\ s \in Seq(Octet) /\ Len(s) = Len(b) + Len(r)
      /\ \A j \in 1 .. Len(b) : s[j] = b[j]
  <2>1. s \in Seq(Octet) /\ Len(s) = Len(b) + Len(r)
      BY FrontOfJoined
  <2>2. \A j \in 1 .. Len(b) : s[j] = b[j]
      BY FrontOfJoined
  <2>3. QED
      BY <2>1, <2>2
<1> HIDE DEF s
<1>2. Len(b) \in Nat /\ Len(r) \in Nat
    BY LenProperties
<1>3. CleanText(s)
    BY DEF s
<1>4. s[1] = Flag /\ b[1] = Flag
    BY <1>1, <1>2, <1>3 DEF CleanText
<1>5. ASSUME NEW i \in 1 .. 3
      PROVE  \E x, y \in i .. i + 2 : b[x] = Flag /\ b[y] # Flag
  <2>1. i \in 1 .. Len(s) - 2 /\ \A x \in i .. i + 2 : x \in 1 .. Len(b)
      BY <1>1, <1>2
  <2>2. PICK x, y \in i .. i + 2 : s[x] = Flag /\ s[y] # Flag
      BY <1>3, <2>1 DEF CleanText
  <2>3. x \in 1 .. Len(b) /\ y \in 1 .. Len(b)
      BY <2>1
  <2>4. b[x] = s[x] /\ b[y] = s[y]
      BY <1>1, <2>3
  <2>5. QED
      BY <2>2, <2>4
<1>6. /\ b[2] # Flag \/ b[3] # Flag
      /\ b[2] = Flag \/ b[3] = Flag \/ b[4] = Flag
      /\ b[3] = Flag \/ b[4] = Flag \/ b[5] = Flag
  <2>1. \E x, y \in {1, 2, 3} : b[x] = Flag /\ b[y] # Flag
    <3>1. PICK x, y \in 1 .. 1 + 2 : b[x] = Flag /\ b[y] # Flag
        BY <1>5
    <3>2. x \in {1, 2, 3} /\ y \in {1, 2, 3}
        OBVIOUS
    <3>3. QED
        BY <3>1, <3>2
  <2>2. \E x, y \in {2, 3, 4} : b[x] = Flag /\ b[y] # Flag
    <3>1. PICK x, y \in 2 .. 2 + 2 : b[x] = Flag /\ b[y] # Flag
        BY <1>5
    <3>2. x \in {2, 3, 4} /\ y \in {2, 3, 4}
        OBVIOUS
    <3>3. QED
        BY <3>1, <3>2
  <2>3. \E x, y \in {3, 4, 5} : b[x] = Flag /\ b[y] # Flag
    <3>1. PICK x, y \in 3 .. 3 + 2 : b[x] = Flag /\ b[y] # Flag
        BY <1>5
    <3>2. x \in {3, 4, 5} /\ y \in {3, 4, 5}
        OBVIOUS
    <3>3. QED
        BY <3>1, <3>2
  <2>4. QED
      BY <1>4, <2>1, <2>2, <2>3
<1>7. \A p, q \in {1, 2, 3, 4, 5} : p \in 1 .. Len(b)
    BY <1>2
<1>8. CASE b[2] # Flag /\ b[3] = Flag
  <2>1. \A i \in 1 + 1 .. 3 - 1 : i = 2
      OBVIOUS
  <2>2. <<1, 3>> \in Candidates(b)
      BY <1>4, <1>7, <1>8, <2>1 DEF Candidates
  <2>3. QED
      BY <2>2 DEF Found
<1>9. CASE b[2] # Flag /\ b[3] # Flag
  <2>1. \A i \in 1 + 1 .. 4 - 1 : i = 2 \/ i = 3
      OBVIOUS
  <2>2. <<1, 4>> \in Candidates(b)
      BY <1>4, <1>6, <1>7, <1>9, <2>1 DEF Candidates
  <2>3. QED
      BY <2>2 DEF Found
<1>10. CASE b[2] = Flag /\ b[3] # Flag /\ b[4] = Flag
  <2>1. \A i \in 2 + 1 .. 4 - 1 : i = 3
      OBVIOUS
  <2>2. <<2, 4>> \in Candidates(b)
      BY <1>7, <1>10, <2>1 DEF Candidates
  <2>3. QED
      BY <2>2 DEF Found
<1>11. CASE b[2] = Flag /\ b[3] # Flag /\ b[4] # Flag
  <2>1. \A i \in 2 + 1 .. 5 - 1 : i = 3 \/ i = 4
      OBVIOUS
  <2>2. <<2, 5>> \in Candidates(b)
      BY <1>6, <1>7, <1>11, <2>1 DEF Candidates
  <2>3. QED
      BY <2>2 DEF Found
<1>12. QED
    BY <1>6, <1>8, <1>9, <1>10, <1>11

\* No telegram is seen in them, and no text line.
LEMMA CleanHolds ==
    ASSUME NEW b \in Seq(Octet), NEW r \in Seq(Octet), CleanText(Joined(b, r))
    PROVE  Telegrams(b) = {} /\ (b # <<>> => Head(b) = Flag)
<1> DEFINE s == Joined(b, r)
<1>1. /\ s \in Seq(Octet) /\ Len(s) = Len(b) + Len(r)
      /\ \A j \in 1 .. Len(b) : s[j] = b[j]
  <2>1. s \in Seq(Octet) /\ Len(s) = Len(b) + Len(r)
      BY FrontOfJoined
  <2>2. \A j \in 1 .. Len(b) : s[j] = b[j]
      BY FrontOfJoined
  <2>3. QED
      BY <2>1, <2>2
<1> HIDE DEF s
<1>2. Len(b) \in Nat /\ Len(r) \in Nat
    BY LenProperties
<1>3. CleanText(s)
    BY DEF s
<1>4. <<0, 2>> # Flag /\ <<0, 2>> \notin (1 .. MaxFrames) \X {1, 2}
    BY FramingAssumption
<1>5. ASSUME NEW i \in Telegrams(b) PROVE FALSE
  <2>1. i \in 1 .. Len(b) /\ b[i] = <<0, 2>>
      BY <1>2 DEF Telegrams
  <2>2. i \in 1 .. Len(s) /\ s[i] = <<0, 2>>
      BY <1>1, <1>2, <2>1
  <2>3. s[i] = Flag \/ s[i] \in (1 .. MaxFrames) \X {1, 2}
      BY <1>3, <2>2 DEF CleanText
  <2>4. QED
      BY <1>4, <2>2, <2>3
<1>6. ASSUME b # <<>> PROVE Head(b) = Flag
  <2>1. Len(b) > 0 /\ Head(b) = b[1]
      BY <1>2, <1>6, EmptySeq
  <2>2. QED
      BY <1>1, <1>2, <1>3, <2>1 DEF CleanText
<1>7. QED
    BY <1>5, <1>6

\* What is behind a flag in them is clean again.
LEMMA CleanBehindCut ==
    ASSUME NEW s \in Seq(Octet), NEW d \in Seq(Octet), NEW n \in Nat,
           n < Len(s), Len(d) = Len(s) - n,
           \A j \in 1 .. Len(s) - n : d[j] = s[n + j],
           CleanText(s), s[n + 1] = Flag
    PROVE  CleanText(d)
<1>1. Len(s) \in Nat /\ Len(d) \in Nat
    BY LenProperties
<1>2. \A i \in 1 .. Len(d) : n + i \in 1 .. Len(s) /\ d[i] = s[n + i]
    BY <1>1
<1>3. \A i \in 1 .. Len(d) : d[i] = Flag \/ d[i] \in (1 .. MaxFrames) \X {1, 2}
    BY <1>2 DEF CleanText
<1>4. d[1] = Flag /\ d[Len(d)] = Flag
  <2>1. 1 \in 1 .. Len(d) /\ Len(d) \in 1 .. Len(d) /\ n + Len(d) = Len(s)
        /\ Len(s) > 0
      BY <1>1
  <2>2. d[1] = s[n + 1] /\ d[Len(d)] = s[Len(s)]
      BY <1>2, <2>1
  <2>3. QED
      BY <2>1, <2>2 DEF CleanText
<1>5. ASSUME Len(d) > 1 PROVE d[Len(d) - 1] # Flag
  <2>1. Len(d) - 1 \in 1 .. Len(d) /\ n + (Len(d) - 1) = Len(s) - 1 /\ Len(s) > 1
      BY <1>1, <1>5
  <2>2. d[Len(d) - 1] = s[Len(s) - 1]
      BY <1>2, <2>1
  <2>3. QED
      BY <2>1, <2>2 DEF CleanText
<1>6. ASSUME NEW i \in 1 .. Len(d) - 2
      PROVE  \E x, y \in i .. i + 2 : d[x] = Flag /\ d[y] # Flag
  <2>1. n + i \in 1 .. Len(s) - 2
      BY <1>1
  <2>2. PICK x, y \in n + i .. n + i + 2 : s[x] = Flag /\ s[y] # Flag
      BY <2>1 DEF CleanText
  <2>3. /\ x - n \in i .. i + 2 /\ x - n \in 1 .. Len(d) /\ n + (x - n) = x
        /\ y - n \in i .. i + 2 /\ y - n \in 1 .. Len(d) /\ n + (y - n) = y
      BY <1>1, <2>1
  <2>4. d[x - n] = s[x] /\ d[y - n] = s[y]
      BY <1>2, <2>3
  <2>5. QED
      BY <2>2, <2>3, <2>4
<1>7. QED
    BY <1>3, <1>4, <1>5, <1>6 DEF CleanText

LEMMA CleanBehindFlag ==
    ASSUME NEW b \in Seq(Octet), NEW r \in Seq(Octet),
           NEW m \in 0 .. Len(b) - 1, b[m + 1] = Flag, CleanText(Joined(b, r))
    PROVE  CleanText(Joined(Drop(b, m), r))
<1>1. Len(b) \in Nat /\ Len(r) \in Nat /\ m \in Nat /\ m \in 0 .. Len(b)
      /\ m + 1 \in 1 .. Len(b)
  <2>1. Len(b) \in Nat /\ Len(r) \in Nat
      BY LenProperties
  <2>2. QED
      BY <2>1
<1> DEFINE s == Joined(b, r)
           d == Joined(Drop(b, m), r)
<1>2. /\ d \in Seq(Octet) /\ Len(d) = Len(s) - m
      /\ \A j \in 1 .. Len(s) - m : d[j] = s[m + j]
    BY <1>1, JoinedBehindCut
<1>3. s \in Seq(Octet) /\ Len(s) = Len(b) + Len(r)
    BY FrontOfJoined
<1>4. \A j \in 1 .. Len(b) : s[j] = b[j]
    BY FrontOfJoined
<1>5. CleanText(s)
    OBVIOUS
<1> HIDE DEF s, d
<1>6. m < Len(s) /\ s[m + 1] = Flag
    BY <1>1, <1>3, <1>4
<1>7. CleanText(d)
    BY <1>1, <1>2, <1>3, <1>5, <1>6, CleanBehindCut
<1>8. QED
    BY <1>7 DEF d

\* What a clean line adds to them: the octets of a frame, with its opening flag
\* or with the one that is there.
LEMMA CleanAndMore ==
    ASSUME NEW t \in Seq(Octet), CleanText(t),
           NEW o \in Seq(Octet), Len(o) >= 3, o[Len(o)] = Flag,
           o[Len(o) - 1] # Flag, o[1] = Flag \/ Len(t) > 0,
           o[1] # Flag \/ o[2] # Flag,
           \A i \in 1 .. Len(o) : o[i] = Flag \/ o[i] \in (1 .. MaxFrames) \X {1, 2},
           \A i \in 1 .. Len(o) - 2 :
              \E x, y \in i .. i + 2 : o[x] = Flag /\ o[y] # Flag
    PROVE  CleanText(Joined(t, o))
<1> DEFINE s == Joined(t, o)
<1>1. s \in Seq(Octet) /\ Len(s) = Len(t) + Len(o)
    BY FrontOfJoined
<1>2. \A j \in 1 .. Len(t) : s[j] = t[j]
    BY FrontOfJoined
<1>3. \A j \in 1 .. Len(o) : s[Len(t) + j] = o[j]
    BY FrontOfJoined
<1> HIDE DEF s
<1>4. Len(t) \in Nat /\ Len(o) \in Nat /\ Len(s) \in Nat
    BY <1>1, LenProperties
<1>5. ASSUME NEW i \in 1 .. Len(s), i > Len(t)
      PROVE  \E j \in 1 .. Len(o) : i = Len(t) + j
  <2>1. i - Len(t) \in 1 .. Len(o) /\ i = Len(t) + (i - Len(t))
      BY <1>1, <1>4, <1>5
  <2>2. QED
      BY <2>1
<1>6. \A i \in 1 .. Len(s) : s[i] = Flag \/ s[i] \in (1 .. MaxFrames) \X {1, 2}
  <2>1. SUFFICES ASSUME NEW i \in 1 .. Len(s)
                 PROVE  s[i] = Flag \/ s[i] \in (1 .. MaxFrames) \X {1, 2}
      OBVIOUS
  <2>2. CASE i <= Len(t)
    <3>1. i \in 1 .. Len(t)
        BY <2>2, <1>4
    <3>2. QED
        BY <1>2, <3>1 DEF CleanText
  <2>3. CASE i > Len(t)
    <3>1. PICK j \in 1 .. Len(o) : i = Len(t) + j
        BY <1>5, <2>3
    <3>2. QED
        BY <1>3, <3>1
  <2>4. QED
      BY <1>4, <2>2, <2>3
<1>7. s[1] = Flag /\ s[Len(s)] = Flag
  <2>1. Len(o) \in 1 .. Len(o) /\ s[Len(t) + Len(o)] = o[Len(o)]
      BY <1>3, <1>4
  <2>2. CASE Len(t) > 0
    <3>1. 1 \in 1 .. Len(t) /\ t[1] = Flag
        BY <1>4, <2>2 DEF CleanText
    <3>2. QED
        BY <1>1, <1>2, <2>1, <3>1
  <2>3. CASE Len(t) = 0
    <3>1. 1 \in 1 .. Len(o) /\ Len(t) + 1 = 1 /\ o[1] = Flag
        BY <1>4, <2>3
    <3>2. s[1] = o[1]
        BY <1>3, <3>1
    <3>3. QED
        BY <1>1, <2>1, <3>1, <3>2
  <2>4. QED
      BY <1>4, <2>2, <2>3
<1>8. s[Len(s) - 1] # Flag
  <2>1. Len(o) - 1 \in 1 .. Len(o) /\ Len(t) + (Len(o) - 1) = Len(s) - 1
      BY <1>1, <1>4
  <2>2. QED
      BY <1>3, <2>1
<1>9. ASSUME NEW i \in 1 .. Len(s) - 2
      PROVE  \E x, y \in i .. i + 2 : s[x] = Flag /\ s[y] # Flag
  <2>1. CASE i + 2 <= Len(t)
    <3>1. i \in 1 .. Len(t) - 2
        BY <1>4, <2>1
    <3>2. PICK x, y \in i .. i + 2 : t[x] = Flag /\ t[y] # Flag
        BY <3>1 DEF CleanText
    <3>3. x \in 1 .. Len(t) /\ y \in 1 .. Len(t)
        BY <1>4, <3>1
    <3>4. s[x] = t[x] /\ s[y] = t[y]
        BY <1>2, <3>3
    <3>5. QED
        BY <3>2, <3>4
  <2>2. CASE i + 1 = Len(t)
    <3>1. Len(t) > 1 /\ Len(t) - 1 = i /\ i \in 1 .. Len(t) /\ i + 1 \in 1 .. Len(t)
        BY <1>4, <2>2
    <3>2. t[i] # Flag /\ t[i + 1] = Flag
      <4>1. t[Len(t) - 1] # Flag /\ t[Len(t)] = Flag
          BY <1>4, <3>1 DEF CleanText
      <4>2. QED
          BY <2>2, <3>1, <4>1
    <3>3. s[i] # Flag /\ s[i + 1] = Flag
        BY <1>2, <3>1, <3>2
    <3>4. i \in i .. i + 2 /\ i + 1 \in i .. i + 2
        BY <1>4
    <3>5. QED
        BY <3>3, <3>4
  <2>3. CASE i = Len(t)
    <3>1. Len(t) \in 1 .. Len(t) /\ t[Len(t)] = Flag
        BY <1>4, <2>3 DEF CleanText
    <3>2. s[i] = Flag
        BY <1>2, <2>3, <3>1
    <3>3. 1 \in 1 .. Len(o) /\ 2 \in 1 .. Len(o)
        BY <1>4
    <3>4. s[i + 1] = o[1] /\ s[i + 2] = o[2]
        BY <1>3, <2>3, <3>3
    <3>5. i \in i .. i + 2 /\ i + 1 \in i .. i + 2 /\ i + 2 \in i .. i + 2
        BY <1>4
    <3>6. QED
        BY <3>2, <3>4, <3>5
  <2>4. CASE i > Len(t)
    <3>1. i \in 1 .. Len(s)
        BY <1>4
    <3>2. PICK j \in 1 .. Len(o) : i = Len(t) + j
        BY <1>5, <2>4, <3>1
    <3>3. j \in 1 .. Len(o) - 2
        BY <1>1, <1>4, <3>2
    <3>4. PICK x, y \in j .. j + 2 : o[x] = Flag /\ o[y] # Flag
        BY <3>3
    <3>5. x \in 1 .. Len(o) /\ y \in 1 .. Len(o)
        BY <1>4, <3>3
    <3>6. s[Len(t) + x] = o[x] /\ s[Len(t) + y] = o[y]
        BY <1>3, <3>5
    <3>7. Len(t) + x \in i .. i + 2 /\ Len(t) + y \in i .. i + 2
        BY <1>4, <3>2, <3>3
    <3>8. QED
        BY <3>4, <3>6, <3>7
  <2>5. i \in Nat
      BY <1>4
  <2>6. i + 2 <= Len(t) \/ i + 1 = Len(t) \/ i = Len(t) \/ i > Len(t)
      BY <1>4, <2>5
  <2>7. QED
      BY <2>1, <2>2, <2>3, <2>4, <2>6, Zenon
<1>10. CleanText(s)
    BY <1>6, <1>7, <1>8, <1>9 DEF CleanText
<1>11. QED
    BY <1>10 DEF s

LEMMA CleanBehindSending ==
    ASSUME TypeOK, SendFrame \/ SendAwkward, CleanText(Joined(buf, line))
    PROVE  CleanText(Joined(buf, line'))
<1> DEFINE t == Joined(buf, line)
<1>1. buf \in Seq(Octet) /\ line \in Seq(Octet) /\ t \in Seq(Octet)
      /\ Len(t) = Len(buf) + Len(line)
    BY FrontOfJoined DEF TypeOK
<1>2. PICK m \in 1 .. MaxFrames : sent' = m
  <2>1. sent' = sent + 1 /\ sent + 1 \in 1 .. MaxFrames
      BY FramingAssumption DEF SendFrame, SendAwkward, TypeOK
  <2>2. QED
      BY <2>1
<1>3. PICK o \in Seq(Octet) :
         /\ line' = Joined(line, o)
         /\ \/ o = <<Flag, <<m, 1>>, <<m, 2>>, Flag>>
            \/ o = <<<<m, 1>>, <<m, 2>>, Flag>> /\ line # <<>>
            \/ o = <<Flag, <<m, 1>>, Flag, <<m, 2>>, Flag>>
  <2>1. m \in 0 .. MaxFrames
      BY FramingAssumption
  <2>2. QED
      BY <1>2, <2>1, PiecesTyped DEF SendFrame, SendAwkward, Put, Joined, Image
<1>4. /\ <<m, 1>> # Flag /\ <<m, 2>> # Flag
      /\ <<m, 1>> \in (1 .. MaxFrames) \X {1, 2}
      /\ <<m, 2>> \in (1 .. MaxFrames) \X {1, 2}
    BY FramingAssumption
<1>5. line # <<>> => Len(t) > 0
  <2>1. Len(buf) \in Nat /\ Len(line) \in Nat /\ (line # <<>> => Len(line) > 0)
      BY <1>1, LenProperties, EmptySeq
  <2>2. QED
      BY <1>1, <2>1
<1> HIDE DEF t
<1>6. /\ Len(o) >= 3 /\ o[Len(o)] = Flag /\ o[Len(o) - 1] # Flag
      /\ o[1] = Flag \/ Len(t) > 0
      /\ o[1] # Flag \/ o[2] # Flag
      /\ \A i \in 1 .. Len(o) : o[i] = Flag \/ o[i] \in (1 .. MaxFrames) \X {1, 2}
      /\ \A i \in 1 .. Len(o) - 2 :
            \E x, y \in i .. i + 2 : o[x] = Flag /\ o[y] # Flag
  <2>1. CASE o = <<Flag, <<m, 1>>, <<m, 2>>, Flag>>
    <3>1. Len(o) = 4 /\ o[1] = Flag /\ o[2] = <<m, 1>> /\ o[3] = <<m, 2>>
          /\ o[4] = Flag
        BY <2>1
    <3>2. \A i \in 1 .. 4 : i = 1 \/ i = 2 \/ i = 3 \/ i = 4
        OBVIOUS
    <3>3. ASSUME NEW i \in 1 .. Len(o) - 2
          PROVE  \E x, y \in i .. i + 2 : o[x] = Flag /\ o[y] # Flag
      <4>1. i = 1 \/ i = 2
          BY <3>1
      <4>2. \A j \in {1, 2} : j \in j .. j + 2 /\ j + 1 \in j .. j + 2 /\ j + 2 \in j .. j + 2
          OBVIOUS
      <4>3. QED
          BY <1>4, <3>1, <4>1, <4>2
    <3>4. QED
        BY <1>4, <3>1, <3>2, <3>3
  <2>2. CASE o = <<<<m, 1>>, <<m, 2>>, Flag>> /\ line # <<>>
    <3>1. Len(o) = 3 /\ o[1] = <<m, 1>> /\ o[2] = <<m, 2>> /\ o[3] = Flag
        BY <2>2
    <3>2. \A i \in 1 .. 3 : i = 1 \/ i = 2 \/ i = 3
        OBVIOUS
    <3>3. ASSUME NEW i \in 1 .. Len(o) - 2
          PROVE  \E x, y \in i .. i + 2 : o[x] = Flag /\ o[y] # Flag
      <4>1. i = 1
          BY <3>1
      <4>2. QED
          BY <1>4, <3>1, <4>1
    <3>4. QED
        BY <1>4, <1>5, <2>2, <3>1, <3>2, <3>3
  <2>3. CASE o = <<Flag, <<m, 1>>, Flag, <<m, 2>>, Flag>>
    <3>1. Len(o) = 5 /\ o[1] = Flag /\ o[2] = <<m, 1>> /\ o[3] = Flag
          /\ o[4] = <<m, 2>> /\ o[5] = Flag
        BY <2>3
    <3>2. \A i \in 1 .. 5 : i = 1 \/ i = 2 \/ i = 3 \/ i = 4 \/ i = 5
        OBVIOUS
    <3>3. ASSUME NEW i \in 1 .. Len(o) - 2
          PROVE  \E x, y \in i .. i + 2 : o[x] = Flag /\ o[y] # Flag
      <4>1. i = 1 \/ i = 2 \/ i = 3
          BY <3>1
      <4>2. \A j \in {1, 2, 3} : j \in j .. j + 2 /\ j + 1 \in j .. j + 2
          OBVIOUS
      <4>3. QED
          BY <1>4, <3>1, <4>1, <4>2
    <3>4. QED
        BY <1>4, <3>1, <3>2, <3>3
  <2>4. QED
      BY <1>3, <2>1, <2>2, <2>3
<1>7. CleanText(t)
    BY DEF t
<1>8. CleanText(Joined(t, o))
    BY <1>1, <1>6, <1>7, CleanAndMore
<1>9. \A x, y, z \in Seq(Octet) : Joined(Joined(x, y), z) = Joined(x, Joined(y, z))
    BY ConcatAssociative DEF Joined
<1>10. Joined(t, o) = Joined(buf, Joined(line, o))
    BY <1>1, <1>9 DEF t
<1>11. QED
    BY <1>3, <1>8, <1>10, Zenon

\* A read of the listener finds a frame, or leaves everything as it is.
LEMMA CleanBehindRead ==
    ASSUME TypeOK, NEW n \in 1 .. Len(line), Listen(n),
           CleanText(Joined(buf, line))
    PROVE  CleanText(Joined(buf', line'))
<1> DEFINE b == Filled(n)
           r == Drop(line, n)
<1>1. b \in Seq(Octet) /\ r \in Seq(Octet) /\ line' = r
  <2>1. n \in 0 .. Len(line)
      BY LenProperties DEF TypeOK
  <2>2. QED
      BY <2>1, FilledTyped DEF Listen
<1>2. CleanText(Joined(b, r))
    BY ReadKeepsJoined
<1>3. \/ Found(b) /\ buf' = Drop(b, End(b) - 1)
      \/ Telegrams(b) # {}
      \/ ~ Found(b) /\ buf' = Cleared(b)
    BY DEF Listen, Filled, Removed
<1> HIDE DEF b, r
<1>4. CASE Found(b) /\ buf' = Drop(b, End(b) - 1)
  <2>1. PICK e \in 1 .. Len(b) : e = End(b) /\ b[e] = Flag
      BY <1>1, <1>4, FrameFound
  <2>2. Len(b) \in Nat
      BY <1>1, LenProperties
  <2>3. e - 1 \in 0 .. Len(b) - 1 /\ e - 1 + 1 = e
      BY <2>2
  <2>4. CleanText(Joined(Drop(b, e - 1), r))
      BY <1>1, <1>2, <2>1, <2>3, CleanBehindFlag
  <2>5. QED
      BY <1>1, <1>4, <2>1, <2>4
<1>5. Telegrams(b) = {}
    BY <1>1, <1>2, CleanHolds
<1>6. CASE ~ Found(b) /\ buf' = Cleared(b)
  <2>1. Len(b) # BufSize
      BY <1>1, <1>2, <1>6, CleanFull, FramingAssumption
  <2>2. buf' = b
      BY <1>6, <2>1 DEF Cleared
  <2>3. QED
      BY <1>1, <1>2, <2>2
<1>7. QED
    BY <1>3, <1>4, <1>5, <1>6

LEMMA CleanInit == Init => CleanInv
<1> SUFFICES ASSUME Init PROVE CleanInv
    OBVIOUS
<1>1. Joined(buf, line) = <<>>
    BY EmptySeq, ConcatEmptySeq DEF Init, Joined
<1>2. QED
    BY <1>1, EmptyIsClean DEF CleanInv, Init

LEMMA CleanKept == TypeOK /\ BufferInv /\ CleanInv /\ [Next]_vars => CleanInv'
<1> SUFFICES ASSUME TypeOK, BufferInv, CleanInv, [Next]_vars,
                    loop' = "listen", faults' = MaxFaults
             PROVE  /\ CleanText(Joined(buf', line'))
                    /\ \A k \in intact' : InReach(k)'
    BY DEF CleanInv
<1>1. loop = "listen"
    BY DEF Next, Reads, Listen, WaitReads, TextLine, WaitBegins, WaitTimesOut,
           SendFrame, SendAwkward, SendOther, OctetLost, vars, task
<1>2. faults = MaxFaults
  <2>1. faults <= MaxFaults /\ faults \in Nat /\ MaxFaults \in Nat
      BY FramingAssumption DEF TypeOK
  <2>2. faults' = faults \/ faults' = faults - 1
      BY DEF Next, Reads, Listen, WaitReads, TextLine, WaitBegins, WaitTimesOut,
             SendFrame, SendAwkward, SendOther, OctetLost, vars, wire
  <2>3. QED
      BY <2>1, <2>2
<1>3. CleanText(Joined(buf, line)) /\ \A k \in intact : InReach(k)
    BY <1>1, <1>2 DEF CleanInv
<1>4. buf \in Seq(Octet) /\ line \in Seq(Octet)
    BY DEF TypeOK
<1>5. \A n \in 1 .. Len(line) : ~ WaitReads(n)
    BY <1>1 DEF WaitReads, BufferInv, Modes
<1>6. ASSUME NEW n \in 1 .. Len(line), Listen(n)
      PROVE  /\ CleanText(Joined(buf', line'))
             /\ \A k \in intact' : InReach(k)'
  <2>1. CleanText(Joined(buf', line'))
      BY <1>3, <1>6, CleanBehindRead
  <2>2. n \in 0 .. Len(line)
      BY <1>4, LenProperties
  <2>3. Filled(n) \in Seq(Octet) /\ line' \in Seq(Octet)
      BY <1>6, <2>2, FilledTyped DEF Listen
  <2>4. CleanText(Joined(Filled(n), line'))
      BY <1>3, <1>6, ReadKeepsJoined DEF Listen
  <2>5. ~ (~ Found(Filled(n)) /\ Len(Filled(n)) = BufSize)
      BY <2>3, <2>4, CleanFull, FramingAssumption
  <2>6. \A k \in intact : InReach(k)'
      BY <1>3, <1>6, <2>5, LostByRead
  <2>7. intact' = intact
      BY <1>6 DEF Listen
  <2>8. QED
      BY <2>1, <2>6, <2>7
<1>7. ~ TextLine
  <2>1. buf # <<>> => Head(buf) = Flag
      BY <1>3, <1>4, CleanHolds
  <2>2. QED
      BY <2>1, FramingAssumption DEF TextLine
<1>8. ~ SendOther /\ ~ OctetLost
    BY <1>2, FramingAssumption DEF SendOther, OctetLost
<1>9. ~ WaitBegins /\ ~ WaitTimesOut
    BY <1>1 DEF WaitBegins, WaitTimesOut, BufferInv, Modes
<1>10. CASE SendFrame \/ SendAwkward
  <2>1. CleanText(Joined(buf', line'))
    <3>1. CleanText(Joined(buf, line')) /\ buf' = buf
        BY <1>3, <1>10, CleanBehindSending DEF SendFrame, SendAwkward, task
    <3>2. QED
        BY <3>1
  <2>2. \A k \in intact : k \in intact'
      BY <1>10 DEF SendFrame, SendAwkward
  <2>3. \A k \in intact : InReach(k)'
      BY <1>1, <1>3, <1>10, <2>2, NothingElseLost
  <2>4. ASSUME NEW k \in intact', k \notin intact
        PROVE  InReach(k)'
    <3>1. SendFrame /\ k = sent'
        BY <1>10, <2>4 DEF SendFrame, SendAwkward
    <3>2. sent' \in 0 .. MaxFrames
        BY <1>10, SendTyped
    <3>3. \/ line' = Joined(line, Image(k))
          \/ line # <<>> /\ Last(line) = Flag /\ line' = Joined(line, Tail(Image(k)))
        BY <3>1 DEF SendFrame, Put, Joined
    <3>4. k \in 0 .. MaxFrames
        BY <3>1, <3>2
    <3>5. /\ Whole(k, Joined(line, Image(k)))
          /\ line # <<>> /\ Last(line) = Flag => Whole(k, Joined(line, Tail(Image(k))))
        BY <1>4, <3>4, SentWhole
    <3>6. Whole(k, line')
        BY <3>3, <3>5, Zenon
    <3>7. line' \in Seq(Octet)
        BY <1>10, <1>4, SendTyped, ConcatProperties
    <3>8. Whole(k, Joined(buf, line')) /\ buf' = buf
        BY <1>4, <3>1, <3>6, <3>7, WholeInJoined DEF SendFrame, task
    <3>9. QED
        BY <3>8, InReachIs
  <2>5. QED
      BY <2>1, <2>3, <2>4
<1>11. CASE UNCHANGED vars
    BY <1>3, <1>11 DEF vars, task, wire, InReach
<1>12. QED
    BY <1>5, <1>6, <1>7, <1>8, <1>9, <1>10, <1>11 DEF Next, Reads

\* While the meter's line brings nothing but frames, the listener loses none
\* that does not hold the value of a flag, however they are cut into reads.
THEOREM CleanLineLosesNoneHolds == Spec => []CleanLineLosesNone
<1>1. Init => TypeOK /\ BufferInv /\ CleanInv
    BY FramingInitTyped, BufferInit, CleanInit
<1>2. TypeOK /\ BufferInv /\ CleanInv /\ [Next]_vars
        => (TypeOK /\ BufferInv /\ CleanInv)'
    BY FramingStepTyped, BufferKept, CleanKept
<1>3. CleanInv => CleanLineLosesNone
    BY DEF CleanInv, CleanLineLosesNone
<1>4. QED
    BY <1>1, <1>2, <1>3, PTL DEF Spec

-----------------------------------------------------------------------------
(* Frames in their turn                                                    *)

Has(s, x) == \E i \in 1 .. Len(s) : s[i] = x

\* x stands somewhere before y.
Follows(s, x, y) == \E i, j \in 1 .. Len(s) : i < j /\ s[i] = x /\ s[j] = y

\* t is what is left of s when octets are taken out, and in the same order.
Thinner(t, s) ==
    /\ \A x : Has(t, x) => Has(s, x)
    /\ \A x, y : Follows(t, x, y) => Follows(s, x, y)

LEMMA NothingHad == \A x, y : ~ Has(<<>>, x) /\ ~ Follows(<<>>, x, y)
<1>1. Len(<<>>) = 0
    OBVIOUS
<1>2. QED
    BY <1>1 DEF Has, Follows

LEMMA HasJoined ==
    ASSUME NEW S, NEW b \in Seq(S), NEW r \in Seq(S), NEW x
    PROVE  Has(Joined(b, r), x) <=> Has(b, x) \/ Has(r, x)
<1> DEFINE s == Joined(b, r)
<1>1. Len(b) \in Nat /\ Len(r) \in Nat
    BY LenProperties
<1>2. Len(s) = Len(b) + Len(r)
    BY FrontOfJoined
<1>3. \A j \in 1 .. Len(b) : s[j] = b[j]
    BY FrontOfJoined
<1>4. \A j \in 1 .. Len(r) : s[Len(b) + j] = r[j]
    BY FrontOfJoined
<1> HIDE DEF s
<1>5. ASSUME Has(s, x) PROVE Has(b, x) \/ Has(r, x)
  <2>1. PICK i \in 1 .. Len(s) : s[i] = x
      BY <1>5 DEF Has
  <2>2. CASE i <= Len(b)
      BY <1>1, <1>3, <2>1, <2>2 DEF Has
  <2>3. CASE i > Len(b)
    <3>1. i - Len(b) \in 1 .. Len(r) /\ Len(b) + (i - Len(b)) = i
        BY <1>1, <1>2, <2>3
    <3>2. QED
        BY <1>4, <2>1, <3>1 DEF Has
  <2>4. QED
      BY <1>1, <2>2, <2>3
<1>6. ASSUME Has(b, x) PROVE Has(s, x)
    BY <1>1, <1>2, <1>3, <1>6 DEF Has
<1>7. ASSUME Has(r, x) PROVE Has(s, x)
  <2>1. PICK j \in 1 .. Len(r) : r[j] = x
      BY <1>7 DEF Has
  <2>2. Len(b) + j \in 1 .. Len(s) /\ s[Len(b) + j] = x
      BY <1>1, <1>2, <1>4, <2>1
  <2>3. QED
      BY <2>2 DEF Has
<1>8. QED
    BY <1>5, <1>6, <1>7 DEF s

LEMMA FollowsJoined ==
    ASSUME NEW S, NEW b \in Seq(S), NEW r \in Seq(S), NEW x, NEW y
    PROVE  Follows(Joined(b, r), x, y)
             <=> Follows(b, x, y) \/ Follows(r, x, y) \/ (Has(b, x) /\ Has(r, y))
<1> DEFINE s == Joined(b, r)
<1>1. Len(b) \in Nat /\ Len(r) \in Nat
    BY LenProperties
<1>2. Len(s) = Len(b) + Len(r)
    BY FrontOfJoined
<1>3. \A j \in 1 .. Len(b) : s[j] = b[j]
    BY FrontOfJoined
<1>4. \A j \in 1 .. Len(r) : s[Len(b) + j] = r[j]
    BY FrontOfJoined
<1> HIDE DEF s
<1>5. ASSUME Follows(s, x, y)
      PROVE  Follows(b, x, y) \/ Follows(r, x, y) \/ (Has(b, x) /\ Has(r, y))
  <2>1. PICK i, j \in 1 .. Len(s) : i < j /\ s[i] = x /\ s[j] = y
      BY <1>5 DEF Follows
  <2>2. CASE j <= Len(b)
    <3>1. i \in 1 .. Len(b) /\ j \in 1 .. Len(b)
        BY <1>1, <2>1, <2>2
    <3>2. QED
        BY <1>3, <2>1, <3>1 DEF Follows
  <2>3. CASE j > Len(b)
    <3>1. PICK m \in 1 .. Len(r) : j = Len(b) + m /\ r[m] = y
      <4>1. j - Len(b) \in 1 .. Len(r) /\ Len(b) + (j - Len(b)) = j
          BY <1>1, <1>2, <2>3
      <4>2. QED
          BY <1>4, <2>1, <4>1
    <3>2. CASE i <= Len(b)
        BY <1>1, <1>3, <2>1, <3>1, <3>2 DEF Has
    <3>3. CASE i > Len(b)
      <4>1. /\ i - Len(b) \in 1 .. Len(r) /\ Len(b) + (i - Len(b)) = i
            /\ i - Len(b) < m
          BY <1>1, <1>2, <2>1, <3>1, <3>3
      <4>2. QED
          BY <1>4, <2>1, <3>1, <4>1 DEF Follows
    <3>4. QED
        BY <1>1, <3>2, <3>3
  <2>4. QED
      BY <1>1, <2>2, <2>3
<1>6. ASSUME Follows(b, x, y) PROVE Follows(s, x, y)
    BY <1>1, <1>2, <1>3, <1>6 DEF Follows
<1>7. ASSUME Follows(r, x, y) PROVE Follows(s, x, y)
  <2>1. PICK i, j \in 1 .. Len(r) : i < j /\ r[i] = x /\ r[j] = y
      BY <1>7 DEF Follows
  <2>2. /\ Len(b) + i \in 1 .. Len(s) /\ Len(b) + j \in 1 .. Len(s)
        /\ Len(b) + i < Len(b) + j
        /\ s[Len(b) + i] = x /\ s[Len(b) + j] = y
      BY <1>1, <1>2, <1>4, <2>1
  <2>3. QED
      BY <2>2 DEF Follows
<1>8. ASSUME Has(b, x), Has(r, y) PROVE Follows(s, x, y)
  <2>1. PICK i \in 1 .. Len(b) : b[i] = x
      BY <1>8 DEF Has
  <2>2. PICK j \in 1 .. Len(r) : r[j] = y
      BY <1>8 DEF Has
  <2>3. /\ i \in 1 .. Len(s) /\ Len(b) + j \in 1 .. Len(s)
        /\ i < Len(b) + j /\ s[i] = x /\ s[Len(b) + j] = y
      BY <1>1, <1>2, <1>3, <1>4, <2>1, <2>2
  <2>4. QED
      BY <2>3 DEF Follows
<1>9. QED
    BY <1>5, <1>6, <1>7, <1>8 DEF s

\* Taking octets out of one of two sequences takes them out of both together.
LEMMA ThinnerJoined ==
    ASSUME NEW S, NEW b \in Seq(S), NEW c \in Seq(S), NEW r \in Seq(S),
           NEW q \in Seq(S), Thinner(c, b), Thinner(q, r)
    PROVE  Thinner(Joined(c, q), Joined(b, r))
<1>1. \A x : Has(Joined(b, r), x) <=> Has(b, x) \/ Has(r, x)
    BY HasJoined
<1>2. \A x : Has(Joined(c, q), x) <=> Has(c, x) \/ Has(q, x)
    BY HasJoined
<1>3. \A x, y : Follows(Joined(b, r), x, y)
             <=> Follows(b, x, y) \/ Follows(r, x, y) \/ (Has(b, x) /\ Has(r, y))
    BY FollowsJoined
<1>4. \A x, y : Follows(Joined(c, q), x, y)
             <=> Follows(c, x, y) \/ Follows(q, x, y) \/ (Has(c, x) /\ Has(q, y))
    BY FollowsJoined
<1>5. QED
    BY <1>1, <1>2, <1>3, <1>4, Zenon DEF Thinner

\* Each of two sequences alone is thinner than both together.
LEMMA PartThinner ==
    ASSUME NEW S, NEW b \in Seq(S), NEW r \in Seq(S)
    PROVE  Thinner(b, Joined(b, r)) /\ Thinner(r, Joined(b, r))
<1>1. \A x : Has(Joined(b, r), x) <=> Has(b, x) \/ Has(r, x)
    BY HasJoined
<1>2. \A x, y : Follows(Joined(b, r), x, y)
             <=> Follows(b, x, y) \/ Follows(r, x, y) \/ (Has(b, x) /\ Has(r, y))
    BY FollowsJoined
<1>3. QED
    BY <1>1, <1>2, Zenon DEF Thinner

LEMMA ThinnerBehindCut ==
    ASSUME NEW S, NEW s \in Seq(S), NEW n \in 0 .. Len(s)
    PROVE  /\ Thinner(Drop(s, n), s)
           /\ \A i \in 1 .. n : \A y : Has(Drop(s, n), y) => Follows(s, s[i], y)
<1>1. Len(s) \in Nat /\ n \in Nat /\ n <= Len(s)
    BY LenProperties
<1>2. PICK d \in Seq(S) : /\ d = Drop(s, n) /\ Len(d) = Len(s) - n
                          /\ \A i \in 1 .. Len(s) - n : d[i] = s[n + i]
    BY DropProperties
<1>3. \A x : Has(d, x) => Has(s, x)
  <2>1. \A i \in 1 .. Len(s) - n : n + i \in 1 .. Len(s)
      BY <1>1
  <2>2. QED
      BY <1>2, <2>1 DEF Has
<1>4. \A x, y : Follows(d, x, y) => Follows(s, x, y)
  <2>1. \A i, j \in 1 .. Len(s) - n :
           i < j => n + i \in 1 .. Len(s) /\ n + j \in 1 .. Len(s) /\ n + i < n + j
      BY <1>1
  <2>2. SUFFICES ASSUME NEW x, NEW y, Follows(d, x, y) PROVE Follows(s, x, y)
      OBVIOUS
  <2>3. PICK i, j \in 1 .. Len(s) - n : i < j /\ d[i] = x /\ d[j] = y
      BY <1>2, <2>2 DEF Follows
  <2>4. s[n + i] = x /\ s[n + j] = y
      BY <1>2, <2>3
  <2>5. QED
      BY <2>1, <2>3, <2>4 DEF Follows
<1>5. ASSUME NEW i \in 1 .. n, NEW y, Has(d, y) PROVE Follows(s, s[i], y)
  <2>1. PICK j \in 1 .. Len(s) - n : d[j] = y
      BY <1>2, <1>5 DEF Has
  <2>2. /\ i \in 1 .. Len(s) /\ n + j \in 1 .. Len(s) /\ i < n + j
        /\ s[n + j] = y
      BY <1>1, <1>2, <2>1
  <2>3. QED
      BY <2>2 DEF Follows
<1>6. QED
    BY <1>2, <1>3, <1>4, <1>5 DEF Thinner

LEMMA ThinnerFront ==
    ASSUME NEW S, NEW s \in Seq(S), NEW n \in 0 .. Len(s)
    PROVE  Thinner(SubSeq(s, 1, n), s)
<1>1. Len(s) \in Nat /\ n \in Nat /\ n <= Len(s)
    BY LenProperties
<1>2. PICK f \in Seq(S) : /\ f = SubSeq(s, 1, n) /\ Len(f) = n
                          /\ \A i \in 1 .. n : f[i] = s[i]
    BY FirstOctets
<1>3. \A i \in 1 .. n : i \in 1 .. Len(s)
    BY <1>1
<1>4. QED
    BY <1>2, <1>3 DEF Thinner, Has, Follows

\* Octets that are read and do not fit are lost; those that fit and those not
\* yet read keep their order.
LEMMA ThinnerRead ==
    ASSUME NEW S, NEW s \in Seq(S), NEW n \in 0 .. Len(s), NEW m \in 0 .. Len(s),
           m <= n
    PROVE  Thinner(Joined(SubSeq(s, 1, m), Drop(s, n)), s)
<1>1. SubSeq(s, 1, m) \in Seq(S) /\ Drop(s, n) \in Seq(S)
    BY FirstOctets, DropProperties
<1> DEFINE f == SubSeq(s, 1, m)
           d == Drop(s, n)
<1>2. Thinner(f, s) /\ Thinner(d, s)
    BY ThinnerFront, ThinnerBehindCut
<1>3. ASSUME NEW x, NEW y, Has(f, x), Has(d, y)
      PROVE  Follows(s, x, y)
  <2>1. PICK i \in 1 .. m : s[i] = x
    <3>1. Len(f) = m /\ \A i \in 1 .. m : f[i] = s[i]
        BY FirstOctets
    <3>2. QED
        BY <1>3, <3>1 DEF Has
  <2>2. i \in 1 .. n
      BY LenProperties
  <2>3. Follows(s, s[i], y)
      BY <1>3, <2>2, ThinnerBehindCut
  <2>4. QED
      BY <2>1, <2>3
<1> HIDE DEF f, d
<1>4. f \in Seq(S) /\ d \in Seq(S)
    BY <1>1 DEF f, d
<1>5. \A x : Has(Joined(f, d), x) <=> Has(f, x) \/ Has(d, x)
    BY <1>4, HasJoined
<1>6. \A x, y : Follows(Joined(f, d), x, y)
             <=> Follows(f, x, y) \/ Follows(d, x, y) \/ (Has(f, x) /\ Has(d, y))
    BY <1>4, FollowsJoined
<1>7. Thinner(Joined(f, d), s)
    BY <1>2, <1>3, <1>5, <1>6, Zenon DEF Thinner
<1>8. QED
    BY <1>7 DEF f, d

LEMMA ThinnerWithout ==
    ASSUME NEW S, NEW s \in Seq(S), NEW i \in 1 .. Len(s)
    PROVE  Thinner(RemoveAt(s, i), s)
<1>1. PICK d \in Seq(S) :
         /\ d = RemoveAt(s, i) /\ Len(d) = Len(s) - 1
         /\ \A j \in 1 .. Len(s) - 1 : d[j] = IF j < i THEN s[j] ELSE s[j + 1]
    BY RemoveAtProperties
<1> DEFINE M(j) == IF j < i THEN j ELSE j + 1
<1>2. Len(s) \in Nat
    BY LenProperties
<1>3. /\ \A j \in 1 .. Len(s) - 1 : M(j) \in 1 .. Len(s)
      /\ \A h, j \in 1 .. Len(s) - 1 : h < j => M(h) < M(j)
    BY <1>2
<1>4. \A j \in 1 .. Len(s) - 1 : d[j] = s[M(j)]
    BY <1>1
<1> HIDE DEF M
<1>5. Len(d) = Len(s) - 1
    BY <1>1
<1>6. \A x : Has(d, x) => Has(s, x)
    BY <1>3, <1>4, <1>5 DEF Has
<1>7. ASSUME NEW x, NEW y, Follows(d, x, y) PROVE Follows(s, x, y)
  <2>1. PICK h, j \in 1 .. Len(s) - 1 : h < j /\ d[h] = x /\ d[j] = y
      BY <1>5, <1>7 DEF Follows
  <2>2. s[M(h)] = x /\ s[M(j)] = y
      BY <1>4, <2>1
  <2>3. QED
      BY <1>3, <2>1, <2>2 DEF Follows
<1>8. QED
    BY <1>1, <1>6, <1>7 DEF Thinner


\* The octets that have yet to be looked at.  What wait_for_frame left behind
\* is emptied before it looks again.
Kept == IF loop = "wait" /\ ~ waiting THEN <<>> ELSE buf
Rest == Joined(Kept, line)

\* The frames' octets come in the order they were sent in ...
Ascending(s) ==
    \A k, l \in 1 .. MaxFrames : \A a, c \in {1, 2} :
        Follows(s, <<k, a>>, <<l, c>>) => k < l \/ (k = l /\ a < c)

\* ... and behind all that has been handed on.
Ahead(s) ==
    \A k \in 1 .. MaxFrames : \A a \in {1, 2} :
        Has(s, <<k, a>>) =>
            k <= sent /\ \A d \in DOMAIN delivered : delivered[d] < k

OrderInv ==
    /\ InOrder /\ Ascending(Rest) /\ Ahead(Rest)
    /\ \A d \in DOMAIN delivered : delivered[d] <= sent

LEMMA KeptTyped ==
    ASSUME TypeOK
    PROVE  Kept \in Seq(Octet) /\ Rest \in Seq(Octet)
<1>1. Kept \in Seq(Octet)
    BY EmptySeq DEF TypeOK, Kept
<1>2. QED
    BY <1>1, FrontOfJoined DEF TypeOK, Rest

LEMMA OrderOfThinner ==
    ASSUME NEW s, NEW t, Thinner(t, s)
    PROVE  (Ascending(s) => Ascending(t)) /\ (Ahead(s) => Ahead(t))
BY DEF Thinner, Ascending, Ahead

LEMMA OrderInit == Init => OrderInv
<1> SUFFICES ASSUME Init PROVE OrderInv
    OBVIOUS
<1>1. Rest = <<>>
    BY ConcatEmptySeq, EmptySeq DEF Init, Rest, Kept, Joined
<1>2. DOMAIN delivered = {}
    BY DEF Init
<1>3. QED
    BY <1>1, <1>2, NothingHad DEF OrderInv, InOrder, Ascending, Ahead

\* A step that hands nothing on and sends nothing.
LEMMA OrderOfLess ==
    ASSUME OrderInv, delivered' = delivered, sent' = sent, Thinner(Rest', Rest)
    PROVE  OrderInv'
<1>1. Ascending(Rest') /\ Ahead(Rest')
    BY OrderOfThinner DEF OrderInv
<1>2. Ascending(Rest)' /\ Ahead(Rest)'
    BY <1>1 DEF Ascending, Ahead
<1>3. QED
    BY <1>2 DEF OrderInv, InOrder

\* A step that hands on a frame of which nothing is left.
LEMMA OrderOfHanded ==
    ASSUME TypeOK, OrderInv, NEW k \in 1 .. MaxFrames, sent' = sent,
           delivered' = Append(delivered, k), Thinner(Rest', Rest),
           Has(Rest, <<k, 1>>),
           \A y : Has(Rest', y) => Follows(Rest, <<k, 2>>, y)
    PROVE  OrderInv'
<1>1. Ascending(Rest') /\ Ahead(Rest')
    BY OrderOfThinner DEF OrderInv
<1>2. k <= sent /\ \A d \in DOMAIN delivered : delivered[d] < k
    BY DEF OrderInv, Ahead
<1>3. delivered \in Seq(1 .. MaxFrames) /\ sent \in 0 .. MaxFrames
    BY DEF TypeOK
<1>4. Len(delivered) \in Nat /\ DOMAIN delivered = 1 .. Len(delivered)
    BY <1>3, LenProperties
<1> DEFINE e == Append(delivered, k)
<1>5. /\ e \in Seq(1 .. MaxFrames) /\ Len(e) = Len(delivered) + 1
      /\ \A i \in 1 .. Len(delivered) : e[i] = delivered[i]
      /\ e[Len(delivered) + 1] = k
    BY <1>3, AppendProperties
<1> HIDE DEF e
<1>6. DOMAIN e = 1 .. Len(delivered) + 1
    BY <1>5, LenProperties
<1>7. \A d \in DOMAIN e : d \in DOMAIN delivered \/ d = Len(delivered) + 1
    BY <1>4, <1>6
<1>8. \A d \in DOMAIN e : e[d] <= sent
    BY <1>2, <1>4, <1>5, <1>7 DEF OrderInv
<1>9. \A i, j \in DOMAIN e : i < j => e[i] < e[j]
  <2>1. SUFFICES ASSUME NEW i \in DOMAIN e, NEW j \in DOMAIN e, i < j
                 PROVE  e[i] < e[j]
      OBVIOUS
  <2>2. i \in DOMAIN delivered
      BY <1>4, <1>6, <2>1
  <2>3. CASE j \in DOMAIN delivered
      BY <1>4, <1>5, <2>1, <2>2, <2>3 DEF OrderInv, InOrder
  <2>4. CASE j = Len(delivered) + 1
      BY <1>2, <1>4, <1>5, <2>2, <2>4
  <2>5. QED
      BY <1>7, <2>3, <2>4
<1>10. ASSUME NEW l \in 1 .. MaxFrames, NEW c \in {1, 2}, Has(Rest', <<l, c>>)
       PROVE  l <= sent /\ \A d \in DOMAIN e : e[d] < l
  <2>1. l <= sent /\ \A d \in DOMAIN delivered : delivered[d] < l
      BY <1>1, <1>10 DEF Ahead
  <2>2. Follows(Rest, <<k, 2>>, <<l, c>>)
      BY <1>10
  <2>3. k < l
    <3>1. 2 \in {1, 2} /\ \A a \in {1, 2} : ~ (2 < a)
        OBVIOUS
    <3>2. Ascending(Rest)
        BY DEF OrderInv
    <3>3. k < l \/ (k = l /\ 2 < c)
        BY <2>2, <3>1, <3>2, Zenon DEF Ascending
    <3>4. QED
        BY <3>1, <3>3
  <2>4. ASSUME NEW d \in DOMAIN e PROVE e[d] < l
    <3>1. CASE d \in DOMAIN delivered
        BY <1>4, <1>5, <2>1, <3>1
    <3>2. CASE d = Len(delivered) + 1
        BY <1>5, <2>3, <3>2
    <3>3. QED
        BY <1>7, <3>1, <3>2
  <2>5. QED
      BY <2>1, <2>4
<1>11. delivered' = e
    BY DEF e
<1>12. Ascending(Rest)'
    BY <1>1 DEF Ascending
<1>13. Ahead(Rest)'
    BY <1>10, <1>11 DEF Ahead
<1>14. QED
    BY <1>8, <1>9, <1>11, <1>12, <1>13 DEF OrderInv, InOrder

LEMMA FrameHad ==
    ASSUME NEW b \in Seq(Octet), NEW k, NEW i \in 1 .. Len(b), ImageAt(k, b, i)
    PROVE  Has(b, <<k, 1>>) /\ Has(b, <<k, 2>>)
<1>1. i + 1 \in 1 .. Len(b) /\ i + 2 \in 1 .. Len(b)
    BY LenProperties DEF ImageAt
<1>2. QED
    BY <1>1 DEF ImageAt, Has

LEMMA OrderOfListen ==
    ASSUME TypeOK, BufferInv, OrderInv, NEW n \in 1 .. Len(line), Listen(n)
    PROVE  OrderInv'
<1> DEFINE b == Filled(n)
           r == Drop(line, n)
<1>1. b \in Seq(Octet) /\ r \in Seq(Octet) /\ line' = r
  <2>1. n \in 0 .. Len(line)
      BY LenProperties DEF TypeOK
  <2>2. QED
      BY <2>1, FilledTyped DEF Listen
<1>2. Rest = Joined(b, r) /\ Rest' = Joined(buf', r)
  <2>1. Kept = buf /\ Kept' = buf'
      BY DEF Listen, Kept
  <2>2. Joined(b, r) = Joined(buf, line)
      BY ReadKeepsJoined
  <2>3. QED
      BY <1>1, <2>1, <2>2, Zenon DEF Rest
<1>3. \/ /\ Found(b) /\ delivered' = Handed(Parsed(b))
         /\ buf' = Drop(b, End(b) - 1)
      \/ /\ Telegrams(b) # {} /\ buf' = Drop(b, FirstTelegram(b) - 1)
         /\ delivered' = delivered
      \/ (buf' = b \/ buf' = <<>>) /\ delivered' = delivered
    BY DEF Listen, Filled, Removed, FirstTelegram, Cleared
<1>4. sent' = sent
    BY DEF Listen
<1> HIDE DEF b, r
<1>5. Thinner(r, r) /\ Thinner(b, b) /\ Thinner(<<>>, b) /\ <<>> \in Seq(Octet)
    BY NothingHad, EmptySeq DEF Thinner
<1>6. ASSUME NEW c \in Seq(Octet), Thinner(c, b), buf' = c
      PROVE  Thinner(Rest', Rest)
  <2>1. Thinner(Joined(c, r), Joined(b, r))
      BY <1>1, <1>5, <1>6, ThinnerJoined
  <2>2. QED
      BY <1>2, <1>6, <2>1, Zenon
<1>7. CASE /\ Found(b) /\ delivered' = Handed(Parsed(b))
           /\ buf' = Drop(b, End(b) - 1)
  <2>1. PICK p, e \in 1 .. Len(b) : p = Start(b) /\ e = End(b) /\ p + 1 < e
      BY <1>1, <1>7, FrameFound
  <2>2. e - 1 \in 0 .. Len(b)
      BY LenProperties, <1>1, <2>1
  <2>3. PICK d \in Seq(Octet) : d = Drop(b, e - 1)
      BY <1>1, <2>2, DropProperties
  <2>4. /\ Thinner(d, b)
        /\ \A i \in 1 .. e - 1 : \A y : Has(d, y) => Follows(b, b[i], y)
      BY <1>1, <2>2, <2>3, ThinnerBehindCut
  <2>5. buf' = d
      BY <1>7, <2>1, <2>3
  <2>6. Thinner(Rest', Rest)
      BY <1>6, <2>4, <2>5
  <2>7. CASE delivered' = delivered
      BY <1>4, <2>6, <2>7, OrderOfLess
  <2>8. ASSUME NEW k \in 1 .. MaxFrames, delivered' = Append(delivered, k),
               e = p + 3, ImageAt(k, b, p)
        PROVE  OrderInv'
    <3>1. Has(b, <<k, 1>>) /\ Has(b, <<k, 2>>)
        BY <1>1, <2>8, FrameHad
    <3>2. \A x : Has(Joined(b, r), x) <=> Has(b, x) \/ Has(r, x)
        BY <1>1, HasJoined
    <3>3. \A y : Has(Joined(d, r), y) <=> Has(d, y) \/ Has(r, y)
        BY <1>1, HasJoined
    <3>4. \A x, y : Follows(Joined(b, r), x, y)
             <=> Follows(b, x, y) \/ Follows(r, x, y) \/ (Has(b, x) /\ Has(r, y))
        BY <1>1, FollowsJoined
    <3>5. p + 2 \in 1 .. e - 1 /\ b[p + 2] = <<k, 2>>
      <4>1. p \in Nat /\ 1 <= p
          BY <2>1
      <4>2. QED
          BY <2>8, <4>1 DEF ImageAt
    <3>6. \A y : Has(d, y) => Follows(b, <<k, 2>>, y)
        BY <2>4, <3>5
    <3>7. Has(Joined(b, r), <<k, 1>>)
        BY <3>1, <3>2
    <3>8. \A y : Has(Joined(d, r), y) => Follows(Joined(b, r), <<k, 2>>, y)
        BY <3>1, <3>3, <3>4, <3>6, Zenon
    <3>9. Has(Rest, <<k, 1>>)
        BY <1>2, <3>7, Zenon
    <3>10. \A y : Has(Rest', y) => Follows(Rest, <<k, 2>>, y)
        BY <1>2, <2>5, <3>8, Zenon
    <3>11. QED
        BY <1>4, <2>6, <2>8, <3>9, <3>10, OrderOfHanded
  <2>9. QED
      BY <1>1, <1>7, <2>1, <2>7, <2>8, HandedOn
<1>8. CASE /\ Telegrams(b) # {} /\ buf' = Drop(b, FirstTelegram(b) - 1)
           /\ delivered' = delivered
  <2>1. PICK t \in 2 .. Len(b) : t = FirstTelegram(b)
      BY <1>1, <1>8, TelegramFound
  <2>2. t - 1 \in 0 .. Len(b)
      BY LenProperties, <1>1, <2>1
  <2>3. PICK d \in Seq(Octet) : d = Drop(b, t - 1) /\ Thinner(d, b)
      BY <1>1, <2>2, DropProperties, ThinnerBehindCut
  <2>4. Thinner(Rest', Rest)
      BY <1>6, <1>8, <2>1, <2>3
  <2>5. QED
      BY <1>4, <1>8, <2>4, OrderOfLess
<1>9. CASE (buf' = b \/ buf' = <<>>) /\ delivered' = delivered
  <2>1. Thinner(Rest', Rest)
      BY <1>1, <1>5, <1>6, <1>9
  <2>2. QED
      BY <1>4, <1>9, <2>1, OrderOfLess
<1>10. QED
    BY <1>3, <1>7, <1>8, <1>9


LEMMA OrderOfWait ==
    ASSUME TypeOK, BufferInv, OrderInv, NEW n \in 1 .. Len(line), WaitReads(n)
    PROVE  OrderInv'
<1> DEFINE b == Filled(Fit(n))
           r == Drop(line, n)
           f == SubSeq(line, 1, Fit(n))
<1>1. /\ b \in Seq(Octet) /\ r \in Seq(Octet) /\ line' = r
      /\ buf \in Seq(Octet) /\ line \in Seq(Octet) /\ f \in Seq(Octet)
  <2>1. n \in 0 .. Len(line) /\ Fit(n) \in 0 .. Len(line)
      BY FitTyped, LenProperties DEF TypeOK
  <2>2. QED
      BY <2>1, FilledTyped, FirstOctets DEF WaitReads, TypeOK
<1>2. loop = "wait" /\ loop' = loop /\ waiting /\ sent' = sent
    BY DEF WaitReads, BufferInv, Modes
<1>3. Rest = Joined(buf, line)
    BY <1>2 DEF Rest, Kept
<1>4. Thinner(Joined(b, r), Rest)
  <2>1. n \in 0 .. Len(line) /\ Fit(n) \in 0 .. Len(line) /\ Fit(n) <= n
      BY <1>1, FitTyped, LenProperties
  <2>2. Thinner(Joined(f, r), line)
      BY <1>1, <2>1, ThinnerRead
  <2>3. Thinner(buf, buf)
      BY DEF Thinner
  <2>4. Joined(f, r) \in Seq(Octet)
      BY <1>1, FrontOfJoined
  <2>5. Thinner(Joined(buf, Joined(f, r)), Joined(buf, line))
      BY <1>1, <2>2, <2>3, <2>4, ThinnerJoined
  <2>6. \A x, y, z \in Seq(Octet) : Joined(Joined(x, y), z) = Joined(x, Joined(y, z))
      BY ConcatAssociative DEF Joined
  <2>7. Joined(Joined(buf, f), r) = Joined(buf, Joined(f, r))
      BY <1>1, <2>6
  <2>8. b = Joined(buf, f)
      BY DEF Filled, Joined
  <2>9. QED
      BY <1>3, <2>5, <2>7, <2>8, Zenon
<1>5. \/ /\ Found(b) /\ delivered' = Handed(Parsed(b)) /\ waiting' = FALSE
         /\ Parsed(b) # {}
      \/ /\ Found(b) /\ buf' = Drop(b, End(b)) /\ delivered' = delivered
         /\ waiting' = waiting
      \/ buf' = b /\ delivered' = delivered /\ waiting' = waiting
    BY DEF WaitReads, Filled
<1> HIDE DEF b, r, f
<1>6. \A s, t, u : Thinner(s, t) /\ Thinner(t, u) => Thinner(s, u)
    BY DEF Thinner
<1>7. CASE /\ Found(b) /\ delivered' = Handed(Parsed(b)) /\ waiting' = FALSE
           /\ Parsed(b) # {}
  <2>1. Rest' = r
    <3>1. Kept' = <<>>
        BY <1>2, <1>7 DEF Kept
    <3>2. Joined(<<>>, r) = r
        BY <1>1, ConcatEmptySeq DEF Joined
    <3>3. QED
        BY <1>1, <3>1, <3>2, Zenon DEF Rest
  <2>2. Thinner(r, Joined(b, r))
      BY <1>1, PartThinner
  <2>3. Thinner(Rest', Rest)
      BY <1>4, <1>6, <2>1, <2>2
  <2>4. PICK k \in 1 .. MaxFrames :
           delivered' = Append(delivered, k) /\ ImageAt(k, b, Start(b))
      BY <1>1, <1>7, HandedOn
  <2>5. Start(b) \in 1 .. Len(b)
      BY <1>1, <1>7, FrameFound
  <2>6. Has(b, <<k, 1>>) /\ Has(b, <<k, 2>>)
      BY <1>1, <2>4, <2>5, FrameHad
  <2>7. Has(Joined(b, r), <<k, 1>>)
      BY <1>1, <2>6, HasJoined
  <2>8. \A y : Has(r, y) => Follows(Joined(b, r), <<k, 2>>, y)
      BY <1>1, <2>6, FollowsJoined
  <2>9. Has(Rest, <<k, 1>>)
      BY <1>4, <2>7 DEF Thinner
  <2>10. \A y : Has(Rest', y) => Follows(Rest, <<k, 2>>, y)
      BY <1>4, <2>1, <2>8 DEF Thinner
  <2>11. QED
      BY <1>2, <2>3, <2>4, <2>9, <2>10, OrderOfHanded
<1>8. CASE /\ Found(b) /\ buf' = Drop(b, End(b)) /\ delivered' = delivered
           /\ waiting' = waiting
  <2>1. End(b) \in 1 .. Len(b)
      BY <1>1, <1>8, FrameFound
  <2>2. End(b) \in 0 .. Len(b)
      BY <1>1, <2>1, LenProperties
  <2>3. PICK d \in Seq(Octet) : d = Drop(b, End(b)) /\ Thinner(d, b)
      BY <1>1, <2>2, DropProperties, ThinnerBehindCut
  <2>4. Thinner(r, r)
      BY DEF Thinner
  <2>5. Thinner(Joined(d, r), Joined(b, r))
      BY <1>1, <2>3, <2>4, ThinnerJoined
  <2>6. Rest' = Joined(d, r)
      BY <1>1, <1>2, <1>8, <2>3 DEF Rest, Kept
  <2>7. Thinner(Rest', Rest)
      BY <1>4, <1>6, <2>5, <2>6
  <2>8. QED
      BY <1>2, <1>8, <2>7, OrderOfLess
<1>9. CASE buf' = b /\ delivered' = delivered /\ waiting' = waiting
  <2>1. Rest' = Joined(b, r)
      BY <1>1, <1>2, <1>9 DEF Rest, Kept
  <2>2. Thinner(Rest', Rest)
      BY <1>4, <2>1
  <2>3. QED
      BY <1>2, <1>9, <2>2, OrderOfLess
<1>10. QED
    BY <1>5, <1>7, <1>8, <1>9

\* Of frames, only the next one is sent, and its octets in order.
LEMMA OctetsSent ==
    ASSUME TypeOK, SendFrame \/ SendAwkward \/ SendOther
    PROVE  /\ sent' = sent \/ sent' = sent + 1
           /\ \E o \in Seq(Octet) :
                 /\ line' = Joined(line, o)
                 /\ \A k \in 1 .. MaxFrames : \A a \in {1, 2} :
                       Has(o, <<k, a>>) => k = sent + 1 /\ sent' = sent + 1
                 /\ \A k, l \in 1 .. MaxFrames : \A a, c \in {1, 2} :
                       Follows(o, <<k, a>>, <<l, c>>) => a < c
<1> DEFINE Body == (0 .. MaxFrames) \X {1, 2}
<1>1. Flag \notin Body /\ Noise \notin Body /\ Slash \notin Body
    BY FramingAssumption
<1>2. \A k \in 1 .. MaxFrames : \A a \in {1, 2} :
         <<k, a>> # Flag /\ <<k, a>> # Noise /\ <<k, a>> # Slash
    BY <1>1, FramingAssumption
<1> \A k, l, a, c : <<k, a>> = <<l, c>> => k = l /\ a = c
    OBVIOUS
<1>3. CASE SendFrame \/ SendAwkward
  <2>1. sent' = sent + 1 /\ sent \in Nat
      BY <1>3, FramingAssumption DEF SendFrame, SendAwkward, TypeOK
  <2>2. PICK m \in 0 .. MaxFrames : m = sent + 1 /\ sent' = m
      BY <1>3, SendTyped DEF SendFrame, SendAwkward
  <2>3. PICK o \in Seq(Octet) :
           /\ line' = Joined(line, o)
           /\ \/ o = <<Flag, <<m, 1>>, <<m, 2>>, Flag>>
              \/ o = <<<<m, 1>>, <<m, 2>>, Flag>>
              \/ o = <<Flag, <<m, 1>>, Flag, <<m, 2>>, Flag>>
      BY <1>3, <2>2, PiecesTyped DEF SendFrame, SendAwkward, Put, Joined, Image
  <2>4. \E p, q \in 1 .. Len(o) :
           /\ p < q /\ o[p] = <<m, 1>> /\ o[q] = <<m, 2>>
           /\ \A i \in 1 .. Len(o) : i = p \/ i = q \/ o[i] = Flag
    <3>1. CASE o = <<Flag, <<m, 1>>, <<m, 2>>, Flag>>
      <4>1. Len(o) = 4 /\ o[1] = Flag /\ o[2] = <<m, 1>> /\ o[3] = <<m, 2>>
            /\ o[4] = Flag
          BY <3>1
      <4>2. \A i \in 1 .. 4 : i = 2 \/ i = 3 \/ i = 1 \/ i = 4
          OBVIOUS
      <4>3. 2 \in 1 .. Len(o) /\ 3 \in 1 .. Len(o)
          BY <4>1
      <4>4. QED
          BY <4>1, <4>2, <4>3
    <3>2. CASE o = <<<<m, 1>>, <<m, 2>>, Flag>>
      <4>1. Len(o) = 3 /\ o[1] = <<m, 1>> /\ o[2] = <<m, 2>> /\ o[3] = Flag
          BY <3>2
      <4>2. \A i \in 1 .. 3 : i = 1 \/ i = 2 \/ i = 3
          OBVIOUS
      <4>3. 1 \in 1 .. Len(o) /\ 2 \in 1 .. Len(o)
          BY <4>1
      <4>4. QED
          BY <4>1, <4>2, <4>3
    <3>3. CASE o = <<Flag, <<m, 1>>, Flag, <<m, 2>>, Flag>>
      <4>1. Len(o) = 5 /\ o[1] = Flag /\ o[2] = <<m, 1>> /\ o[3] = Flag
            /\ o[4] = <<m, 2>> /\ o[5] = Flag
          BY <3>3
      <4>2. \A i \in 1 .. 5 : i = 2 \/ i = 4 \/ i = 1 \/ i = 3 \/ i = 5
          OBVIOUS
      <4>3. 2 \in 1 .. Len(o) /\ 4 \in 1 .. Len(o)
          BY <4>1
      <4>4. QED
          BY <4>1, <4>2, <4>3
    <3>4. QED
        BY <2>3, <3>1, <3>2, <3>3
  <2>5. PICK p, q \in 1 .. Len(o) :
           /\ p < q /\ o[p] = <<m, 1>> /\ o[q] = <<m, 2>>
           /\ \A i \in 1 .. Len(o) : i = p \/ i = q \/ o[i] = Flag
      BY <2>4
  <2>6. ASSUME NEW k \in 1 .. MaxFrames, NEW a \in {1, 2}, NEW i \in 1 .. Len(o),
               o[i] = <<k, a>>
        PROVE  k = m /\ ((i = p /\ a = 1) \/ (i = q /\ a = 2))
    <3>1. o[i] # Flag
        BY <1>2, <2>6
    <3>2. i = p \/ i = q
        BY <2>5, <3>1
    <3>3. CASE i = p
      <4>1. <<k, a>> = <<m, 1>>
          BY <2>5, <2>6, <3>3
      <4>2. k = m /\ a = 1
          BY <4>1
      <4>3. QED
          BY <3>3, <4>2
    <3>4. CASE i = q
      <4>1. <<k, a>> = <<m, 2>>
          BY <2>5, <2>6, <3>4
      <4>2. k = m /\ a = 2
          BY <4>1
      <4>3. QED
          BY <3>4, <4>2
    <3>5. QED
        BY <3>2, <3>3, <3>4
  <2>7. \A k \in 1 .. MaxFrames : \A a \in {1, 2} : Has(o, <<k, a>>) => k = m
      BY <2>6 DEF Has
  <2>8. \A k, l \in 1 .. MaxFrames : \A a, c \in {1, 2} :
           Follows(o, <<k, a>>, <<l, c>>) => a < c
    <3>1. SUFFICES ASSUME NEW k \in 1 .. MaxFrames, NEW l \in 1 .. MaxFrames,
                          NEW a \in {1, 2}, NEW c \in {1, 2},
                          NEW i \in 1 .. Len(o), NEW j \in 1 .. Len(o),
                          i < j, o[i] = <<k, a>>, o[j] = <<l, c>>
                   PROVE  a < c
        BY DEF Follows
    <3>2. ((i = p /\ a = 1) \/ (i = q /\ a = 2)) /\ ((j = p /\ c = 1) \/ (j = q /\ c = 2))
        BY <2>6, <3>1
    <3>3. QED
        BY <2>5, <3>1, <3>2
  <2>9. QED
      BY <2>1, <2>2, <2>3, <2>7, <2>8
<1>4. CASE SendOther
  <2>1. PICK o \in Seq(Octet) :
           /\ line' = Joined(line, o)
           /\ o = <<Noise>> \/ o = <<Slash, Noise>> \/ o = <<<<0, 1>>, <<0, 2>>>>
      BY <1>4, OtherTyped DEF SendOther, Put, Joined
  <2>2. \A i \in 1 .. Len(o) :
           o[i] = Noise \/ o[i] = Slash \/ o[i] = <<0, 1>> \/ o[i] = <<0, 2>>
    <3>1. CASE o = <<Noise>>
      <4>1. Len(o) = 1 /\ o[1] = Noise
          BY <3>1
      <4>2. \A i \in 1 .. 1 : i = 1
          OBVIOUS
      <4>3. QED
          BY <4>1, <4>2
    <3>2. CASE o = <<Slash, Noise>>
      <4>1. Len(o) = 2 /\ o[1] = Slash /\ o[2] = Noise
          BY <3>2
      <4>2. \A i \in 1 .. 2 : i = 1 \/ i = 2
          OBVIOUS
      <4>3. QED
          BY <4>1, <4>2
    <3>3. CASE o = <<<<0, 1>>, <<0, 2>>>>
      <4>1. Len(o) = 2 /\ o[1] = <<0, 1>> /\ o[2] = <<0, 2>>
          BY <3>3
      <4>2. \A i \in 1 .. 2 : i = 1 \/ i = 2
          OBVIOUS
      <4>3. QED
          BY <4>1, <4>2
    <3>4. QED
        BY <2>1, <3>1, <3>2, <3>3
  <2>3. \A k \in 1 .. MaxFrames : \A a \in {1, 2} : ~ Has(o, <<k, a>>)
    <3>1. SUFFICES ASSUME NEW k \in 1 .. MaxFrames, NEW a \in {1, 2},
                          NEW i \in 1 .. Len(o), o[i] = <<k, a>>
                   PROVE  FALSE
        BY DEF Has
    <3>2. o[i] = <<0, 1>> \/ o[i] = <<0, 2>>
        BY <1>2, <2>2, <3>1
    <3>3. k = 0
        BY <3>1, <3>2
    <3>4. QED
        BY <3>3
  <2>4. \A k, l \in 1 .. MaxFrames : \A a, c \in {1, 2} :
           ~ Follows(o, <<k, a>>, <<l, c>>)
      BY <2>3 DEF Follows, Has
  <2>5. sent' = sent
      BY <1>4 DEF SendOther
  <2>6. QED
      BY <2>1, <2>3, <2>4, <2>5
<1>5. QED
    BY <1>3, <1>4

LEMMA OrderOfSending ==
    ASSUME TypeOK, OrderInv, SendFrame \/ SendAwkward \/ SendOther
    PROVE  OrderInv'
<1>1. PICK o \in Seq(Octet) :
         /\ line' = Joined(line, o)
         /\ \A k \in 1 .. MaxFrames : \A a \in {1, 2} :
               Has(o, <<k, a>>) => k = sent + 1 /\ sent' = sent + 1
         /\ \A k, l \in 1 .. MaxFrames : \A a, c \in {1, 2} :
               Follows(o, <<k, a>>, <<l, c>>) => a < c
    BY OctetsSent
<1>2. Kept' = Kept /\ delivered' = delivered
    BY DEF SendFrame, SendAwkward, SendOther, task, Kept
<1>3. sent \in 0 .. MaxFrames /\ delivered \in Seq(1 .. MaxFrames)
      /\ line \in Seq(Octet) /\ Kept \in Seq(Octet) /\ Rest \in Seq(Octet)
    BY KeptTyped DEF TypeOK
<1>4. PICK new \in Nat : new = sent' /\ sent <= new
    BY <1>3, OctetsSent, FramingAssumption
<1>5. Rest' = Joined(Rest, o)
  <2>1. \A x, y, z \in Seq(Octet) : Joined(Joined(x, y), z) = Joined(x, Joined(y, z))
      BY ConcatAssociative DEF Joined
  <2>2. Joined(Joined(Kept, line), o) = Joined(Kept, Joined(line, o))
      BY <1>3, <2>1
  <2>3. QED
      BY <1>1, <1>2, <2>2, Zenon DEF Rest
<1>6. \A x : Has(Rest', x) <=> Has(Rest, x) \/ Has(o, x)
  <2>1. \A x : Has(Joined(Rest, o), x) <=> Has(Rest, x) \/ Has(o, x)
      BY <1>3, HasJoined
  <2>2. QED
      BY <1>5, <2>1, Zenon
<1>7. \A x, y : Follows(Rest', x, y)
         <=> Follows(Rest, x, y) \/ Follows(o, x, y) \/ (Has(Rest, x) /\ Has(o, y))
  <2>1. \A x, y : Follows(Joined(Rest, o), x, y)
         <=> Follows(Rest, x, y) \/ Follows(o, x, y) \/ (Has(Rest, x) /\ Has(o, y))
      BY <1>3, FollowsJoined
  <2>2. QED
      BY <1>5, <2>1, Zenon
<1>8. \A d \in DOMAIN delivered : delivered[d] \in Nat /\ delivered[d] <= sent
  <2>1. \A d \in DOMAIN delivered : delivered[d] \in 1 .. MaxFrames
      BY <1>3, ElementOfSeq, LenProperties
  <2>2. QED
      BY <2>1 DEF OrderInv
<1>9. ASSUME NEW k \in 1 .. MaxFrames, NEW a \in {1, 2}, Has(Rest', <<k, a>>)
      PROVE  k <= new /\ \A d \in DOMAIN delivered : delivered[d] < k
  <2>1. CASE Has(Rest, <<k, a>>)
    <3>1. k <= sent /\ \A d \in DOMAIN delivered : delivered[d] < k
        BY <2>1 DEF OrderInv, Ahead
    <3>2. k <= new
        BY <1>3, <1>4, <3>1
    <3>3. QED
        BY <3>1, <3>2
  <2>2. CASE Has(o, <<k, a>>)
    <3>1. k = sent + 1 /\ k = new
        BY <1>1, <1>4, <2>2
    <3>2. QED
        BY <1>3, <1>8, <3>1
  <2>3. QED
      BY <1>6, <1>9, <2>1, <2>2
<1>10. ASSUME NEW k \in 1 .. MaxFrames, NEW l \in 1 .. MaxFrames,
              NEW a \in {1, 2}, NEW c \in {1, 2},
              Follows(Rest', <<k, a>>, <<l, c>>)
       PROVE  k < l \/ (k = l /\ a < c)
  <2>1. CASE Follows(Rest, <<k, a>>, <<l, c>>)
      BY <2>1 DEF OrderInv, Ascending
  <2>2. CASE Follows(o, <<k, a>>, <<l, c>>)
    <3>1. Has(o, <<k, a>>) /\ Has(o, <<l, c>>)
        BY <2>2 DEF Follows, Has
    <3>2. QED
        BY <1>1, <2>2, <3>1
  <2>3. CASE Has(Rest, <<k, a>>) /\ Has(o, <<l, c>>)
    <3>1. k <= sent
        BY <2>3 DEF OrderInv, Ahead
    <3>2. l = sent + 1
        BY <1>1, <2>3
    <3>3. QED
        BY <1>3, <3>1, <3>2
  <2>4. QED
      BY <1>7, <1>10, <2>1, <2>2, <2>3
<1>11. Ascending(Rest)'
    BY <1>10 DEF Ascending
<1>12. Ahead(Rest)'
    BY <1>2, <1>4, <1>9 DEF Ahead
<1>13. \A d \in DOMAIN delivered : delivered[d] <= new
    BY <1>3, <1>4, <1>8
<1>14. QED
    BY <1>2, <1>4, <1>11, <1>12, <1>13 DEF OrderInv, InOrder

LEMMA OrderKept == TypeOK /\ BufferInv /\ OrderInv /\ [Next]_vars => OrderInv'
<1> SUFFICES ASSUME TypeOK, BufferInv, OrderInv, [Next]_vars PROVE OrderInv'
    OBVIOUS
<1>1. ASSUME NEW n \in 1 .. Len(line), Listen(n) \/ WaitReads(n)
      PROVE  OrderInv'
    BY <1>1, OrderOfListen, OrderOfWait
<1>2. Kept \in Seq(Octet) /\ line \in Seq(Octet) /\ <<>> \in Seq(Octet)
    BY KeptTyped, EmptySeq DEF TypeOK
<1>3. \A s : Thinner(s, s) /\ Thinner(<<>>, s)
    BY NothingHad DEF Thinner
<1>4. ASSUME line' = line, Kept' = <<>>
      PROVE  Thinner(Rest', Rest)
  <2>1. Thinner(Joined(<<>>, line), Joined(Kept, line))
      BY <1>2, <1>3, ThinnerJoined
  <2>2. QED
      BY <1>4, <2>1, Zenon DEF Rest
<1>5. CASE TextLine
  <2>1. Kept' = <<>>
      BY <1>5 DEF TextLine, Kept
  <2>2. QED
      BY <1>4, <1>5, <2>1, OrderOfLess DEF TextLine, wire
<1>6. CASE WaitBegins
  <2>1. Kept' = <<>>
      BY <1>6 DEF WaitBegins, Kept, Emptied
  <2>2. QED
      BY <1>4, <1>6, <2>1, OrderOfLess DEF WaitBegins, wire
<1>7. CASE WaitTimesOut
  <2>1. Kept' = <<>>
      BY <1>7 DEF WaitTimesOut, Kept, BufferInv, Modes
  <2>2. QED
      BY <1>4, <1>7, <2>1, OrderOfLess DEF WaitTimesOut, wire
<1>8. CASE SendFrame \/ SendAwkward \/ SendOther
    BY <1>8, OrderOfSending
<1>9. CASE OctetLost
  <2>1. PICK d \in Seq(Octet) : line' = d /\ Thinner(d, line)
      BY <1>2, <1>9, RemoveAtProperties, ThinnerWithout DEF OctetLost
  <2>2. Kept' = Kept
      BY <1>9 DEF OctetLost, task, Kept
  <2>3. Thinner(Joined(Kept, d), Joined(Kept, line))
      BY <1>2, <1>3, <2>1, ThinnerJoined
  <2>4. Thinner(Rest', Rest)
      BY <2>1, <2>2, <2>3, Zenon DEF Rest
  <2>5. QED
      BY <1>9, <2>4, OrderOfLess DEF OctetLost, task
<1>10. CASE UNCHANGED vars
  <2>1. Rest' = Rest
      BY <1>10 DEF vars, task, wire, Rest, Kept
  <2>2. QED
      BY <1>3, <1>10, <2>1, OrderOfLess DEF vars, task, wire
<1>11. QED
    BY <1>1, <1>5, <1>6, <1>7, <1>8, <1>9, <1>10 DEF Next, Reads

\* Neither loop hands a frame on twice or out of turn, whatever is lost,
\* overwritten or thrown away in between.
THEOREM InOrderHolds == Spec => []InOrder
<1>1. Init => TypeOK /\ BufferInv /\ OrderInv
    BY FramingInitTyped, BufferInit, OrderInit
<1>2. TypeOK /\ BufferInv /\ OrderInv /\ [Next]_vars
        => (TypeOK /\ BufferInv /\ OrderInv)'
    BY FramingStepTyped, BufferKept, OrderKept
<1>3. OrderInv => InOrder
    BY DEF OrderInv
<1>4. QED
    BY <1>1, <1>2, <1>3, PTL DEF Spec

=============================================================================
