--------------------------- MODULE AxdrBlock_proofs ---------------------------
(***************************************************************************)
(* What axdr_parse_value makes of the octets of a value, of a stump of it  *)
(* and of a value with more behind it, and with that the walk over a       *)
(* block, for blocks of every length and values nested to every depth.     *)
(***************************************************************************)
EXTENDS AxdrBlock, SequenceLemmas

\* What is left of the octets behind the first n.
LEMMA RestFits ==
    ASSUME NEW b \in Seq(Byte), NEW n \in Nat
    PROVE  /\ Rest(b, n) \in Seq(Byte)
           /\ Len(Rest(b, n)) = IF n <= Len(b) THEN Len(b) - n ELSE 0
           /\ n <= Len(b) => \A i \in 1 .. Len(b) - n : Rest(b, n)[i] = b[n + i]
<1>1. Len(b) \in Nat
    BY LenProperties
<1>2. CASE n <= Len(b)
  <2>1. n \in 0 .. Len(b)
      BY <1>1, <1>2
  <2>2. QED
      BY <1>2, <2>1, Behind DEF Rest
<1>3. CASE ~ (n <= Len(b))
  <2>1. n + 1 \in Int /\ Len(b) \in Int /\ Len(b) < n + 1
      BY <1>1, <1>3
  <2>2. Rest(b, n) = <<>>
      BY <2>1, SubSeqEmpty DEF Rest
  <2>3. QED
      BY <1>3, <2>2, EmptySeq
<1>4. QED
    BY <1>2, <1>3

LEMMA ByteIsNat == \A x \in Byte : x \in Nat /\ x < 256
BY DEF Byte

LEMMA TailFits ==
    ASSUME NEW b \in Seq(Byte), b # <<>>
    PROVE  /\ Head(b) \in Byte /\ Head(b) = b[1] /\ Head(b) \in Nat
           /\ Tail(b) \in Seq(Byte) /\ Len(Tail(b)) \in Nat
           /\ Len(b) = Len(Tail(b)) + 1
           /\ \A i \in 1 .. Len(Tail(b)) : Tail(b)[i] = b[i + 1]
<1>1. Len(b) \in Nat \ {0}
    BY EmptySeq
<1>2. /\ Head(b) \in Byte /\ Tail(b) \in Seq(Byte) /\ Len(Tail(b)) = Len(b) - 1
      /\ \A i \in 1 .. Len(Tail(b)) : Tail(b)[i] = b[i + 1]
    BY HeadTailProperties
<1>3. Head(b) \in Nat
    BY <1>2, ByteIsNat, Zenon
<1>4. Head(b) = b[1]
    OBVIOUS
<1>5. QED
    BY <1>1, <1>2, <1>3, <1>4

LEMMA OctetAt ==
    ASSUME NEW b \in Seq(Byte), NEW i \in Nat
    PROVE  \E x \in Nat : x < 256 /\ (i \in 1 .. Len(b) => b[i] = x)
<1>1. CASE i \in 1 .. Len(b)
  <2>1. b[i] \in 0 .. 255
      BY <1>1, ElementOfSeq DEF Byte
  <2>2. QED
      BY <2>1
<1>2. CASE ~ (i \in 1 .. Len(b))
    BY <1>2
<1>3. QED
    BY <1>1, <1>2

LEMMA LengthFits ==
    ASSUME NEW b \in Seq(Byte), NEW u, NEW v, u = ParseLength(b).used, v = ParseLength(b).value
    PROVE  \/ u = -1 /\ v = 0
           \/ u \in 1 .. Len(b) /\ v \in Nat
<1>1. PICK n \in Nat : n = Len(b)
    BY LenProperties
<1>2. PICK x \in Nat : x < 256 /\ (n >= 1 => b[1] = x)
    BY <1>1, OctetAt
<1>3. PICK y \in Nat : y < 256 /\ (n >= 2 => b[2] = y)
    BY <1>1, OctetAt
<1>4. PICK z \in Nat : z < 256 /\ (n >= 3 => b[3] = z)
    BY <1>1, OctetAt
<1>5. CASE n >= 1 /\ x < 128
  <2>1. ParseLength(b) = [used |-> 1, value |-> x]
      BY <1>1, <1>2, <1>3, <1>5 DEF ParseLength
  <2>2. QED
      BY <1>1, <1>5, <2>1
<1>6. CASE n >= 2 /\ x = 129
  <2>1. ParseLength(b) = [used |-> 2, value |-> y]
      BY <1>1, <1>2, <1>3, <1>6 DEF ParseLength
  <2>2. QED
      BY <1>1, <1>6, <2>1
<1>7. CASE n >= 3 /\ x = 130
  <2>1. ParseLength(b) = [used |-> 3, value |-> y * 256 + z]
      BY <1>1, <1>2, <1>3, <1>4, <1>7 DEF ParseLength
  <2>2. y * 256 + z \in Nat
      OBVIOUS
  <2>3. QED
      BY <1>1, <1>7, <2>1, <2>2
<1>8. CASE ~ (n >= 1 /\ x < 128) /\ ~ (n >= 2 /\ x = 129) /\ ~ (n >= 3 /\ x = 130)
  <2>1. ParseLength(b) = [used |-> -1, value |-> 0]
      BY <1>1, <1>2, <1>8 DEF ParseLength
  <2>2. QED
      BY <2>1
<1>9. QED
    BY <1>5, <1>6, <1>7, <1>8

-----------------------------------------------------------------------------
(* Simple values                                                           *)

LEMMA PaddingFits ==
    ASSUME NEW n \in 0 .. 8, NEW octet \in Byte
    PROVE  /\ Padding(n, octet) \in Seq(Byte) /\ Len(Padding(n, octet)) = 8 - n
           /\ \A i \in 1 .. 8 - n : Padding(n, octet)[i] = octet
<1>1. 8 - n \in Nat
    OBVIOUS
<1>2. QED
    BY <1>1 DEF Padding

LEMMA NumberFits ==
    ASSUME NEW b \in Seq(Byte), NEW n \in 1 .. 8, NEW word \in Seq(Byte)
    PROVE  LET v == Number(b, n, word)
           IN  /\ v.content \in Seq(Byte)
               /\ v.used = -1 \/ v.used \in 1 .. Len(b) + 1
<1>1. Len(b) \in Nat
    BY LenProperties
<1>2. CASE Len(b) < n
    BY <1>2, EmptySeq DEF Number, Failed
<1>3. CASE ~ (Len(b) < n)
    BY <1>1, <1>3 DEF Number
<1>4. QED
    BY <1>2, <1>3

LEMMA ExtendedFits ==
    ASSUME NEW b \in Seq(Byte), NEW n \in 1 .. 8, n <= Len(b)
    PROVE  SignExtended(b, n) \in Seq(Byte) /\ ZeroExtended(b, n) \in Seq(Byte)
<1>1. n \in 0 .. Len(b) /\ n \in 0 .. 8
    BY LenProperties
<1>2. SubSeq(b, 1, n) \in Seq(Byte)
    BY <1>1, InFront
<1>3. 0 \in Byte /\ 255 \in Byte
    BY DEF Byte
<1>4. Padding(n, 0) \in Seq(Byte) /\ Padding(n, 255) \in Seq(Byte)
    BY <1>1, <1>3, PaddingFits
<1>5. Padding(n, IF b[1] >= 128 THEN 255 ELSE 0) \in Seq(Byte)
    BY <1>4
<1>6. QED
    BY <1>2, <1>4, <1>5, ConcatProperties DEF SignExtended, ZeroExtended

LEMMA Tags ==
    /\ DOMAIN Signed = {15, 16, 5, 20}
    /\ Signed[15] = 1 /\ Signed[16] = 2 /\ Signed[5] = 4 /\ Signed[20] = 8
    /\ DOMAIN Unsigned = {3, 17, 22, 18, 6, 21, 23, 24}
    /\ Unsigned[17] = 1 /\ Unsigned[22] = 1 /\ Unsigned[18] = 2
    /\ Unsigned[6] = 4 /\ Unsigned[23] = 4 /\ Unsigned[21] = 8 /\ Unsigned[24] = 8
    /\ Text = {9, 10, 12} /\ Compound = {1, 2}
BY DEF Signed, Unsigned, Text, Compound

\* Simple, one tag at a time.
LEMMA SimpleNull ==
    ASSUME NEW b, Head(b) = 0
    PROVE  Simple(b) = [used |-> 1, content |-> <<>>]
BY Tags DEF Simple

LEMMA SimpleTruth ==
    ASSUME NEW b, Head(b) = 3
    PROVE  Simple(b) = Number(Tail(b), 1, Truth(Tail(b)))
BY Tags DEF Simple

LEMMA SimpleSigned ==
    ASSUME NEW b, NEW t \in Nat, t = Head(b), t \in DOMAIN Signed
    PROVE  Simple(b) = Number(Tail(b), Signed[t], SignExtended(Tail(b), Signed[t]))
BY Tags DEF Simple

LEMMA SimpleUnsigned ==
    ASSUME NEW b, NEW t \in Nat, t = Head(b), t \in DOMAIN Unsigned \ {3}
    PROVE  Simple(b) = Number(Tail(b), Unsigned[t], ZeroExtended(Tail(b), Unsigned[t]))
BY Tags DEF Simple

LEMMA SimpleText ==
    ASSUME NEW b, NEW t \in Nat, t = Head(b), t \in Text
    PROVE  Simple(b) = String(Tail(b))
BY Tags DEF Simple

LEMMA SimpleOther ==
    ASSUME NEW b, NEW t \in Nat, t = Head(b), t # 0, t \notin DOMAIN Signed,
           t \notin DOMAIN Unsigned, t \notin Text
    PROVE  Simple(b) = Failed
BY Tags DEF Simple

\* The octets of a string are all there, or it fails.
LEMMA StringIs ==
    ASSUME NEW b \in Seq(Byte), NEW u, NEW v,
           u = ParseLength(b).used, v = ParseLength(b).value
    PROVE  \/ String(b) = Failed
           \/ /\ u \in Nat /\ v \in Nat /\ u >= 1 /\ u + v <= Len(b)
              /\ String(b) = [used    |-> 1 + u + v,
                              content |-> SubSeq(b, u + 1, u + IF v < MaxText THEN v ELSE MaxText)]
<1>1. (u = -1 /\ v = 0) \/ (u \in 1 .. Len(b) /\ v \in Nat)
    BY LengthFits
<1>2. Len(b) \in Nat
    BY LenProperties
<1>3. CASE u < 0 \/ Len(b) < u + v
    BY <1>3 DEF String
<1>4. CASE ~ (u < 0 \/ Len(b) < u + v)
  <2>1. String(b) = [used    |-> 1 + u + v,
                     content |-> SubSeq(b, u + 1, u + IF v < MaxText THEN v ELSE MaxText)]
      BY <1>4 DEF String
  <2>2. QED
      BY <1>1, <1>2, <1>4, <2>1
<1>5. QED
    BY <1>3, <1>4

LEMMA StringFits ==
    ASSUME NEW b \in Seq(Byte)
    PROVE  /\ String(b).content \in Seq(Byte)
           /\ String(b).used = -1 \/ String(b).used \in 1 .. Len(b) + 1
<1>1. PICK u, v : u = ParseLength(b).used /\ v = ParseLength(b).value
    OBVIOUS
<1>2. CASE String(b) = Failed
    BY <1>2, EmptySeq DEF Failed
<1>3. CASE String(b) # Failed
  <2>1. /\ u \in Nat /\ v \in Nat /\ u >= 1 /\ u + v <= Len(b) /\ Len(b) \in Nat
        /\ String(b) = [used    |-> 1 + u + v,
                        content |-> SubSeq(b, u + 1, u + IF v < MaxText THEN v ELSE MaxText)]
      BY <1>1, <1>3, StringIs, LenProperties
  <2>2. PICK m \in Nat : m <= v /\ m = IF v < MaxText THEN v ELSE MaxText
      BY <2>1, BlockAssumption
  <2>3. PICK i \in Int, j \in Int : i = u + 1 /\ j = u + m
      BY <2>1
  <2>4. \A k \in i .. j : b[k] \in Byte
      BY <2>1, <2>2, <2>3, ElementOfSeq
  <2>5. SubSeq(b, i, j) \in Seq(Byte)
      BY <2>4, SubSeqProperties
  <2>6. QED
      BY <2>1, <2>2, <2>3, <2>5
<1>4. QED
    BY <1>2, <1>3

LEMMA SimpleFits ==
    ASSUME NEW b \in Seq(Byte), b # <<>>
    PROVE  /\ Simple(b).content \in Seq(Byte)
           /\ Simple(b).used = -1 \/ Simple(b).used \in 1 .. Len(b)
<1>1. PICK t \in Nat, body \in Seq(Byte) :
         t = Head(b) /\ body = Tail(b) /\ Len(b) = Len(body) + 1
  <2>1. /\ Head(b) \in Nat /\ Tail(b) \in Seq(Byte)
        /\ Len(b) = Len(Tail(b)) + 1
      BY TailFits
  <2>2. QED
      BY <2>1
<1>2. CASE t = 0
  <2>1. Simple(b) = [used |-> 1, content |-> <<>>] /\ Len(body) \in Nat
      BY <1>1, <1>2, SimpleNull, LenProperties
  <2>2. QED
      BY <1>1, <2>1, EmptySeq
<1>3. ASSUME NEW n \in 1 .. 8, NEW word, n <= Len(body) => word \in Seq(Byte),
             Simple(b) = Number(body, n, word)
      PROVE  /\ Simple(b).content \in Seq(Byte)
             /\ Simple(b).used = -1 \/ Simple(b).used \in 1 .. Len(b)
  <2>1. CASE Len(body) < n
      BY <1>3, <2>1, EmptySeq DEF Number, Failed
  <2>2. CASE ~ (Len(body) < n)
    <3>1. Len(body) \in Nat
        BY LenProperties
    <3>2. Simple(b) = [used |-> 1 + n, content |-> word]
        BY <1>3, <2>2 DEF Number
    <3>3. QED
        BY <1>1, <1>3, <2>2, <3>1, <3>2
  <2>3. QED
      BY <2>1, <2>2
<1>4. CASE t = 3
  <2>1. Truth(body) \in Seq(Byte)
    <3>1. 0 \in Byte /\ (IF body[1] = 0 THEN 0 ELSE 1) \in Byte /\ 1 \in 0 .. 8
        BY DEF Byte
    <3>2. Padding(1, 0) \in Seq(Byte) /\ <<IF body[1] = 0 THEN 0 ELSE 1>> \in Seq(Byte)
        BY <3>1, PaddingFits
    <3>3. QED
        BY <3>2, ConcatProperties DEF Truth
  <2>2. QED
      BY <1>1, <1>3, <1>4, <2>1, SimpleTruth
<1>5. CASE t \in DOMAIN Signed
  <2>1. PICK n \in 1 .. 8 : n = Signed[t]
      BY <1>5, Tags
  <2>2. n <= Len(body) => SignExtended(body, n) \in Seq(Byte)
      BY ExtendedFits
  <2>3. Simple(b) = Number(body, n, SignExtended(body, n))
      BY <1>1, <1>5, <2>1, SimpleSigned
  <2>4. QED
      BY <1>3, <2>2, <2>3
<1>6. CASE t \in DOMAIN Unsigned \ {3}
  <2>1. PICK n \in 1 .. 8 : n = Unsigned[t]
      BY <1>6, Tags
  <2>2. n <= Len(body) => ZeroExtended(body, n) \in Seq(Byte)
      BY ExtendedFits
  <2>3. Simple(b) = Number(body, n, ZeroExtended(body, n))
      BY <1>1, <1>6, <2>1, SimpleUnsigned
  <2>4. QED
      BY <1>3, <2>2, <2>3
<1>7. CASE t \in Text
  <2>1. /\ String(body).content \in Seq(Byte)
        /\ String(body).used = -1 \/ String(body).used \in 1 .. Len(body) + 1
      BY StringFits
  <2>2. Simple(b) = String(body)
      BY <1>1, <1>7, SimpleText
  <2>3. QED
      BY <1>1, <2>1, <2>2
<1>8. CASE /\ t # 0 /\ t \notin DOMAIN Signed
           /\ t \notin DOMAIN Unsigned /\ t \notin Text
  <2>1. Simple(b) = Failed
      BY <1>1, <1>8, SimpleOther
  <2>2. QED
      BY <2>1, EmptySeq DEF Failed
<1>9. QED
    BY <1>2, <1>4, <1>5, <1>6, <1>7, <1>8

-----------------------------------------------------------------------------
(* Values within values                                                    *)

Shorter(b) == {c \in Seq(Byte) : Len(c) < Len(b)}

\* n values take at least n octets, and no more than there are.
Bounded(f, b) ==
    \A n \in Nat : \/ f[b][n] = -1
                   \/ f[b][n] \in Nat /\ n <= f[b][n] /\ f[b][n] <= Len(b)

\* Where the elements of the compound at the front of b are, and how many.
LEMMA ElementsAt ==
    ASSUME NEW b \in Seq(Byte), b # <<>>
    PROVE  \E u \in Int, v \in Nat, c \in Seq(Byte) :
              /\ \A f : CompoundUsed(f, b) = IF u < 0 \/ f[c][v] < 0 THEN -1
                                             ELSE 1 + u + f[c][v]
              /\ u < 0 \/ (u >= 1 /\ c \in Shorter(b) /\ 1 + u + Len(c) = Len(b))
<1>1. PICK u, v : u = ParseLength(Tail(b)).used /\ v = ParseLength(Tail(b)).value
    OBVIOUS
<1>2. /\ Tail(b) \in Seq(Byte) /\ Len(Tail(b)) \in Nat
      /\ Len(b) = Len(Tail(b)) + 1
    BY TailFits
<1>3. (u = -1 /\ v = 0) \/ (u \in 1 .. Len(Tail(b)) /\ v \in Nat)
    BY <1>1, <1>2, LengthFits
<1>4. \A f : CompoundUsed(f, b) = IF u < 0 \/ f[Rest(Tail(b), u)][v] < 0 THEN -1
                                  ELSE 1 + u + f[Rest(Tail(b), u)][v]
    BY <1>1, Zenon DEF CompoundUsed
<1>5. CASE u = -1 /\ v = 0
  <2>1. \A f : CompoundUsed(f, b) = IF u < 0 \/ f[<<>>][v] < 0 THEN -1
                                    ELSE 1 + u + f[<<>>][v]
      BY <1>3, <1>4, <1>5
  <2>2. <<>> \in Seq(Byte)
      BY EmptySeq
  <2>3. QED
      BY <1>5, <2>1, <2>2
<1>6. CASE u \in 1 .. Len(Tail(b)) /\ v \in Nat
  <2>1. u \in Nat /\ u >= 1 /\ u <= Len(Tail(b))
      BY <1>2, <1>6
  <2>2. PICK c : c = Rest(Tail(b), u)
      OBVIOUS
  <2>3. c \in Seq(Byte) /\ Len(c) = Len(Tail(b)) - u
      BY <1>2, <2>1, <2>2, RestFits
  <2>4. c \in Shorter(b) /\ 1 + u + Len(c) = Len(b)
      BY <1>2, <2>1, <2>3 DEF Shorter
  <2>5. v \in Nat /\ u \in Int
      BY <1>6, <2>1
  <2>6. \A f : CompoundUsed(f, b) = IF u < 0 \/ f[c][v] < 0 THEN -1
                                    ELSE 1 + u + f[c][v]
      BY <1>4, <2>2, Zenon
  <2>7. QED
      BY <2>1, <2>3, <2>4, <2>5, <2>6, Zenon
<1>7. QED
    BY <1>3, <1>5, <1>6

LEMMA FirstFits ==
    ASSUME NEW b \in Seq(Byte), b # <<>>, NEW f, \A c \in Shorter(b) : Bounded(f, c)
    PROVE  FirstUsed(f, b) = -1 \/ FirstUsed(f, b) \in 1 .. Len(b)
<1>1. CASE Head(b) \in Compound
  <2>1. PICK u \in Int, v \in Nat, c \in Seq(Byte) :
           /\ \A g : CompoundUsed(g, b) = IF u < 0 \/ g[c][v] < 0 THEN -1
                                          ELSE 1 + u + g[c][v]
           /\ u < 0 \/ (u >= 1 /\ c \in Shorter(b) /\ 1 + u + Len(c) = Len(b))
      BY ElementsAt
  <2>2. CompoundUsed(f, b) = IF u < 0 \/ f[c][v] < 0 THEN -1 ELSE 1 + u + f[c][v]
      BY <2>1
  <2>3. FirstUsed(f, b) = CompoundUsed(f, b)
      BY <1>1 DEF FirstUsed
  <2>4. Len(b) \in Nat /\ Len(c) \in Nat
      BY LenProperties
  <2>5. CASE u < 0
      BY <2>2, <2>3, <2>5
  <2>6. CASE u >= 1
    <3>1. f[c][v] = -1 \/ (f[c][v] \in Nat /\ f[c][v] <= Len(c))
        BY <2>1, <2>6 DEF Bounded
    <3>2. QED
        BY <2>1, <2>2, <2>3, <2>4, <2>6, <3>1
  <2>7. QED
      BY <2>1, <2>5, <2>6
<1>2. CASE Head(b) \notin Compound
    BY <1>2, SimpleFits DEF FirstUsed
<1>3. QED
    BY <1>1, <1>2

LEMMA ValuesAt ==
    ASSUME NEW b \in Seq(Byte), NEW f, \A c \in Shorter(b) : Bounded(f, c),
           NEW n \in Nat, NEW k, b # <<>> => k = FirstUsed(f, b)
    PROVE  /\ n = 0 => ValuesUsed(f, b)[n] = 0
           /\ n # 0 /\ (b = <<>> \/ k = -1) => ValuesUsed(f, b)[n] = -1
           /\ n # 0 /\ b # <<>> /\ k # -1 =>
                 /\ k \in 1 .. Len(b) /\ n - 1 \in Nat /\ Rest(b, k) \in Shorter(b)
                 /\ Len(Rest(b, k)) = Len(b) - k
                 /\ ValuesUsed(f, b)[n] = IF f[Rest(b, k)][n - 1] < 0 THEN -1
                                          ELSE k + f[Rest(b, k)][n - 1]
<1>1. n = 0 => ValuesUsed(f, b)[n] = 0
    BY DEF ValuesUsed
<1>2. n # 0 /\ b = <<>> => ValuesUsed(f, b)[n] = -1
    BY DEF ValuesUsed
<1>3. ASSUME n # 0, b # <<>>, k = -1 PROVE ValuesUsed(f, b)[n] = -1
    BY <1>3 DEF ValuesUsed
<1>4. ASSUME n # 0, b # <<>>, k # -1
      PROVE  /\ k \in 1 .. Len(b) /\ n - 1 \in Nat /\ Rest(b, k) \in Shorter(b)
             /\ Len(Rest(b, k)) = Len(b) - k
             /\ ValuesUsed(f, b)[n] = IF f[Rest(b, k)][n - 1] < 0 THEN -1
                                      ELSE k + f[Rest(b, k)][n - 1]
  <2>1. k \in 1 .. Len(b) /\ Len(b) \in Nat
      BY <1>4, FirstFits, LenProperties
  <2>2. k \in Nat /\ k >= 1 /\ k <= Len(b) /\ ~ (k < 0) /\ n - 1 \in Nat
      BY <1>4, <2>1
  <2>3. Rest(b, k) \in Seq(Byte) /\ Len(Rest(b, k)) = Len(b) - k
      BY <2>2, RestFits
  <2>4. Rest(b, k) \in Shorter(b)
      BY <2>1, <2>2, <2>3 DEF Shorter
  <2>5. ValuesUsed(f, b)[n] = IF f[Rest(b, k)][n - 1] < 0 THEN -1
                              ELSE k + f[Rest(b, k)][n - 1]
      BY <1>4, <2>2 DEF ValuesUsed
  <2>6. QED
      BY <2>1, <2>2, <2>3, <2>4, <2>5
<1>5. QED
    BY <1>1, <1>2, <1>3, <1>4

LEMMA ValuesFit ==
    ASSUME NEW b \in Seq(Byte), NEW f, \A c \in Shorter(b) : Bounded(f, c),
           NEW g, g[b] = ValuesUsed(f, b)
    PROVE  Bounded(g, b)
<1> SUFFICES ASSUME NEW n \in Nat
             PROVE  \/ ValuesUsed(f, b)[n] = -1
                    \/ /\ ValuesUsed(f, b)[n] \in Nat /\ n <= ValuesUsed(f, b)[n]
                       /\ ValuesUsed(f, b)[n] <= Len(b)
    BY DEF Bounded
<1>1. PICK k : k = FirstUsed(f, b)
    OBVIOUS
<1>2. PICK v : v = ValuesUsed(f, b)[n]
    OBVIOUS
<1>3. /\ n = 0 => v = 0
      /\ n # 0 /\ (b = <<>> \/ k = -1) => v = -1
      /\ n # 0 /\ b # <<>> /\ k # -1 =>
            /\ k \in 1 .. Len(b) /\ n - 1 \in Nat /\ Rest(b, k) \in Shorter(b)
            /\ Len(Rest(b, k)) = Len(b) - k
            /\ v = IF f[Rest(b, k)][n - 1] < 0 THEN -1 ELSE k + f[Rest(b, k)][n - 1]
    BY <1>1, <1>2, ValuesAt
<1>4. Len(b) \in Nat
    BY LenProperties
<1>5. CASE n # 0 /\ b # <<>> /\ k # -1
  <2>1. PICK m : m = f[Rest(b, k)][n - 1]
      OBVIOUS
  <2>2. m = -1 \/ (m \in Nat /\ n - 1 <= m /\ m <= Len(b) - k)
      BY <1>3, <1>5, <2>1 DEF Bounded
  <2>3. v = IF m < 0 THEN -1 ELSE k + m
      BY <1>3, <1>5, <2>1
  <2>4. k \in 1 .. Len(b)
      BY <1>3, <1>5
  <2>5. QED
      BY <1>2, <1>4, <2>2, <2>3, <2>4
<1>6. CASE ~ (n # 0 /\ b # <<>> /\ k # -1)
    BY <1>2, <1>3, <1>4, <1>6
<1>7. QED
    BY <1>5, <1>6

\* What the first n values take depends only on what they take in shorter
\* octets.
LEMMA FirstAgrees ==
    ASSUME NEW b \in Seq(Byte), b # <<>>, NEW f, NEW g, \A c \in Shorter(b) : f[c] = g[c]
    PROVE  FirstUsed(f, b) = FirstUsed(g, b)
<1>1. CASE Head(b) \in Compound
  <2>1. PICK u \in Int, v \in Nat, c \in Seq(Byte) :
           /\ \A h : CompoundUsed(h, b) = IF u < 0 \/ h[c][v] < 0 THEN -1
                                          ELSE 1 + u + h[c][v]
           /\ u < 0 \/ (u >= 1 /\ c \in Shorter(b) /\ 1 + u + Len(c) = Len(b))
      BY ElementsAt
  <2>2. /\ CompoundUsed(f, b) = IF u < 0 \/ f[c][v] < 0 THEN -1 ELSE 1 + u + f[c][v]
        /\ CompoundUsed(g, b) = IF u < 0 \/ g[c][v] < 0 THEN -1 ELSE 1 + u + g[c][v]
      BY <2>1
  <2>3. u < 0 \/ f[c] = g[c]
      BY <2>1
  <2>4. CompoundUsed(f, b) = CompoundUsed(g, b)
      BY <2>2, <2>3
  <2>5. QED
      BY <1>1, <2>4 DEF FirstUsed
<1>2. CASE Head(b) \notin Compound
    BY <1>2 DEF FirstUsed
<1>3. QED
    BY <1>1, <1>2

LEMMA ValuesAgree ==
    ASSUME NEW b \in Seq(Byte), NEW f, NEW g, \A c \in Shorter(b) : f[c] = g[c],
           \A c \in Shorter(b) : Bounded(f, c)
    PROVE  ValuesUsed(f, b) = ValuesUsed(g, b)
<1>1. \A c \in Shorter(b) : Bounded(g, c)
    BY DEF Bounded
<1>2. ASSUME NEW n \in Nat
      PROVE  ValuesUsed(f, b)[n] = ValuesUsed(g, b)[n]
  <2>1. PICK k : k = FirstUsed(f, b)
      OBVIOUS
  <2>2. b # <<>> => k = FirstUsed(g, b)
      BY <2>1, FirstAgrees
  <2>3. PICK v : v = ValuesUsed(f, b)[n]
      OBVIOUS
  <2>4. PICK w : w = ValuesUsed(g, b)[n]
      OBVIOUS
  <2>5. /\ n = 0 => v = 0
        /\ n # 0 /\ (b = <<>> \/ k = -1) => v = -1
        /\ n # 0 /\ b # <<>> /\ k # -1 =>
              /\ k \in 1 .. Len(b) /\ n - 1 \in Nat /\ Rest(b, k) \in Shorter(b)
              /\ Len(Rest(b, k)) = Len(b) - k
              /\ v = IF f[Rest(b, k)][n - 1] < 0 THEN -1 ELSE k + f[Rest(b, k)][n - 1]
      BY <2>1, <2>3, ValuesAt
  <2>6. /\ n = 0 => w = 0
        /\ n # 0 /\ (b = <<>> \/ k = -1) => w = -1
        /\ n # 0 /\ b # <<>> /\ k # -1 =>
              /\ k \in 1 .. Len(b) /\ n - 1 \in Nat /\ Rest(b, k) \in Shorter(b)
              /\ Len(Rest(b, k)) = Len(b) - k
              /\ w = IF g[Rest(b, k)][n - 1] < 0 THEN -1 ELSE k + g[Rest(b, k)][n - 1]
      BY <1>1, <2>2, <2>4, ValuesAt
  <2>7. v = w
      BY <2>5, <2>6
  <2>8. QED
      BY <2>3, <2>4, <2>7
<1>3. /\ ValuesUsed(f, b) = [n \in Nat |-> ValuesUsed(f, b)[n]]
      /\ ValuesUsed(g, b) = [n \in Nat |-> ValuesUsed(g, b)[n]]
    BY DEF ValuesUsed
<1>4. [n \in Nat |-> ValuesUsed(f, b)[n]] = [n \in Nat |-> ValuesUsed(g, b)[n]]
    BY <1>2
<1>5. QED
    BY <1>3, <1>4, Zenon

\* f is ElementsUsed on octets shorter than k.
Reaches(f, k) ==
    \A b \in Seq(Byte) : Len(b) < k => f[b] = ValuesUsed(f, b) /\ Bounded(f, b)

LEMMA ReachesAgree ==
    ASSUME NEW j \in Nat, NEW k \in Nat, NEW f, NEW g, Reaches(f, j), Reaches(g, k)
    PROVE  \A b \in Seq(Byte) : Len(b) < j /\ Len(b) < k => f[b] = g[b]
<1> DEFINE M == {n \in Nat : \E b \in Seq(Byte) :
                    n = Len(b) /\ n < j /\ n < k /\ f[b] # g[b]}
<1>1. ASSUME M # {} PROVE FALSE
  <2>1. PICK m \in M : \A n \in M : m <= n
      BY <1>1, LeastIn
  <2>2. PICK b \in Seq(Byte) : m = Len(b) /\ m < j /\ m < k /\ f[b] # g[b]
      BY <2>1
  <2>3. m \in Nat
      BY <2>1
  <2>4. ASSUME NEW c \in Shorter(b)
        PROVE  f[c] = g[c] /\ Bounded(f, c)
    <3>1. PICK n \in Nat : n = Len(c) /\ c \in Seq(Byte) /\ n < m
        BY <2>2, LenProperties DEF Shorter
    <3>2. n \notin M /\ n < j /\ n < k
        BY <2>1, <2>2, <2>3, <3>1
    <3>3. f[c] = g[c]
        BY <3>1, <3>2
    <3>4. Bounded(f, c)
        BY <3>1, <3>2 DEF Reaches
    <3>5. QED
        BY <3>3, <3>4
  <2>5. ValuesUsed(f, b) = ValuesUsed(g, b)
      BY <2>4, ValuesAgree
  <2>6. f[b] = ValuesUsed(f, b) /\ g[b] = ValuesUsed(g, b)
      BY <2>2 DEF Reaches
  <2>7. QED
      BY <2>2, <2>5, <2>6
<1>2. QED
    BY <1>1, LenProperties

LEMMA ReachesExists ==
    ASSUME NEW k \in Nat
    PROVE  \E f : Reaches(f, k)
<1> DEFINE M == {n \in Nat : ~ \E f : Reaches(f, n)}
<1>1. ASSUME M # {} PROVE FALSE
  <2>1. PICK m \in M : \A n \in M : m <= n
      BY <1>1, LeastIn
  <2>2. m # 0
    <3>1. ASSUME m = 0 PROVE Reaches([b \in Seq(Byte) |-> {}], m)
        BY <3>1, LenProperties DEF Reaches
    <3>2. QED
        BY <2>1, <3>1
  <2>3. m \in Nat /\ m - 1 \in Nat /\ m - 1 \notin M
      BY <2>1, <2>2
  <2>4. PICK f : Reaches(f, m - 1)
      BY <2>3
  <2> DEFINE g == [b \in Seq(Byte) |-> ValuesUsed(f, b)]
  <2>5. ASSUME NEW c \in Seq(Byte), Len(c) < m - 1
        PROVE  f[c] = g[c] /\ Bounded(f, c)
      BY <2>4, <2>5 DEF Reaches
  <2>6. ASSUME NEW b \in Seq(Byte), Len(b) < m
        PROVE  g[b] = ValuesUsed(g, b) /\ Bounded(g, b)
    <3>1. g[b] = ValuesUsed(f, b)
        OBVIOUS
    <3> HIDE DEF g
    <3>2. \A c \in Shorter(b) : c \in Seq(Byte) /\ Len(c) < m - 1
        BY <2>3, <2>6, LenProperties DEF Shorter
    <3>3. \A c \in Shorter(b) : f[c] = g[c] /\ Bounded(f, c)
        BY <2>5, <3>2
    <3>4. ValuesUsed(f, b) = ValuesUsed(g, b)
        BY <3>3, ValuesAgree
    <3>5. Bounded(g, b)
        BY <3>1, <3>3, ValuesFit
    <3>6. QED
        BY <3>1, <3>4, <3>5
  <2>7. Reaches(g, m)
      BY <2>6 DEF Reaches
  <2>8. QED
      BY <2>1, <2>7
<1>2. QED
    BY <1>1

\* ElementsUsed is what its definition says.
LEMMA ElementsUsedIs ==
    \A b \in Seq(Byte) :
        ElementsUsed[b] = ValuesUsed(ElementsUsed, b) /\ Bounded(ElementsUsed, b)
<1> DEFINE R(k) == CHOOSE f : Reaches(f, k)
           E == [b \in Seq(Byte) |-> R(Len(b) + 1)[b]]
<1>1. ASSUME NEW b \in Seq(Byte)
      PROVE  E[b] = ValuesUsed(E, b) /\ Bounded(E, b)
  <2>1. PICK n \in Nat : n = Len(b)
      BY LenProperties
  <2>2. Reaches(R(n + 1), n + 1)
    <3>1. n + 1 \in Nat
        OBVIOUS
    <3>2. \E f : Reaches(f, n + 1)
        BY <3>1, ReachesExists
    <3>3. QED
        BY <3>2, Zenon
  <2>3. PICK f : f = R(n + 1)
      OBVIOUS
  <2>4. ASSUME NEW c \in Seq(Byte), Len(c) <= n
        PROVE  E[c] = f[c]
    <3>1. PICK k \in Nat : k = Len(c)
        BY LenProperties
    <3>2. Reaches(R(k + 1), k + 1)
      <4>1. k + 1 \in Nat
          OBVIOUS
      <4>2. \E g : Reaches(g, k + 1)
          BY <4>1, ReachesExists
      <4>3. QED
          BY <4>2, Zenon
    <3>3. PICK g : g = R(k + 1)
        OBVIOUS
    <3>4. E[c] = g[c]
        BY <3>1, <3>3
    <3> HIDE DEF R, E
    <3>5. PICK i \in Nat, j \in Nat : i = n + 1 /\ j = k + 1
        OBVIOUS
    <3>6. Reaches(f, i) /\ Reaches(g, j) /\ Len(c) < i /\ Len(c) < j
        BY <2>2, <2>3, <2>4, <3>1, <3>2, <3>3, <3>5
    <3>7. f[c] = g[c]
        BY <3>6, ReachesAgree
    <3>8. QED
        BY <3>4, <3>7
  <2> HIDE DEF R, E
  <2>5. f[b] = ValuesUsed(f, b) /\ Bounded(f, b)
      BY <2>1, <2>2, <2>3 DEF Reaches
  <2>6. ASSUME NEW c \in Shorter(b)
        PROVE  f[c] = E[c] /\ Bounded(f, c)
    <3>1. c \in Seq(Byte) /\ Len(c) < n /\ Len(c) \in Nat
        BY <2>1, LenProperties DEF Shorter
    <3>2. f[c] = E[c]
        BY <2>4, <3>1
    <3>3. Bounded(f, c)
        BY <2>2, <2>3, <3>1 DEF Reaches
    <3>4. QED
        BY <3>2, <3>3
  <2>7. ValuesUsed(f, b) = ValuesUsed(E, b)
      BY <2>6, ValuesAgree
  <2>8. E[b] = f[b]
      BY <2>1, <2>4
  <2>9. E[b] = ValuesUsed(f, b)
      BY <2>5, <2>8
  <2>10. Bounded(E, b)
      BY <2>6, <2>9, ValuesFit
  <2>11. QED
      BY <2>7, <2>9, <2>10
<1>2. E = [b \in Seq(Byte) |-> ValuesUsed(E, b)]
  <2> DEFINE F == [b \in Seq(Byte) |-> ValuesUsed(E, b)]
  <2>1. \A b \in Seq(Byte) : E[b] = F[b]
      BY <1>1
  <2>2. QED
      BY <2>1
<1>3. ElementsUsed = [b \in Seq(Byte) |-> ValuesUsed(ElementsUsed, b)]
  <2> HIDE DEF E
  <2>1. \E f : f = [b \in Seq(Byte) |-> ValuesUsed(f, b)]
      BY <1>2
  <2>2. QED
      BY <2>1, Zenon DEF ElementsUsed
<1> HIDE DEF E
<1>4. \A b \in Seq(Byte) : ElementsUsed[b] = ValuesUsed(ElementsUsed, b)
    BY <1>3
<1> DEFINE M == {n \in Nat : \E b \in Seq(Byte) : n = Len(b) /\ ~ Bounded(ElementsUsed, b)}
<1>5. ASSUME M # {} PROVE FALSE
  <2>1. PICK m \in M : \A n \in M : m <= n
      BY <1>5, LeastIn
  <2>2. PICK b \in Seq(Byte) : m = Len(b) /\ ~ Bounded(ElementsUsed, b)
      BY <2>1
  <2>3. ASSUME NEW c \in Shorter(b)
        PROVE  Bounded(ElementsUsed, c)
    <3>1. c \in Seq(Byte) /\ Len(c) \in Nat /\ Len(c) < m
        BY <2>2, LenProperties DEF Shorter
    <3>2. Len(c) \notin M
      <4>1. m \in Nat /\ ~ (m <= Len(c))
          BY <2>1, <3>1
      <4> HIDE DEF M
      <4>2. QED
          BY <2>1, <4>1
    <3>3. QED
        BY <3>1, <3>2
  <2>4. ElementsUsed[b] = ValuesUsed(ElementsUsed, b)
      BY <1>4
  <2>5. Bounded(ElementsUsed, b)
      BY <2>3, <2>4, ValuesFit
  <2>6. QED
      BY <2>2, <2>5
<1>6. QED
    BY <1>4, <1>5, LenProperties

\* axdr_parse_value takes at least the tag, and never more than there is.
LEMMA ParseFits ==
    ASSUME NEW b \in Seq(Byte)
    PROVE  /\ ParseValue(b).content \in Seq(Byte)
           /\ ParseValue(b).used = -1 \/ ParseValue(b).used \in 1 .. Len(b)
           /\ b # <<>> => ParseValue(b).used = FirstUsed(ElementsUsed, b)
<1>1. <<>> \in Seq(Byte)
    BY EmptySeq
<1>2. CASE b = <<>>
    BY <1>1, <1>2 DEF ParseValue, Failed
<1>3. CASE b # <<>> /\ Head(b) \in Compound
  <2>1. ParseValue(b) = [used |-> FirstUsed(ElementsUsed, b), content |-> <<>>]
      BY <1>3 DEF ParseValue, FirstUsed
  <2>2. \A c \in Shorter(b) : Bounded(ElementsUsed, c)
      BY ElementsUsedIs DEF Shorter
  <2>3. FirstUsed(ElementsUsed, b) = -1 \/ FirstUsed(ElementsUsed, b) \in 1 .. Len(b)
      BY <1>3, <2>2, FirstFits
  <2>4. QED
      BY <1>1, <2>1, <2>3
<1>4. CASE b # <<>> /\ Head(b) \notin Compound
  <2>1. ParseValue(b) = Simple(b) /\ FirstUsed(ElementsUsed, b) = Simple(b).used
      BY <1>4 DEF ParseValue, FirstUsed
  <2>2. QED
      BY <1>4, <2>1, SimpleFits
<1>5. QED
    BY <1>2, <1>3, <1>4

-----------------------------------------------------------------------------
(* The types                                                               *)

LEMMA OctetsTyped ==
    ASSUME NEW m \in Messages
    PROVE  Octets(m) \in Seq(Byte) /\ BlockHeader \in Seq(Byte)
<1>1. m.opening \in Seq(Byte) /\ m.parts \in Seq(Part)
    BY BlockAssumption
<1>2. BlockHeader \in Seq(Byte)
    BY DEF BlockHeader, Byte
<1>3. PICK o : o = [i \in DOMAIN m.parts |-> m.parts[i].octets]
    OBVIOUS
<1>4. o \in Seq(Seq(Byte))
  <2>1. PICK n \in Nat : n = Len(m.parts) /\ DOMAIN m.parts = 1 .. n
      BY <1>1, LenProperties
  <2>2. ASSUME NEW i \in 1 .. n PROVE m.parts[i].octets \in Seq(Byte)
    <3>1. m.parts[i] \in Part
        BY <1>1, <2>1, ElementOfSeq
    <3>2. QED
        BY <3>1 DEF Part
  <2>3. o = [i \in 1 .. n |-> m.parts[i].octets]
      BY <1>3, <2>1
  <2>4. QED
      BY <2>2, <2>3
<1>5. FlattenSeq(o) \in Seq(Byte)
    BY <1>4, FlattenConcat
<1>6. Octets(m) = BlockHeader \o m.opening \o FlattenSeq(o)
    BY <1>3 DEF Octets
<1>7. QED
    BY <1>1, <1>2, <1>5, <1>6, ConcatProperties

LEMMA BlockInitTyped == Init => TypeOK
<1> SUFFICES ASSUME Init PROVE TypeOK
    OBVIOUS
<1>1. /\ pos = 0 /\ items = <<>> /\ phase = "head" /\ message \in Messages
      /\ \/ got = "all" /\ info = Octets(message)
         \/ /\ got = "head"
            /\ \E n \in 5 + Len(message.opening) .. Len(Octets(message)) - 1 :
                  info = SubSeq(Octets(message), 1, n)
         \/ /\ got = "tail"
            /\ \E n \in 5 + Len(message.opening) .. Len(Octets(message)) - 1 :
                  info = BlockHeader \o Rest(Octets(message), n)
    BY DEF Init
<1>2. PICK o \in Seq(Byte) : o = Octets(message) /\ BlockHeader \in Seq(Byte)
    BY <1>1, OctetsTyped
<1>3. PICK k \in Nat : k = Len(message.opening)
  <2>1. message.opening \in Seq(Byte)
      BY <1>1, BlockAssumption
  <2>2. QED
      BY <2>1, LenProperties
<1>4. Len(o) \in Nat
    BY LenProperties
<1>5. info \in Seq(Byte)
  <2>1. CASE info = o
      BY <2>1
  <2>2. ASSUME NEW n \in 5 + k .. Len(o) - 1, info = SubSeq(o, 1, n)
        PROVE  info \in Seq(Byte)
    <3>1. n \in 0 .. Len(o)
        BY <1>4
    <3>2. QED
        BY <2>2, <3>1, InFront
  <2>3. ASSUME NEW n \in 5 + k .. Len(o) - 1, info = BlockHeader \o Rest(o, n)
        PROVE  info \in Seq(Byte)
    <3>1. n \in Nat
        BY <1>4
    <3>2. Rest(o, n) \in Seq(Byte)
        BY <3>1, RestFits
    <3>3. QED
        BY <1>2, <2>3, <3>2, ConcatProperties
  <2>4. QED
      BY <1>1, <1>2, <1>3, <2>1, <2>2, <2>3
<1>6. Len(info) \in Nat /\ items \in Seq(Item)
    BY <1>1, <1>5, LenProperties, EmptySeq
<1>7. got \in {"all", "head", "tail"}
    BY <1>1
<1>8. QED
    BY <1>1, <1>5, <1>6, <1>7 DEF TypeOK

LEMMA SkipHeadersTyped == TypeOK /\ SkipHeaders => TypeOK'
<1> SUFFICES ASSUME TypeOK, SkipHeaders PROVE TypeOK'
    OBVIOUS
<1>1. /\ info \in Seq(Byte) /\ items \in Seq(Item) /\ pos \in 0 .. Len(info)
      /\ got \in {"all", "head", "tail"} /\ Len(info) \in Nat
    BY LenProperties DEF TypeOK
<1>2. info' = info /\ items' = items /\ got' = got /\ phase' \in {"walk", "done"}
    BY DEF SkipHeaders
<1>3. pos' \in 0 .. Len(info)
  <2>1. CASE Len(info) <= 4
      BY <1>1, <2>1 DEF SkipHeaders
  <2>2. CASE ~ (Len(info) <= 4)
    <3>1. PICK n \in {0, 18}, m \in {0, 4} :
             /\ n = NotificationAt(Rest(info, 4)) /\ m = OpeningAt(Rest(info, 4 + n))
             /\ pos' = 4 + n + m
        BY <1>1, <2>2 DEF SkipHeaders, NotificationAt, OpeningAt
    <3>2. Len(Rest(info, 4)) = Len(info) - 4
        BY <1>1, <2>2, RestFits
    <3>3. 4 + n <= Len(info)
        BY <1>1, <2>2, <3>1, <3>2 DEF NotificationAt
    <3>4. 4 + n \in Nat
        OBVIOUS
    <3>5. Len(Rest(info, 4 + n)) = Len(info) - (4 + n)
        BY <1>1, <3>3, <3>4, RestFits
    <3>6. 4 + n + m <= Len(info)
        BY <1>1, <3>1, <3>3, <3>5 DEF OpeningAt
    <3>7. QED
        BY <1>1, <3>1, <3>6
  <2>3. QED
      BY <2>1, <2>2
<1>4. QED
    BY <1>1, <1>2, <1>3 DEF TypeOK

\* What is left of the block.
LEMMA HereFits ==
    ASSUME TypeOK
    PROVE  /\ Here \in Seq(Byte) /\ Len(info) \in Nat /\ pos \in Nat
           /\ Len(Here) = Len(info) - pos
           /\ Here # <<>> => Here[1] \in Byte
<1>1. info \in Seq(Byte) /\ Len(info) \in Nat /\ pos \in 0 .. Len(info)
    BY LenProperties DEF TypeOK
<1>2. pos \in Nat /\ pos <= Len(info)
    BY <1>1
<1>3. PICK b : b = Rest(info, pos)
    OBVIOUS
<1>4. b \in Seq(Byte) /\ Len(b) = Len(info) - pos
    BY <1>1, <1>2, <1>3, RestFits
<1>5. b # <<>> => b[1] \in Byte
    BY <1>4, TailFits
<1>6. QED
    BY <1>1, <1>2, <1>3, <1>4, <1>5 DEF Here

LEMMA TakeDefinitionTyped == TypeOK /\ TakeDefinition => TypeOK'
<1> SUFFICES ASSUME TypeOK, TakeDefinition PROVE TypeOK'
    OBVIOUS
<1>1. /\ info \in Seq(Byte) /\ items \in Seq(Item) /\ phase \in {"head", "walk", "done", "stopped"}
      /\ got \in {"all", "head", "tail"}
    BY DEF TypeOK
<1>2. /\ Here \in Seq(Byte) /\ Len(info) \in Nat /\ pos \in Nat
      /\ Len(Here) = Len(info) - pos
    BY HereFits
<1>3. Len(Here) >= 18
    BY DEF TakeDefinition, IsDefinition
<1>4. pos' = pos + 18 /\ info' = info /\ phase' = phase /\ got' = got
    BY DEF TakeDefinition
<1>5. items' \in Seq(Item)
  <2>1. \A i \in 8 .. 13 : Here[i] \in Byte
      BY <1>2, <1>3, ElementOfSeq
  <2>2. SubSeq(Here, 8, 13) \in Seq(Byte)
      BY <2>1, SubSeqProperties
  <2>3. [kind |-> "def", type |-> 0, content |-> SubSeq(Here, 8, 13)] \in Item
      BY <2>2 DEF Item, Byte
  <2>4. PICK x \in Item : items' \in {items, Append(items, x)}
      BY <2>3 DEF TakeDefinition
  <2>5. Append(items, x) \in Seq(Item)
      BY <1>1, AppendProperties
  <2>6. QED
      BY <1>1, <2>4, <2>5
<1>6. pos' \in 0 .. Len(info')
    BY <1>2, <1>3, <1>4
<1>7. QED
    BY <1>1, <1>4, <1>5, <1>6 DEF TypeOK

LEMMA TakeValueTyped == TypeOK /\ TakeValue => TypeOK'
<1> SUFFICES ASSUME TypeOK, TakeValue PROVE TypeOK'
    OBVIOUS
<1>1. /\ info \in Seq(Byte) /\ items \in Seq(Item) /\ phase \in {"head", "walk", "done", "stopped"}
      /\ got \in {"all", "head", "tail"} /\ pos \in 0 .. Len(info)
    BY DEF TypeOK
<1>2. /\ Here \in Seq(Byte) /\ Len(info) \in Nat /\ pos \in Nat
      /\ Len(Here) = Len(info) - pos /\ (Here # <<>> => Here[1] \in Byte)
    BY HereFits
<1>3. PICK v : v = ParseValue(Here)
    OBVIOUS
<1>4. v.content \in Seq(Byte) /\ (v.used = -1 \/ v.used \in 1 .. Len(Here))
    BY <1>2, <1>3, ParseFits
<1>5. info' = info /\ got' = got
    BY DEF TakeValue
<1>6. CASE /\ v.used > 0 /\ pos' = pos + v.used /\ phase' = phase /\ Here # <<>>
           /\ items' = Append(items, [kind |-> "val", type |-> Here[1],
                                      content |-> v.content])
  <2>1. [kind |-> "val", type |-> Here[1], content |-> v.content] \in Item
      BY <1>2, <1>4, <1>6 DEF Item
  <2>2. items' \in Seq(Item)
      BY <1>1, <1>6, <2>1, AppendProperties
  <2>3. pos' \in 0 .. Len(info')
      BY <1>2, <1>4, <1>5, <1>6
  <2>4. QED
      BY <1>1, <1>5, <1>6, <2>2, <2>3 DEF TypeOK
<1>7. CASE phase' = "stopped" /\ items' = items /\ pos' = pos
    BY <1>1, <1>5, <1>7 DEF TypeOK
<1>8. QED
    BY <1>3, <1>6, <1>7 DEF TakeValue

LEMMA BlockStepTyped == TypeOK /\ [Next]_vars => TypeOK'
<1> SUFFICES ASSUME TypeOK, [Next]_vars PROVE TypeOK'
    OBVIOUS
<1>1. CASE SkipHeaders
    BY <1>1, SkipHeadersTyped
<1>2. CASE TakeDefinition
    BY <1>2, TakeDefinitionTyped
<1>3. CASE TakeValue
    BY <1>3, TakeValueTyped
<1>4. CASE EndOfBlock
    BY <1>4 DEF EndOfBlock, TypeOK
<1>5. CASE UNCHANGED vars
    BY <1>5 DEF vars, TypeOK
<1>6. QED
    BY <1>1, <1>2, <1>3, <1>4, <1>5 DEF Next

\* TypeOK: whatever octets a block consists of, however values are nested in it
\* and wherever it was cut, the walk stays within the block, and what it stores
\* are items.
THEOREM BlockTypeCorrect == Spec => []TypeOK
BY BlockInitTyped, BlockStepTyped, PTL DEF Spec

-----------------------------------------------------------------------------
(* With more behind it                                                     *)

\* What a sequence consists of is not changed by what comes behind it.
LEMMA WithMore ==
    ASSUME NEW b \in Seq(Byte), NEW r \in Seq(Byte)
    PROVE  /\ b \o r \in Seq(Byte) /\ Len(b) \in Nat /\ Len(r) \in Nat
           /\ Len(b \o r) = Len(b) + Len(r)
           /\ \A i \in Nat : 1 <= i /\ i <= Len(b) => (b \o r)[i] = b[i]
           /\ \A i \in Nat : 1 <= i /\ i <= Len(r) => (b \o r)[Len(b) + i] = r[i]
<1>1. Len(b) \in Nat /\ Len(r) \in Nat
    BY LenProperties
<1>2. /\ b \o r \in Seq(Byte) /\ Len(b \o r) = Len(b) + Len(r)
      /\ \A i \in 1 .. Len(b) + Len(r) :
            (b \o r)[i] = IF i <= Len(b) THEN b[i] ELSE r[i - Len(b)]
    BY ConcatProperties
<1>3. ASSUME NEW i \in Nat, 1 <= i, i <= Len(b) PROVE (b \o r)[i] = b[i]
    BY <1>1, <1>2, <1>3
<1>4. ASSUME NEW i \in Nat, 1 <= i, i <= Len(r) PROVE (b \o r)[Len(b) + i] = r[i]
  <2>1. PICK j \in Nat : j = Len(b) + i
      BY <1>1
  <2>2. j \in 1 .. Len(b) + Len(r) /\ ~ (j <= Len(b)) /\ j - Len(b) = i
      BY <1>1, <1>4, <2>1
  <2>3. (b \o r)[j] = r[j - Len(b)]
      BY <1>2, <2>2
  <2>4. QED
      BY <2>1, <2>2, <2>3
<1>5. QED
    BY <1>1, <1>2, <1>3, <1>4

LEMMA CutWithMore ==
    ASSUME NEW b \in Seq(Byte), NEW r \in Seq(Byte), NEW i \in Nat, NEW j \in Nat,
           1 <= i, j <= Len(b)
    PROVE  SubSeq(b \o r, i, j) = SubSeq(b, i, j)
<1>1. CASE i <= j
  <2>1. i \in 1 .. Len(b) /\ j \in 1 .. Len(b)
      BY <1>1, LenProperties
  <2>2. QED
      BY <2>1, SubSeqOfConcat1
<1>2. CASE ~ (i <= j)
  <2>1. j < i /\ i \in Int /\ j \in Int
      BY <1>2
  <2>2. SubSeq(b \o r, i, j) = <<>> /\ SubSeq(b, i, j) = <<>>
      BY <2>1, SubSeqEmpty
  <2>3. QED
      BY <2>2
<1>3. QED
    BY <1>1, <1>2

LEMMA RestWithMore ==
    ASSUME NEW b \in Seq(Byte), NEW r \in Seq(Byte), NEW n \in Nat, n <= Len(b)
    PROVE  Rest(b \o r, n) = Rest(b, n) \o r
<1>1. /\ b \o r \in Seq(Byte) /\ Len(b) \in Nat /\ Len(r) \in Nat
      /\ Len(b \o r) = Len(b) + Len(r)
      /\ \A i \in Nat : 1 <= i /\ i <= Len(b) => (b \o r)[i] = b[i]
      /\ \A i \in Nat : 1 <= i /\ i <= Len(r) => (b \o r)[Len(b) + i] = r[i]
    BY WithMore
<1>2. PICK c \in Seq(Byte) : c = Rest(b, n)
    BY RestFits
<1>3. Len(c) = Len(b) - n /\ \A i \in 1 .. Len(b) - n : c[i] = b[n + i]
    BY <1>2, RestFits
<1>4. /\ c \o r \in Seq(Byte) /\ Len(c \o r) = Len(c) + Len(r)
      /\ \A i \in Nat : 1 <= i /\ i <= Len(c) => (c \o r)[i] = c[i]
      /\ \A i \in Nat : 1 <= i /\ i <= Len(r) => (c \o r)[Len(c) + i] = r[i]
    BY WithMore
<1>5. PICK d \in Seq(Byte) : d = Rest(b \o r, n)
    BY <1>1, RestFits
<1>6. n <= Len(b \o r)
    BY <1>1
<1>7. /\ Len(d) = Len(b) + Len(r) - n
      /\ \A i \in 1 .. Len(b) + Len(r) - n : d[i] = (b \o r)[n + i]
  <2>1. /\ Len(d) = Len(b \o r) - n
        /\ \A i \in 1 .. Len(b \o r) - n : d[i] = (b \o r)[n + i]
      BY <1>1, <1>5, <1>6, RestFits
  <2>2. QED
      BY <1>1, <2>1
<1>8. Len(d) = Len(c \o r)
    BY <1>1, <1>3, <1>4, <1>7
<1>9. ASSUME NEW i \in 1 .. Len(d) PROVE d[i] = (c \o r)[i]
  <2>1. i \in Nat /\ i >= 1 /\ i <= Len(b) + Len(r) - n /\ d[i] = (b \o r)[n + i]
      BY <1>1, <1>7
  <2>2. CASE i <= Len(c)
    <3>1. (c \o r)[i] = c[i] /\ c[i] = b[n + i]
        BY <1>3, <1>4, <2>1, <2>2
    <3>2. PICK k \in Nat : k = n + i
        BY <2>1
    <3>3. (b \o r)[k] = b[k]
        BY <1>1, <1>3, <2>1, <2>2, <3>2
    <3>4. QED
        BY <2>1, <3>1, <3>2, <3>3
  <2>3. CASE ~ (i <= Len(c))
    <3>1. PICK k \in Nat : k = i - Len(c)
      <4>1. Len(c) \in Nat /\ i \in Nat /\ ~ (i <= Len(c))
          BY <2>1, <2>3, LenProperties
      <4>2. i - Len(c) \in Nat
          BY <4>1
      <4>3. QED
          BY <4>2
    <3>2. 1 <= k /\ k <= Len(r) /\ n + i = Len(b) + k /\ i = Len(c) + k
        BY <1>1, <1>3, <2>1, <2>3, <3>1
    <3>3. (b \o r)[Len(b) + k] = r[k] /\ (c \o r)[Len(c) + k] = r[k]
        BY <1>1, <1>4, <3>2
    <3>4. QED
        BY <2>1, <3>2, <3>3
  <2>4. QED
      BY <2>2, <2>3
<1>10. d = c \o r
    BY <1>4, <1>8, <1>9, SeqEqual
<1>11. QED
    BY <1>2, <1>5, <1>10

LEMMA TailWithMore ==
    ASSUME NEW b \in Seq(Byte), b # <<>>, NEW r \in Seq(Byte)
    PROVE  /\ b \o r # <<>> /\ Head(b \o r) = Head(b) /\ Tail(b \o r) = Tail(b) \o r
<1>1. Len(b) \in Nat /\ Len(b) >= 1
    BY EmptySeq
<1>2. /\ b \o r \in Seq(Byte) /\ Len(r) \in Nat /\ Len(b \o r) = Len(b) + Len(r)
      /\ (b \o r)[1] = b[1]
    BY <1>1, WithMore
<1>3. b \o r # <<>>
    BY <1>1, <1>2, EmptySeq
<1>4. Head(b) = b[1] /\ Head(b \o r) = (b \o r)[1]
    BY <1>2, <1>3, TailFits
<1>5. Rest(b \o r, 1) = Rest(b, 1) \o r
    BY <1>1, RestWithMore
<1>6. Tail(b) = Rest(b, 1) /\ Tail(b \o r) = Rest(b \o r, 1)
    BY <1>2, <1>3, TailIsSubSeq DEF Rest
<1>7. QED
    BY <1>2, <1>3, <1>4, <1>5, <1>6

LEMMA LengthWithMore ==
    ASSUME NEW b \in Seq(Byte), NEW r \in Seq(Byte), ParseLength(b).used # -1
    PROVE  ParseLength(b \o r) = ParseLength(b)
<1>1. PICK n \in Nat, m \in Nat :
         /\ n = Len(b) /\ Len(b \o r) = n + m
         /\ \A i \in Nat : 1 <= i /\ i <= n => (b \o r)[i] = b[i]
    BY WithMore
<1>2. PICK x \in Nat : x < 256 /\ (n >= 1 => b[1] = x)
    BY <1>1, OctetAt
<1>3. PICK y \in Nat : y < 256 /\ (n >= 2 => b[2] = y)
    BY <1>1, OctetAt
<1>4. PICK z \in Nat : z < 256 /\ (n >= 3 => b[3] = z)
    BY <1>1, OctetAt
<1>5. CASE n >= 1 /\ x < 128
  <2>1. ParseLength(b) = [used |-> 1, value |-> x]
      BY <1>1, <1>2, <1>3, <1>5 DEF ParseLength
  <2>2. Len(b \o r) >= 1 /\ (b \o r)[1] = x
      BY <1>1, <1>2, <1>5
  <2>3. ParseLength(b \o r) = [used |-> 1, value |-> x]
      BY <1>5, <2>2 DEF ParseLength
  <2>4. QED
      BY <2>1, <2>3
<1>6. CASE n >= 2 /\ x = 129
  <2>1. ParseLength(b) = [used |-> 2, value |-> y]
      BY <1>1, <1>2, <1>3, <1>6 DEF ParseLength
  <2>2. Len(b \o r) >= 2 /\ (b \o r)[1] = x /\ (b \o r)[2] = y
      BY <1>1, <1>2, <1>3, <1>6
  <2>3. ParseLength(b \o r) = [used |-> 2, value |-> y]
      BY <1>6, <2>2 DEF ParseLength
  <2>4. QED
      BY <2>1, <2>3
<1>7. CASE n >= 3 /\ x = 130
  <2>1. ParseLength(b) = [used |-> 3, value |-> y * 256 + z]
      BY <1>1, <1>2, <1>3, <1>4, <1>7 DEF ParseLength
  <2>2. Len(b \o r) >= 3 /\ (b \o r)[1] = x /\ (b \o r)[2] = y /\ (b \o r)[3] = z
      BY <1>1, <1>2, <1>3, <1>4, <1>7
  <2>3. ParseLength(b \o r) = [used |-> 3, value |-> y * 256 + z]
      BY <1>7, <2>2 DEF ParseLength
  <2>4. QED
      BY <2>1, <2>3
<1>8. CASE ~ (n >= 1 /\ x < 128) /\ ~ (n >= 2 /\ x = 129) /\ ~ (n >= 3 /\ x = 130)
  <2>1. ParseLength(b) = [used |-> -1, value |-> 0]
      BY <1>1, <1>2, <1>8 DEF ParseLength
  <2>2. QED
      BY <2>1
<1>9. QED
    BY <1>5, <1>6, <1>7, <1>8

LEMMA NumberWithMore ==
    ASSUME NEW b \in Seq(Byte), NEW r \in Seq(Byte), NEW n \in Nat, NEW w, NEW v,
           n <= Len(b) => v = w, Number(b, n, w).used # -1
    PROVE  Number(b \o r, n, v) = Number(b, n, w)
<1>1. PICK k \in Nat, m \in Nat : k = Len(b) /\ Len(b \o r) = k + m
    BY WithMore
<1>2. ~ (k < n)
    BY <1>1 DEF Number, Failed
<1>3. ~ (Len(b \o r) < n) /\ n <= Len(b)
    BY <1>1, <1>2
<1>4. QED
    BY <1>1, <1>2, <1>3 DEF Number

LEMMA ExtendedWithMore ==
    ASSUME NEW b \in Seq(Byte), NEW r \in Seq(Byte), NEW n \in Nat, 1 <= n, n <= Len(b)
    PROVE  /\ SignExtended(b \o r, n) = SignExtended(b, n)
           /\ ZeroExtended(b \o r, n) = ZeroExtended(b, n)
           /\ Truth(b \o r) = Truth(b)
<1>1. SubSeq(b \o r, 1, n) = SubSeq(b, 1, n)
    BY CutWithMore
<1>2. 1 <= Len(b)
    BY LenProperties
<1>3. (b \o r)[1] = b[1]
    BY <1>2, WithMore
<1>4. QED
    BY <1>1, <1>3 DEF SignExtended, ZeroExtended, Truth

LEMMA StringWithMore ==
    ASSUME NEW b \in Seq(Byte), NEW r \in Seq(Byte), String(b).used # -1
    PROVE  String(b \o r) = String(b)
<1>1. PICK u, v : u = ParseLength(b).used /\ v = ParseLength(b).value
    OBVIOUS
<1>2. String(b) # Failed
    BY DEF Failed
<1>3. /\ u \in Nat /\ v \in Nat /\ u >= 1 /\ u + v <= Len(b)
      /\ String(b) = [used    |-> 1 + u + v,
                      content |-> SubSeq(b, u + 1, u + IF v < MaxText THEN v ELSE MaxText)]
    BY <1>1, <1>2, StringIs
<1>4. ParseLength(b \o r) = ParseLength(b)
    BY <1>1, <1>3, LengthWithMore
<1>5. PICK m \in Nat : m <= v /\ m = IF v < MaxText THEN v ELSE MaxText
    BY <1>3, BlockAssumption
<1>6. PICK k \in Nat, l \in Nat : k = Len(b) /\ Len(b \o r) = k + l
    BY WithMore
<1>7. PICK i \in Nat, j \in Nat : i = u + 1 /\ j = u + m /\ 1 <= i /\ j <= Len(b)
  <2>1. u \in Nat /\ u + v <= k
      BY <1>3, <1>6
  <2>2. u + 1 \in Nat /\ 1 <= u + 1 /\ u + m \in Nat /\ u + m <= k
      BY <1>3, <1>5, <2>1
  <2>3. QED
      BY <1>6, <2>2
<1>8. SubSeq(b \o r, i, j) = SubSeq(b, i, j)
  <2>1. ASSUME NEW a \in Nat, NEW c \in Nat, 1 <= a, c <= Len(b)
        PROVE  SubSeq(b \o r, a, c) = SubSeq(b, a, c)
      BY <2>1, CutWithMore
  <2>2. QED
      BY <1>7, <2>1, Zenon
<1>9. ~ (u < 0 \/ Len(b \o r) < u + v)
    BY <1>3, <1>6
<1>10. String(b \o r) = [used |-> 1 + u + v, content |-> SubSeq(b \o r, i, j)]
    BY <1>1, <1>4, <1>5, <1>7, <1>9 DEF String
<1>11. QED
    BY <1>3, <1>5, <1>7, <1>8, <1>10

LEMMA SimpleWithMore ==
    ASSUME NEW b \in Seq(Byte), b # <<>>, NEW r \in Seq(Byte), Simple(b).used # -1
    PROVE  Simple(b \o r) = Simple(b)
<1>1. PICK t \in Nat, body \in Seq(Byte), c \in Seq(Byte), more \in Seq(Byte) :
         /\ t = Head(b) /\ body = Tail(b) /\ c = b \o r /\ more = body \o r
         /\ c # <<>> /\ Head(c) = t /\ Tail(c) = more
  <2>1. Head(b) \in Nat /\ Tail(b) \in Seq(Byte)
      BY TailFits
  <2>2. b \o r # <<>> /\ Head(b \o r) = Head(b) /\ Tail(b \o r) = Tail(b) \o r
      BY TailWithMore
  <2>3. b \o r \in Seq(Byte) /\ Tail(b) \o r \in Seq(Byte)
      BY <2>1, WithMore
  <2>4. QED
      BY <2>1, <2>2, <2>3
<1>2. CASE t = 0
    BY <1>1, <1>2, SimpleNull
<1>3. CASE t = 3
  <2>1. Simple(b) = Number(body, 1, Truth(body))
      BY <1>1, <1>3, SimpleTruth
  <2>2. Simple(c) = Number(more, 1, Truth(more))
      BY <1>1, <1>3, SimpleTruth
  <2>3. 1 <= Len(body) => Truth(body \o r) = Truth(body)
      BY ExtendedWithMore
  <2>4. Number(body \o r, 1, Truth(body \o r)) = Number(body, 1, Truth(body))
      BY <2>1, <2>3, NumberWithMore
  <2>5. QED
      BY <1>1, <2>1, <2>2, <2>4
<1>4. CASE t \in DOMAIN Signed
  <2>1. PICK n \in Nat : n = Signed[t] /\ 1 <= n
      BY <1>4, Tags
  <2>2. Simple(b) = Number(body, n, SignExtended(body, n))
      BY <1>1, <1>4, <2>1, SimpleSigned
  <2>3. Simple(c) = Number(more, n, SignExtended(more, n))
      BY <1>1, <1>4, <2>1, SimpleSigned
  <2>4. n <= Len(body) => SignExtended(body \o r, n) = SignExtended(body, n)
      BY <2>1, ExtendedWithMore
  <2>5. Number(body \o r, n, SignExtended(body \o r, n))
            = Number(body, n, SignExtended(body, n))
      BY <2>2, <2>4, NumberWithMore
  <2>6. QED
      BY <1>1, <2>2, <2>3, <2>5
<1>5. CASE t \in DOMAIN Unsigned \ {3}
  <2>1. PICK n \in Nat : n = Unsigned[t] /\ 1 <= n
      BY <1>5, Tags
  <2>2. Simple(b) = Number(body, n, ZeroExtended(body, n))
      BY <1>1, <1>5, <2>1, SimpleUnsigned
  <2>3. Simple(c) = Number(more, n, ZeroExtended(more, n))
      BY <1>1, <1>5, <2>1, SimpleUnsigned
  <2>4. n <= Len(body) => ZeroExtended(body \o r, n) = ZeroExtended(body, n)
      BY <2>1, ExtendedWithMore
  <2>5. Number(body \o r, n, ZeroExtended(body \o r, n))
            = Number(body, n, ZeroExtended(body, n))
      BY <2>2, <2>4, NumberWithMore
  <2>6. QED
      BY <1>1, <2>2, <2>3, <2>5
<1>6. CASE t \in Text
  <2>1. Simple(b) = String(body) /\ Simple(c) = String(more)
      BY <1>1, <1>6, SimpleText
  <2>2. String(body \o r) = String(body)
      BY <2>1, StringWithMore
  <2>3. QED
      BY <1>1, <2>1, <2>2
<1>7. CASE /\ t # 0 /\ t \notin DOMAIN Signed
           /\ t \notin DOMAIN Unsigned /\ t \notin Text
  <2>1. Simple(b) = Failed
      BY <1>1, <1>7, SimpleOther
  <2>2. QED
      BY <2>1 DEF Failed
<1>8. QED
    BY <1>2, <1>3, <1>4, <1>5, <1>6, <1>7

\* Where the elements of a compound are when more follows it.
LEMMA ElementsAtWithMore ==
    ASSUME NEW b \in Seq(Byte), b # <<>>, NEW r \in Seq(Byte)
    PROVE  \E u \in Int, v \in Nat, c \in Seq(Byte) :
              /\ \A f : CompoundUsed(f, b) = IF u < 0 \/ f[c][v] < 0 THEN -1
                                             ELSE 1 + u + f[c][v]
              /\ u >= 0 => \A f : CompoundUsed(f, b \o r) = IF f[c \o r][v] < 0 THEN -1
                                                           ELSE 1 + u + f[c \o r][v]
              /\ u < 0 \/ c \in Shorter(b)
<1>1. PICK u, v : u = ParseLength(Tail(b)).used /\ v = ParseLength(Tail(b)).value
    OBVIOUS
<1>2. /\ Tail(b) \in Seq(Byte) /\ Len(Tail(b)) \in Nat
      /\ Len(b) = Len(Tail(b)) + 1
    BY TailFits
<1>3. (u = -1 /\ v = 0) \/ (u \in 1 .. Len(Tail(b)) /\ v \in Nat)
    BY <1>1, <1>2, LengthFits
<1>4. \A f : CompoundUsed(f, b) = IF u < 0 \/ f[Rest(Tail(b), u)][v] < 0 THEN -1
                                  ELSE 1 + u + f[Rest(Tail(b), u)][v]
    BY <1>1, Zenon DEF CompoundUsed
<1>5. CASE u = -1 /\ v = 0
  <2>1. \A f : CompoundUsed(f, b) = IF u < 0 \/ f[<<>>][v] < 0 THEN -1
                                    ELSE 1 + u + f[<<>>][v]
      BY <1>3, <1>4, <1>5
  <2>2. <<>> \in Seq(Byte)
      BY EmptySeq
  <2>3. u \in Int /\ v \in Nat /\ u < 0 /\ ~ (u >= 0)
      BY <1>5
  <2>4. QED
      BY <2>1, <2>2, <2>3, Zenon
<1>6. CASE u \in 1 .. Len(Tail(b)) /\ v \in Nat
  <2>1. u \in Nat /\ u >= 1 /\ u <= Len(Tail(b)) /\ ~ (u < 0) /\ u \in Int /\ u # -1
      BY <1>2, <1>6
  <2>2. PICK c : c = Rest(Tail(b), u)
      OBVIOUS
  <2>3. c \in Seq(Byte) /\ Len(c) = Len(Tail(b)) - u
      BY <1>2, <2>1, <2>2, RestFits
  <2>4. c \in Shorter(b)
      BY <1>2, <2>1, <2>3 DEF Shorter
  <2>5. Tail(b \o r) = Tail(b) \o r
      BY TailWithMore
  <2>6. ParseLength(Tail(b) \o r) = ParseLength(Tail(b))
      BY <1>1, <1>2, <2>1, LengthWithMore
  <2>7. Rest(Tail(b) \o r, u) = c \o r
      BY <1>2, <2>1, <2>2, RestWithMore
  <2>8. \A f : CompoundUsed(f, b \o r) = IF u < 0 \/ f[c \o r][v] < 0 THEN -1
                                         ELSE 1 + u + f[c \o r][v]
      BY <1>1, <2>5, <2>6, <2>7, Zenon DEF CompoundUsed
  <2>9. \A f : CompoundUsed(f, b \o r) = IF f[c \o r][v] < 0 THEN -1
                                         ELSE 1 + u + f[c \o r][v]
      BY <2>1, <2>8
  <2>10. \A f : CompoundUsed(f, b) = IF u < 0 \/ f[c][v] < 0 THEN -1
                                    ELSE 1 + u + f[c][v]
      BY <1>4, <2>2, Zenon
  <2>11. v \in Nat /\ u \in Int
      BY <1>6, <2>1
  <2>12. QED
      BY <2>3, <2>4, <2>9, <2>10, <2>11, Zenon
<1>7. QED
    BY <1>3, <1>5, <1>6

\* What the first n values of b take is what they take with more behind.
SameWithMore(b) ==
    \A r \in Seq(Byte), n \in Nat :
        ElementsUsed[b][n] # -1 => ElementsUsed[b \o r][n] = ElementsUsed[b][n]

LEMMA FirstWithMore ==
    ASSUME NEW b \in Seq(Byte), b # <<>>, NEW r \in Seq(Byte),
           \A c \in Shorter(b) : SameWithMore(c), FirstUsed(ElementsUsed, b) # -1
    PROVE  FirstUsed(ElementsUsed, b \o r) = FirstUsed(ElementsUsed, b)
<1>1. b \o r # <<>> /\ Head(b \o r) = Head(b)
    BY TailWithMore
<1>2. CASE Head(b) \in Compound
  <2>1. PICK u \in Int, v \in Nat, c \in Seq(Byte) :
           /\ \A f : CompoundUsed(f, b) = IF u < 0 \/ f[c][v] < 0 THEN -1
                                          ELSE 1 + u + f[c][v]
           /\ u >= 0 => \A f : CompoundUsed(f, b \o r) = IF f[c \o r][v] < 0 THEN -1
                                                        ELSE 1 + u + f[c \o r][v]
           /\ u < 0 \/ c \in Shorter(b)
      BY ElementsAtWithMore
  <2>2. CompoundUsed(ElementsUsed, b) =
            IF u < 0 \/ ElementsUsed[c][v] < 0 THEN -1 ELSE 1 + u + ElementsUsed[c][v]
      BY <2>1
  <2>3. /\ FirstUsed(ElementsUsed, b) = CompoundUsed(ElementsUsed, b)
        /\ FirstUsed(ElementsUsed, b \o r) = CompoundUsed(ElementsUsed, b \o r)
      BY <1>1, <1>2 DEF FirstUsed
  <2>4. ~ (u < 0) /\ ~ (ElementsUsed[c][v] < 0) /\ ElementsUsed[c][v] # -1
      BY <2>2, <2>3
  <2>5. ElementsUsed[c \o r][v] = ElementsUsed[c][v]
      BY <2>1, <2>4 DEF SameWithMore
  <2>6. u >= 0
      BY <2>4
  <2>7. CompoundUsed(ElementsUsed, b \o r) =
            IF ElementsUsed[c \o r][v] < 0 THEN -1 ELSE 1 + u + ElementsUsed[c \o r][v]
      BY <2>1, <2>6
  <2>8. QED
      BY <2>2, <2>3, <2>4, <2>5, <2>7
<1>3. CASE Head(b) \notin Compound
  <2>1. FirstUsed(ElementsUsed, b) = Simple(b).used
      BY <1>3 DEF FirstUsed
  <2>2. FirstUsed(ElementsUsed, b \o r) = Simple(b \o r).used
      BY <1>1, <1>3 DEF FirstUsed
  <2>3. Simple(b \o r) = Simple(b)
      BY <2>1, SimpleWithMore
  <2>4. QED
      BY <2>1, <2>2, <2>3
<1>4. QED
    BY <1>2, <1>3

LEMMA ElementsWithMore == \A b \in Seq(Byte) : SameWithMore(b)
<1> DEFINE M == {n \in Nat : \E b \in Seq(Byte) : n = Len(b) /\ ~ SameWithMore(b)}
<1>1. ASSUME M # {} PROVE FALSE
  <2>1. PICK m \in M : \A n \in M : m <= n
      BY <1>1, LeastIn
  <2>2. PICK b \in Seq(Byte) : m = Len(b) /\ ~ SameWithMore(b)
      BY <2>1
  <2>3. ASSUME NEW c \in Shorter(b)
        PROVE  SameWithMore(c)
    <3>1. c \in Seq(Byte) /\ Len(c) \in Nat /\ Len(c) < m
        BY <2>2, LenProperties DEF Shorter
    <3>2. Len(c) \notin M
      <4>1. m \in Nat /\ ~ (m <= Len(c))
          BY <2>1, <3>1
      <4> HIDE DEF M
      <4>2. QED
          BY <2>1, <4>1
    <3>3. QED
        BY <3>1, <3>2
  <2> HIDE DEF M
  <2>4. ASSUME NEW r \in Seq(Byte), NEW n \in Nat, ElementsUsed[b][n] # -1
        PROVE  ElementsUsed[b \o r][n] = ElementsUsed[b][n]
    <3>1. b \o r \in Seq(Byte)
        BY WithMore
    <3>2. /\ ElementsUsed[b] = ValuesUsed(ElementsUsed, b)
          /\ ElementsUsed[b \o r] = ValuesUsed(ElementsUsed, b \o r)
        BY <3>1, ElementsUsedIs
    <3>3. /\ \A c \in Shorter(b) : Bounded(ElementsUsed, c)
          /\ \A c \in Shorter(b \o r) : Bounded(ElementsUsed, c)
        BY ElementsUsedIs DEF Shorter
    <3>4. PICK k : k = FirstUsed(ElementsUsed, b)
        OBVIOUS
    <3>5. /\ n = 0 => ElementsUsed[b][n] = 0
          /\ n # 0 /\ (b = <<>> \/ k = -1) => ElementsUsed[b][n] = -1
          /\ n # 0 /\ b # <<>> /\ k # -1 =>
                /\ k \in 1 .. Len(b) /\ n - 1 \in Nat /\ Rest(b, k) \in Shorter(b)
                /\ Len(Rest(b, k)) = Len(b) - k
                /\ ElementsUsed[b][n] = IF ElementsUsed[Rest(b, k)][n - 1] < 0 THEN -1
                                        ELSE k + ElementsUsed[Rest(b, k)][n - 1]
        BY <3>2, <3>3, <3>4, ValuesAt
    <3>6. CASE n = 0
      <4>1. ValuesUsed(ElementsUsed, b \o r)[n] = 0
          BY <3>6 DEF ValuesUsed
      <4>2. QED
          BY <3>2, <3>5, <3>6, <4>1
    <3>7. CASE n # 0
      <4>1. b # <<>> /\ k # -1
          BY <2>4, <3>5, <3>7
      <4>2. b \o r # <<>>
          BY <4>1, TailWithMore
      <4>3. FirstUsed(ElementsUsed, b \o r) = k
          BY <2>3, <3>4, <4>1, FirstWithMore
      <4>4. ElementsUsed[b \o r][n] =
                IF ElementsUsed[Rest(b \o r, k)][n - 1] < 0 THEN -1
                ELSE k + ElementsUsed[Rest(b \o r, k)][n - 1]
        <5>1. PICK d \in Seq(Byte) : d = b \o r
            BY <3>1
        <5>2. /\ \A c \in Shorter(d) : Bounded(ElementsUsed, c)
              /\ k = FirstUsed(ElementsUsed, d) /\ d # <<>>
            BY <3>3, <4>2, <4>3, <5>1
        <5>3. ValuesUsed(ElementsUsed, d)[n] =
                  IF ElementsUsed[Rest(d, k)][n - 1] < 0 THEN -1
                  ELSE k + ElementsUsed[Rest(d, k)][n - 1]
            BY <3>7, <4>1, <5>2, ValuesAt
        <5>4. QED
            BY <3>2, <5>1, <5>3
      <4>5. k \in Nat /\ k <= Len(b) /\ Rest(b, k) \in Shorter(b) /\ n - 1 \in Nat
          BY <3>5, <3>7, <4>1, LenProperties
      <4>6. Rest(b \o r, k) = Rest(b, k) \o r
          BY <4>5, RestWithMore
      <4>7. ElementsUsed[Rest(b, k)][n - 1] # -1 /\ ~ (ElementsUsed[Rest(b, k)][n - 1] < 0)
          BY <2>4, <3>5, <3>7, <4>1
      <4>8. ElementsUsed[Rest(b, k) \o r][n - 1] = ElementsUsed[Rest(b, k)][n - 1]
          BY <2>3, <4>5, <4>7 DEF SameWithMore
      <4>9. QED
          BY <3>5, <3>7, <4>1, <4>4, <4>6, <4>7, <4>8
    <3>8. QED
        BY <3>6, <3>7
  <2>5. SameWithMore(b)
      BY <2>4 DEF SameWithMore
  <2>6. QED
      BY <2>2, <2>5
<1>2. QED
    BY <1>1, LenProperties

\* What follows a value does not change it.
LEMMA ParseWithMore ==
    ASSUME NEW b \in Seq(Byte), NEW r \in Seq(Byte), ParseValue(b).used # -1
    PROVE  ParseValue(b \o r) = ParseValue(b)
<1>1. b # <<>>
    BY DEF ParseValue, Failed
<1>2. b \o r # <<>> /\ Head(b \o r) = Head(b)
    BY <1>1, TailWithMore
<1>3. CASE Head(b) \in Compound
  <2>1. ParseValue(b) = [used |-> FirstUsed(ElementsUsed, b), content |-> <<>>]
      BY <1>1, <1>3 DEF ParseValue, FirstUsed
  <2>2. ParseValue(b \o r) = [used |-> FirstUsed(ElementsUsed, b \o r), content |-> <<>>]
      BY <1>2, <1>3 DEF ParseValue, FirstUsed
  <2>3. \A c \in Shorter(b) : SameWithMore(c)
      BY ElementsWithMore DEF Shorter
  <2>4. FirstUsed(ElementsUsed, b) # -1
      BY <2>1
  <2>5. FirstUsed(ElementsUsed, b \o r) = FirstUsed(ElementsUsed, b)
      BY <1>1, <2>3, <2>4, FirstWithMore
  <2>6. QED
      BY <2>1, <2>2, <2>5
<1>4. CASE Head(b) \notin Compound
  <2>1. ParseValue(b) = Simple(b) /\ ParseValue(b \o r) = Simple(b \o r)
      BY <1>1, <1>2, <1>4 DEF ParseValue
  <2>2. QED
      BY <1>1, <2>1, SimpleWithMore
<1>5. QED
    BY <1>3, <1>4

-----------------------------------------------------------------------------
(* What is written is read back                                            *)

LEMMA LengthIsRead ==
    ASSUME NEW n \in Nat, NEW l \in Lengths(n)
    PROVE  /\ l \in Seq(Byte) /\ Len(l) \in Nat /\ Len(l) >= 1
           /\ ParseLength(l) = [used |-> Len(l), value |-> n]
<1>1. CASE n < 128 /\ l = <<n>>
  <2>1. n \in Byte
      BY <1>1 DEF Byte
  <2>2. l \in Seq(Byte) /\ Len(l) = 1 /\ l[1] = n
      BY <1>1, <2>1
  <2>3. ParseLength(l) = [used |-> 1, value |-> n]
      BY <1>1, <2>2 DEF ParseLength
  <2>4. QED
      BY <2>2, <2>3
<1>2. CASE n < 256 /\ l = <<129, n>>
  <2>1. n \in Byte /\ 129 \in Byte
      BY <1>2 DEF Byte
  <2>2. l \in Seq(Byte) /\ Len(l) = 2 /\ l[1] = 129 /\ l[2] = n
      BY <1>2, <2>1
  <2>3. ParseLength(l) = [used |-> 2, value |-> n]
      BY <2>2 DEF ParseLength
  <2>4. QED
      BY <2>2, <2>3
<1>3. CASE n < 65536 /\ l = <<130, n \div 256, n % 256>>
  <2>1. PICK y \in Nat, z \in Nat :
           /\ y = n \div 256 /\ z = n % 256 /\ y < 256 /\ z < 256
           /\ y * 256 + z = n
      BY <1>3
  <2>2. y \in Byte /\ z \in Byte /\ 130 \in Byte
      BY <2>1 DEF Byte
  <2>3. l = <<130, y, z>>
      BY <1>3, <2>1
  <2>4. l \in Seq(Byte) /\ Len(l) = 3 /\ l[1] = 130 /\ l[2] = y /\ l[3] = z
      BY <2>2, <2>3
  <2>5. ParseLength(l) = [used |-> 3, value |-> y * 256 + z]
      BY <2>4 DEF ParseLength
  <2>6. QED
      BY <2>1, <2>4, <2>5
<1>4. QED
    BY <1>1, <1>2, <1>3 DEF Lengths

LEMMA OneOctet ==
    ASSUME NEW x \in Byte
    PROVE  \E s \in Seq(Byte) : /\ s = <<x>> /\ Len(s) = 1 /\ s[1] = x
                               /\ s # <<>> /\ Head(s) = x /\ Tail(s) = <<>>
<1>1. <<x>> \in Seq(Byte)
    OBVIOUS
<1>2. Len(<<x>>) = 1 /\ <<x>>[1] = x /\ <<x>> # <<>> /\ Head(<<x>>) = x
      /\ Tail(<<x>>) = <<>>
    OBVIOUS
<1>3. QED
    BY <1>1, <1>2, Zenon

\* The octets behind a tag.
LEMMA BehindTag ==
    ASSUME NEW t \in Byte, NEW s \in Seq(Byte)
    PROVE  LET o == <<t>> \o s
           IN  /\ o \in Seq(Byte) /\ o # <<>> /\ Head(o) = t /\ Tail(o) = s
               /\ Len(o) = Len(s) + 1 /\ Len(s) \in Nat /\ o[1] = t
<1>1. PICK g \in Seq(Byte) : g = <<t>> /\ Len(g) = 1 /\ g # <<>> /\ Head(g) = t
                             /\ Tail(g) = <<>>
    BY OneOctet
<1>2. Len(g) = 1 /\ g # <<>> /\ Head(g) = t /\ Tail(g) = <<>>
    BY <1>1
<1>3. g \o s # <<>> /\ Head(g \o s) = t /\ Tail(g \o s) = <<>> \o s
    BY <1>2, TailWithMore
<1>4. <<>> \o s = s
    BY ConcatEmptySeq
<1>5. g \o s \in Seq(Byte) /\ Len(g \o s) = 1 + Len(s) /\ Len(s) \in Nat
    BY <1>2, WithMore
<1>6. (g \o s)[1] = t
    BY <1>3, <1>5, TailFits
<1>7. QED
    BY <1>1, <1>3, <1>4, <1>5, <1>6

\* A word is what its last n octets are extended to.
LEMMA WordIsExtended ==
    ASSUME NEW c \in Seq(Byte), NEW n \in 1 .. 8, NEW octet \in Byte,
           Filled(c, n, octet)
    PROVE  \E s \in Seq(Byte) : /\ s = SubSeq(c, 9 - n, 8) /\ Len(s) = n
                               /\ s[1] = c[9 - n]
                               /\ Padding(n, octet) \o SubSeq(s, 1, n) = c
<1>0. PICK s : s = SubSeq(c, 9 - n, 8)
    OBVIOUS
<1>1. Len(c) = 8 /\ \A j \in 1 .. 8 - n : c[j] = octet
    BY DEF Filled
<1>2. PICK k \in Nat : k = 8 - n /\ 9 - n = k + 1 /\ k \in 0 .. 8
    OBVIOUS
<1>3. k \in 0 .. Len(c)
    BY <1>1, <1>2
<1>4. s = SubSeq(c, k + 1, Len(c))
    BY <1>0, <1>1, <1>2
<1>5. s \in Seq(Byte) /\ Len(s) = n /\ \A i \in 1 .. n : s[i] = c[k + i]
  <2>1. /\ s \in Seq(Byte) /\ Len(s) = Len(c) - k
        /\ \A i \in 1 .. Len(c) - k : s[i] = c[k + i]
      BY <1>3, <1>4, Behind
  <2>2. Len(c) - k = n
      BY <1>1, <1>2
  <2>3. QED
      BY <2>1, <2>2
<1>6. SubSeq(s, 1, n) = s
    BY <1>5, SubSeqFull
<1>7. PICK p \in Seq(Byte) : /\ p = Padding(n, octet) /\ Len(p) = k
                             /\ \A i \in 1 .. k : p[i] = octet
  <2>1. n \in 0 .. 8
      OBVIOUS
  <2>2. QED
      BY <1>2, <2>1, PaddingFits
<1>8. p \o s = c
  <2>1. /\ p \o s \in Seq(Byte) /\ Len(p \o s) = k + n
        /\ \A i \in 1 .. k + n : (p \o s)[i] = IF i <= k THEN p[i] ELSE s[i - k]
      BY <1>5, <1>7, ConcatProperties
  <2>2. Len(p \o s) = Len(c)
      BY <1>1, <1>2, <2>1
  <2>3. ASSUME NEW i \in 1 .. Len(c) PROVE (p \o s)[i] = c[i]
    <3>1. i \in 1 .. k + n
        BY <1>1, <1>2
    <3>2. CASE i <= k
      <4>1. i \in 1 .. k
          BY <3>1, <3>2
      <4>2. QED
          BY <1>1, <1>2, <1>7, <2>1, <3>1, <3>2, <4>1
    <3>3. CASE ~ (i <= k)
      <4>1. i - k \in 1 .. n /\ k + (i - k) = i
          BY <3>1, <3>3
      <4>2. s[i - k] = c[k + (i - k)]
          BY <1>5, <4>1
      <4>3. QED
          BY <2>1, <3>1, <3>3, <4>1, <4>2
    <3>4. QED
        BY <3>2, <3>3
  <2>4. QED
      BY <2>1, <2>2, <2>3, SeqEqual
<1>9. s[1] = c[9 - n]
  <2>1. 1 \in 1 .. n
      OBVIOUS
  <2>2. QED
      BY <1>2, <1>5, <2>1
<1>10. QED
    BY <1>0, <1>5, <1>6, <1>7, <1>8, <1>9

\* All of o is one value, and what is left in the reading is c.
Whole(o, c) == o # <<>> /\ ParseValue(o) = [used |-> Len(o), content |-> c]

LEMMA NullIsRead == Whole(<<0>>, <<>>)
<1>1. 0 \in Byte
    BY DEF Byte
<1>2. PICK o \in Seq(Byte) : o = <<0>> /\ o # <<>> /\ Head(o) = 0 /\ Len(o) = 1
    BY <1>1, OneOctet
<1>3. Simple(o) = [used |-> 1, content |-> <<>>]
    BY <1>2, SimpleNull
<1>4. QED
    BY <1>2, <1>3, Tags DEF Whole, ParseValue

LEMMA NumberIsRead ==
    ASSUME NEW o \in Seq(Byte), NEW c \in Seq(Byte), WritesNumber(o, c)
    PROVE  Whole(o, c)
<1>1. ASSUME NEW t \in Byte, t \notin Compound, NEW n \in Nat, NEW s \in Seq(Byte), Len(s) = n,
             o = <<t>> \o s, Simple(o) = Number(s, n, c)
      PROVE  Whole(o, c)
  <2>1. o # <<>> /\ Head(o) = t /\ Len(o) = n + 1
      BY <1>1, BehindTag
  <2>2. ParseValue(o) = Simple(o)
      BY <1>1, <2>1 DEF ParseValue
  <2>3. Simple(o) = [used |-> 1 + n, content |-> c]
      BY <1>1 DEF Number
  <2>4. QED
      BY <2>1, <2>2, <2>3 DEF Whole
<1>2. ASSUME NEW x \in Byte, o = <<3, x>>, Filled(c, 1, 0), c[8] = IF x = 0 THEN 0 ELSE 1
      PROVE  Whole(o, c)
  <2>1. PICK s \in Seq(Byte) : s = <<x>> /\ Len(s) = 1 /\ s[1] = x
      BY OneOctet
  <2>2. 3 \in Byte /\ 0 \in Byte /\ o = <<3>> \o s
      BY <1>2, <2>1 DEF Byte
  <2>3. Head(o) = 3 /\ Tail(o) = s
      BY <2>2, BehindTag
  <2>4. Simple(o) = Number(s, 1, Truth(s))
      BY <2>3, SimpleTruth
  <2>5. Truth(s) = c
    <3>1. PICK p \in Seq(Byte) : /\ p = Padding(1, 0) /\ Len(p) = 7
                                 /\ \A i \in 1 .. 7 : p[i] = 0
      <4>1. 1 \in 0 .. 8
          OBVIOUS
      <4>2. /\ Padding(1, 0) \in Seq(Byte) /\ Len(Padding(1, 0)) = 8 - 1
            /\ \A i \in 1 .. 8 - 1 : Padding(1, 0)[i] = 0
          BY <2>2, <4>1, PaddingFits
      <4>3. QED
          BY <4>2
    <3>2. PICK y \in Byte, q \in Seq(Byte) :
             /\ y = (IF s[1] = 0 THEN 0 ELSE 1) /\ q = <<y>> /\ Len(q) = 1 /\ q[1] = y
      <4>1. PICK y \in Byte : y = IF s[1] = 0 THEN 0 ELSE 1
          BY DEF Byte
      <4>2. QED
          BY <4>1, OneOctet
    <3>3. Truth(s) = p \o q
        BY <3>1, <3>2 DEF Truth
    <3>4. /\ p \o q \in Seq(Byte) /\ Len(p \o q) = 8
          /\ \A i \in 1 .. 8 : (p \o q)[i] = IF i <= 7 THEN p[i] ELSE q[i - 7]
      <4>1. /\ p \o q \in Seq(Byte) /\ Len(p \o q) = Len(p) + Len(q)
            /\ \A i \in 1 .. Len(p) + Len(q) :
                  (p \o q)[i] = IF i <= Len(p) THEN p[i] ELSE q[i - Len(p)]
          BY ConcatProperties
      <4>2. Len(p) + Len(q) = 8 /\ Len(p) = 7
        <5>1. Len(p) = 7
            BY <3>1
        <5>2. Len(q) = 1
            BY <3>2
        <5>3. QED
            BY <5>1, <5>2
      <4>3. QED
          BY <4>1, <4>2
    <3>5. Len(c) = 8 /\ (\A j \in 1 .. 7 : c[j] = 0) /\ c[8] = y
        BY <1>2, <2>1, <3>2 DEF Filled
    <3>6. ASSUME NEW i \in 1 .. 8 PROVE (p \o q)[i] = c[i]
        BY <3>1, <3>2, <3>4, <3>5
    <3>7. p \o q = c
        BY <3>4, <3>5, <3>6, SeqEqual
    <3>8. QED
        BY <3>3, <3>7
  <2>6. 3 \notin Compound
      BY Tags
  <2>7. QED
      BY <1>1, <2>1, <2>2, <2>4, <2>5, <2>6
<1>3. ASSUME NEW t \in DOMAIN Signed,
             Filled(c, Signed[t], IF c[9 - Signed[t]] >= 128 THEN 255 ELSE 0),
             Sent(o, t, c, Signed[t])
      PROVE  Whole(o, c)
  <2>1. PICK n \in 1 .. 8 : n = Signed[t]
      BY Tags
  <2>2. PICK octet \in Byte : octet = IF c[9 - n] >= 128 THEN 255 ELSE 0
      BY DEF Byte
  <2>3. Filled(c, n, octet)
      BY <1>3, <2>1, <2>2
  <2>4. PICK s \in Seq(Byte) : /\ s = SubSeq(c, 9 - n, 8) /\ Len(s) = n
                               /\ s[1] = c[9 - n]
                               /\ Padding(n, octet) \o SubSeq(s, 1, n) = c
      BY <2>3, WordIsExtended
  <2>5. /\ Len(s) = n /\ s[1] = c[9 - n]
        /\ Padding(n, octet) \o SubSeq(s, 1, n) = c
      BY <2>4
  <2>6. SignExtended(s, n) = c
      BY <2>2, <2>5 DEF SignExtended
  <2>7. t \in Byte /\ t \in Nat /\ t \notin Compound /\ n \in Nat
      BY Tags DEF Byte
  <2>8. o = <<t>> \o s
      BY <1>3, <2>1, <2>4 DEF Sent
  <2>9. Head(o) = t /\ Tail(o) = s
      BY <2>5, <2>7, <2>8, BehindTag
  <2>10. Simple(o) = Number(s, n, c)
      BY <2>1, <2>6, <2>7, <2>9, SimpleSigned
  <2>11. QED
      BY <1>1, <2>5, <2>7, <2>8, <2>10
<1>4. ASSUME NEW t \in DOMAIN Unsigned \ {3}, Filled(c, Unsigned[t], 0),
             Sent(o, t, c, Unsigned[t])
      PROVE  Whole(o, c)
  <2>1. PICK n \in 1 .. 8 : n = Unsigned[t]
      BY Tags
  <2>2. 0 \in Byte
      BY DEF Byte
  <2>3. Filled(c, n, 0)
      BY <1>4, <2>1
  <2>4. PICK s \in Seq(Byte) : /\ s = SubSeq(c, 9 - n, 8) /\ Len(s) = n
                               /\ s[1] = c[9 - n]
                               /\ Padding(n, 0) \o SubSeq(s, 1, n) = c
      BY <2>2, <2>3, WordIsExtended
  <2>5. Len(s) = n /\ Padding(n, 0) \o SubSeq(s, 1, n) = c
      BY <2>4
  <2>6. ZeroExtended(s, n) = c
      BY <2>5 DEF ZeroExtended
  <2>7. t \in Byte /\ t \in Nat /\ t \notin Compound /\ n \in Nat
      BY Tags DEF Byte
  <2>8. o = <<t>> \o s
      BY <1>4, <2>1, <2>4 DEF Sent
  <2>9. Head(o) = t /\ Tail(o) = s
      BY <2>5, <2>7, <2>8, BehindTag
  <2>10. Simple(o) = Number(s, n, c)
      BY <2>1, <2>6, <2>7, <2>9, SimpleUnsigned
  <2>11. QED
      BY <1>1, <2>5, <2>7, <2>8, <2>10
<1>5. QED
    BY <1>2, <1>3, <1>4 DEF WritesNumber

\* The same octets, counted with and without the tag.
LEMMA CutBehindTag ==
    ASSUME NEW t \in Byte, NEW s \in Seq(Byte), NEW i \in Nat, NEW j \in Nat,
           1 <= i, j <= Len(s)
    PROVE  SubSeq(<<t>> \o s, i + 1, j + 1) = SubSeq(s, i, j)
<1>1. PICK g \in Seq(Byte) : g = <<t>> /\ Len(g) = 1
    BY OneOctet
<1>2. Len(s) \in Nat
    BY LenProperties
<1>3. PICK k \in Nat, l \in Nat : k = i + 1 /\ l = j + 1 /\ k - 1 = i /\ l - 1 = j
    OBVIOUS
<1>4. CASE i <= j
  <2>1. /\ k \in Len(g) + 1 .. Len(g) + Len(s) /\ l \in Len(g) + 1 .. Len(g) + Len(s)
        /\ k - Len(g) = i /\ l - Len(g) = j
      BY <1>1, <1>2, <1>3, <1>4
  <2>2. SubSeq(g \o s, k, l) = SubSeq(s, k - Len(g), l - Len(g))
      BY <2>1, SubSeqOfConcat2
  <2>3. QED
      BY <1>1, <1>3, <2>1, <2>2
<1>5. CASE ~ (i <= j)
  <2>1. j < i /\ l < k /\ i \in Int /\ j \in Int /\ k \in Int /\ l \in Int
      BY <1>3, <1>5
  <2>2. SubSeq(g \o s, k, l) = <<>> /\ SubSeq(s, i, j) = <<>>
      BY <2>1, SubSeqEmpty
  <2>3. QED
      BY <1>1, <1>3, <2>2
<1>6. QED
    BY <1>4, <1>5

\* What is left behind a first part of o.
LEMMA PrefixLeaves ==
    ASSUME NEW p \in Seq(Byte), NEW o \in Seq(Byte), NEW n \in 0 .. Len(o),
           SubSeq(o, 1, n) = p
    PROVE  \E x \in Seq(Byte) : o = p \o x /\ Len(x) = Len(o) - n
<1>1. o = SubSeq(o, 1, n) \o SubSeq(o, n + 1, Len(o))
    BY FrontAndBehind
<1>2. SubSeq(o, n + 1, Len(o)) \in Seq(Byte) /\ Len(SubSeq(o, n + 1, Len(o))) = Len(o) - n
    BY Behind
<1>3. QED
    BY <1>1, <1>2

LEMMA TextIsRead ==
    ASSUME NEW o \in Seq(Byte), NEW c, WritesText(o, c)
    PROVE  Whole(o, c)
<1>1. PICK t \in Text, n \in 0 .. Len(o) : \E l \in Lengths(n) :
         /\ Len(o) = 1 + Len(l) + n /\ SubSeq(o, 1, 1 + Len(l)) = <<t>> \o l
         /\ c = SubSeq(o, Len(l) + 2, Len(l) + 1 + IF n < MaxText THEN n ELSE MaxText)
    BY DEF WritesText
<1>2. t \in Byte /\ t \notin Compound /\ t \in Nat
    BY Tags DEF Byte
<1>3. n \in Nat
    BY LenProperties
<1>4. PICK l \in Lengths(n) :
         /\ Len(o) = 1 + Len(l) + n /\ SubSeq(o, 1, 1 + Len(l)) = <<t>> \o l
         /\ c = SubSeq(o, Len(l) + 2, Len(l) + 1 + IF n < MaxText THEN n ELSE MaxText)
    BY <1>1
<1>5. /\ l \in Seq(Byte) /\ Len(l) \in Nat /\ Len(l) >= 1
      /\ ParseLength(l) = [used |-> Len(l), value |-> n]
    BY <1>3, LengthIsRead
<1>0. PICK k \in Nat : k = Len(l) /\ k >= 1
    BY <1>5
<1>6. <<t>> \o l \in Seq(Byte) /\ Len(<<t>> \o l) = 1 + Len(l)
    BY <1>2, <1>5, BehindTag
<1>7. PICK x \in Seq(Byte) : o = (<<t>> \o l) \o x /\ Len(x) = n
  <2>1. 1 + k \in 0 .. Len(o) /\ Len(o) - (1 + k) = n
      BY <1>0, <1>3, <1>4
  <2>3. SubSeq(o, 1, 1 + k) = <<t>> \o l
      BY <1>0, <1>4
  <2>2. QED
      BY <1>6, <2>1, <2>3, PrefixLeaves
<1>8. PICK body \in Seq(Byte) : body = l \o x /\ Len(body) = Len(l) + n
    BY <1>5, <1>7, WithMore
<1>9. o = <<t>> \o body
  <2>1. PICK g \in Seq(Byte) : g = <<t>>
      BY <1>2, OneOctet
  <2>2. PICK m \in Seq(Byte) : m = l
      BY <1>5
  <2>3. (g \o m) \o x = g \o (m \o x)
      BY ConcatAssociative
  <2>4. QED
      BY <1>7, <1>8, <2>1, <2>2, <2>3
<1>10. Head(o) = t /\ Tail(o) = body /\ o # <<>>
    BY <1>2, <1>9, BehindTag
<1>11. ParseLength(body) = [used |-> Len(l), value |-> n]
  <2>1. ParseLength(l).used # -1
      BY <1>5
  <2>2. QED
      BY <1>5, <1>8, <2>1, LengthWithMore
<1>12. PICK m \in Nat : m <= n /\ m = IF n < MaxText THEN n ELSE MaxText
    BY <1>3, BlockAssumption
<1>13. String(body) = [used |-> 1 + Len(l) + n, content |-> SubSeq(body, Len(l) + 1, Len(l) + m)]
  <2>1. ~ (Len(l) < 0 \/ Len(body) < Len(l) + n)
      BY <1>3, <1>5, <1>8
  <2>2. QED
      BY <1>11, <1>12, <2>1 DEF String
<1>14. c = SubSeq(body, Len(l) + 1, Len(l) + m)
  <2>0. Len(body) = k + n
      BY <1>0, <1>8
  <2>3. k + m <= k + n
      BY <1>3, <1>12
  <2>1. PICK i \in Nat, j \in Nat :
           /\ i = k + 1 /\ j = k + m /\ 1 <= i /\ j <= k + n
           /\ i + 1 = k + 2 /\ j + 1 = k + 1 + m
      BY <2>3
  <2>2. SubSeq(<<t>> \o body, i + 1, j + 1) = SubSeq(body, i, j)
      BY <1>2, <2>0, <2>1, CutBehindTag
  <2>4. QED
      BY <1>0, <1>4, <1>9, <1>12, <2>1, <2>2
<1>15. ParseValue(o) = Simple(o) /\ Simple(o) = String(body)
    BY <1>2, <1>10, SimpleText DEF ParseValue
<1>16. QED
    BY <1>4, <1>10, <1>13, <1>14, <1>15 DEF Whole

-----------------------------------------------------------------------------
(* What was written within a value, and as a value, is read                *)

\* A value that axdr_parse_value uses up, whatever it leaves in the reading.
Used(o) == o # <<>> /\ FirstUsed(ElementsUsed, o) = Len(o)

\* One more value in front.
LEMMA ValuesFirst ==
    ASSUME NEW x \in Seq(Byte), Used(x), NEW r \in Seq(Byte), NEW n \in Nat,
           ElementsUsed[r][n] = Len(r)
    PROVE  ElementsUsed[x \o r][n + 1] = Len(x \o r)
<1>1. PICK d \in Seq(Byte) : d = x \o r
    BY WithMore
<1>2. Len(x) \in Nat /\ Len(r) \in Nat /\ Len(d) = Len(x) + Len(r) /\ d # <<>>
    BY <1>1, WithMore, TailWithMore DEF Used
<1>3. ElementsUsed[d] = ValuesUsed(ElementsUsed, d)
    BY ElementsUsedIs
<1>4. \A c \in Shorter(d) : Bounded(ElementsUsed, c)
    BY ElementsUsedIs DEF Shorter
<1>5. PICK k \in Nat : k = Len(x) /\ k # -1
    BY <1>2
<1>6. FirstUsed(ElementsUsed, d) = k
  <2>1. \A c \in Shorter(x) : SameWithMore(c)
      BY ElementsWithMore DEF Shorter
  <2>2. FirstUsed(ElementsUsed, x) # -1 /\ x # <<>>
      BY <1>5 DEF Used
  <2>3. FirstUsed(ElementsUsed, x \o r) = FirstUsed(ElementsUsed, x)
      BY <2>1, <2>2, FirstWithMore
  <2>4. QED
      BY <1>1, <1>5, <2>3 DEF Used
<1>7. Rest(d, k) = r
    BY <1>1, <1>5, BehindFirst DEF Rest
<1>8. PICK m \in Nat : m = n + 1 /\ m # 0 /\ m - 1 = n
    OBVIOUS
<1>9. ValuesUsed(ElementsUsed, d)[m] = IF ElementsUsed[Rest(d, k)][m - 1] < 0 THEN -1
                                       ELSE k + ElementsUsed[Rest(d, k)][m - 1]
  <2>1. d # <<>> /\ k = FirstUsed(ElementsUsed, d) /\ k # -1 /\ m # 0
      BY <1>2, <1>5, <1>6, <1>8
  <2>2. QED
      BY <1>4, <2>1, ValuesAt
<1>10. ElementsUsed[d][m] = IF Len(r) < 0 THEN -1 ELSE k + Len(r)
    BY <1>3, <1>7, <1>8, <1>9
<1>11. QED
    BY <1>1, <1>2, <1>5, <1>8, <1>10

\* All values in a row.
LEMMA ValuesAreUsed ==
    ASSUME NEW s \in Seq(Seq(Byte)), \A i \in 1 .. Len(s) : Used(s[i])
    PROVE  ElementsUsed[FlattenSeq(s)][Len(s)] = Len(FlattenSeq(s))
<1> DEFINE Claim(u) == ElementsUsed[FlattenSeq(u)][Len(u)] = Len(FlattenSeq(u))
           All(u) == \A i \in 1 .. Len(u) : Used(u[i])
           M == {n \in Nat : \E u \in Seq(Seq(Byte)) :
                                n = Len(u) /\ All(u) /\ ~ Claim(u)}
<1>1. ASSUME M # {} PROVE FALSE
  <2>1. PICK m \in M : \A n \in M : m <= n
      BY <1>1, LeastIn
  <2>2. PICK u \in Seq(Seq(Byte)) : m = Len(u) /\ All(u) /\ ~ Claim(u)
      BY <2>1
  <2>3. m \in Nat
      BY <2>1
  <2>4. CASE u = <<>>
    <3>1. FlattenSeq(u) = <<>> /\ Len(u) = 0 /\ Len(FlattenSeq(u)) = 0
        BY <2>4, FlattenEmpty, EmptySeq
    <3>2. <<>> \in Seq(Byte)
        BY EmptySeq
    <3>3. ElementsUsed[<<>>] = ValuesUsed(ElementsUsed, <<>>)
        BY <3>2, ElementsUsedIs
    <3>4. ValuesUsed(ElementsUsed, <<>>)[0] = 0
        BY DEF ValuesUsed
    <3>5. QED
        BY <2>2, <3>1, <3>3, <3>4
  <2>5. CASE u # <<>>
    <3>1. PICK t \in Seq(Seq(Byte)) :
              /\ Len(t) = Len(u) - 1 /\ \A i \in 1 .. Len(u) - 1 : t[i] = u[1 + i]
              /\ u[1] \in Seq(Byte) /\ FlattenSeq(t) \in Seq(Byte)
              /\ FlattenSeq(u) = u[1] \o FlattenSeq(t)
        BY <2>5, FlattenFirst
    <3>2. m # 0 /\ Len(t) = m - 1
        BY <2>2, <2>5, <3>1, EmptySeq
    <3>3. PICK n \in Nat : n = m - 1 /\ m = n + 1 /\ ~ (m <= n)
        BY <2>3, <3>2
    <3>4. All(t)
      <4>1. ASSUME NEW i \in 1 .. Len(t) PROVE Used(t[i])
        <5>1. i \in 1 .. Len(u) - 1 /\ 1 + i \in 1 .. Len(u)
            BY <2>2, <2>3, <3>2
        <5>2. t[i] = u[1 + i] /\ Used(u[1 + i])
            BY <2>2, <3>1, <5>1
        <5>3. QED
            BY <5>2
      <4>2. QED
          BY <4>1
    <3>5. Claim(t)
      <4>1. n \notin M
        <5> HIDE DEF M
        <5>1. QED
            BY <2>1, <3>3
      <4>2. n = Len(t)
          BY <3>2, <3>3
      <4>3. QED
          BY <3>4, <4>1, <4>2
    <3>6. Used(u[1])
      <4>1. 1 \in 1 .. Len(u)
          BY <2>2, <2>3, <3>2
      <4>2. QED
          BY <2>2, <4>1
    <3>7. PICK x \in Seq(Byte), r \in Seq(Byte) :
              x = u[1] /\ r = FlattenSeq(t) /\ FlattenSeq(u) = x \o r
        BY <3>1
    <3>8. ElementsUsed[r][n] = Len(r)
        BY <3>2, <3>3, <3>5, <3>7
    <3>9. ElementsUsed[x \o r][n + 1] = Len(x \o r)
        BY <3>6, <3>7, <3>8, ValuesFirst
    <3>10. QED
        BY <2>2, <3>3, <3>7, <3>9
  <2>6. QED
      BY <2>4, <2>5
<1>2. Len(s) \in Nat
    BY LenProperties
<1>3. QED
    BY <1>1, <1>2

\* None of a row of values is longer than the row.
LEMMA EachWithin ==
    ASSUME NEW s \in Seq(Seq(Byte)), NEW i \in 1 .. Len(s)
    PROVE  s[i] \in Seq(Byte) /\ Len(s[i]) \in Nat /\ Len(s[i]) <= Len(FlattenSeq(s))
<1>0. Len(s) \in Nat
    BY LenProperties
<1>1. PICK j \in Nat : j + 1 = i /\ j < Len(s)
    BY <1>0
<1>2. /\ FlattenSeq(SubSeq(s, 1, j)) \in Seq(Byte) /\ s[j + 1] \in Seq(Byte)
      /\ FlattenSeq(SubSeq(s, 1, j + 1)) = FlattenSeq(SubSeq(s, 1, j)) \o s[j + 1]
      /\ \E c \in Seq(Byte) : FlattenSeq(s) = FlattenSeq(SubSeq(s, 1, j + 1)) \o c
    BY <1>1, FlattenAround
<1>3. PICK a \in Seq(Byte), c \in Seq(Byte) : FlattenSeq(s) = (a \o s[j + 1]) \o c
    BY <1>2
<1>4. PICK x \in Seq(Byte) : x = s[i] /\ FlattenSeq(s) = (a \o x) \o c
    BY <1>1, <1>2, <1>3
<1>5. PICK y \in Seq(Byte) : /\ y = a \o x /\ Len(y) = Len(a) + Len(x)
                             /\ Len(a) \in Nat /\ Len(x) \in Nat
    BY WithMore
<1>6. Len(y \o c) = Len(y) + Len(c) /\ Len(c) \in Nat
    BY WithMore
<1>7. QED
    BY <1>4, <1>5, <1>6

LEMMA Regroup ==
    \A a \in Seq(Byte), b \in Seq(Byte), c \in Seq(Byte) :
        (a \o b) \o c = a \o (b \o c)
BY ConcatAssociative

\* An array or structure, when the values within it are.
LEMMA CompoundIsRead ==
    ASSUME NEW W, W \subseteq [octets : Seq(Byte), content : Seq(Byte)],
           NEW o \in Seq(Byte), WritesCompound(W, o),
           \A w \in W : Len(w.octets) < Len(o) => Used(w.octets)
    PROVE  Whole(o, <<>>)
<1>1. PICK t \in Compound, n \in 0 .. Len(o) : \E l \in Lengths(n) :
         \E s \in [1 .. n -> W] :
            o = <<t>> \o l \o FlattenSeq([i \in 1 .. n |-> s[i].octets])
    BY DEF WritesCompound
<1>2. t \in Byte /\ n \in Nat
    BY LenProperties, Tags DEF Byte
<1>3. PICK l \in Lengths(n) : \E s \in [1 .. n -> W] :
         o = <<t>> \o l \o FlattenSeq([i \in 1 .. n |-> s[i].octets])
    BY <1>1
<1>4. PICK s \in [1 .. n -> W] :
         o = <<t>> \o l \o FlattenSeq([i \in 1 .. n |-> s[i].octets])
    BY <1>3
<1>5. \A i \in 1 .. n : s[i] \in W /\ s[i].octets \in Seq(Byte)
    OBVIOUS
<1>6. PICK f : f = [i \in 1 .. n |-> s[i].octets]
    OBVIOUS
<1>7. PICK e \in Seq(Seq(Byte)) :
         e = f /\ Len(e) = n /\ \A i \in 1 .. n : e[i] = s[i].octets
  <2>1. \A i \in 1 .. n : f[i] = s[i].octets
      BY <1>6
  <2>2. f \in [1 .. n -> Seq(Byte)]
      BY <1>5, <1>6
  <2>3. f \in Seq(Seq(Byte)) /\ Len(f) = n
      BY <1>2, <2>2, LenProperties, SeqDef
  <2>4. QED
      BY <2>1, <2>3
<1>8. PICK r \in Seq(Byte) : r = FlattenSeq(e)
    BY <1>7, FlattenConcat
<1>9. PICK k \in Seq(Byte) : k = l /\ Len(k) \in Nat /\ Len(k) >= 1
                             /\ ParseLength(k) = [used |-> Len(k), value |-> n]
    BY <1>2, LengthIsRead
<1>10. PICK body \in Seq(Byte) : /\ body = k \o r /\ Len(body) = Len(k) + Len(r)
                                 /\ Len(r) \in Nat
    BY WithMore
<1>11. o = <<t>> \o body
  <2>1. PICK g \in Seq(Byte) : g = <<t>>
      BY <1>2, OneOctet
  <2>2. (g \o k) \o r = g \o (k \o r)
      BY Regroup, Zenon
  <2>3. QED
      BY <1>4, <1>6, <1>7, <1>8, <1>9, <1>10, <2>1, <2>2
<1>12. o # <<>> /\ Head(o) = t /\ Tail(o) = body /\ Len(o) = Len(body) + 1
    BY <1>2, <1>11, BehindTag
<1>13. ASSUME NEW i \in 1 .. n
       PROVE  Used(e[i])
  <2>1. i \in 1 .. Len(e)
      BY <1>7
  <2>2. e[i] \in Seq(Byte) /\ Len(e[i]) \in Nat /\ Len(e[i]) <= Len(FlattenSeq(e))
      BY <2>1, EachWithin
  <2>3. PICK x \in Seq(Byte) : x = e[i] /\ Len(x) \in Nat /\ Len(x) <= Len(r)
      BY <1>8, <2>2
  <2>6. Len(x) < Len(o)
      BY <1>9, <1>10, <1>12, <2>3
  <2>7. s[i] \in W /\ x = s[i].octets
      BY <1>5, <1>7, <2>3
  <2>8. QED
      BY <2>3, <2>6, <2>7
<1>14. ElementsUsed[r][n] = Len(r)
    BY <1>7, <1>8, <1>13, ValuesAreUsed
<1>15. ParseLength(body) = [used |-> Len(k), value |-> n]
  <2>1. ParseLength(k).used # -1
      BY <1>9
  <2>2. QED
      BY <1>9, <1>10, <2>1, LengthWithMore
<1>16. Rest(body, Len(k)) = r
    BY <1>10, BehindFirst DEF Rest
<1>17. CompoundUsed(ElementsUsed, o) = Len(o)
  <2>1. CompoundUsed(ElementsUsed, o) =
            IF Len(k) < 0 \/ ElementsUsed[r][n] < 0 THEN -1
            ELSE 1 + Len(k) + ElementsUsed[r][n]
    <3>1. ParseLength(Tail(o)).used = Len(k) /\ ParseLength(Tail(o)).value = n
      <4>1. ParseLength(Tail(o)) = [used |-> Len(k), value |-> n]
          BY <1>12, <1>15, Zenon
      <4>2. QED
          BY <4>1
    <3>2. Rest(Tail(o), Len(k)) = r
        BY <1>12, <1>16
    <3>3. QED
        BY <3>1, <3>2, Zenon DEF CompoundUsed
  <2>2. QED
      BY <1>9, <1>10, <1>12, <1>14, <2>1
<1>18. ParseValue(o) = [used |-> CompoundUsed(ElementsUsed, o), content |-> <<>>]
    BY <1>12 DEF ParseValue
<1>19. QED
    BY <1>12, <1>17, <1>18 DEF Whole

\* Whatever is written is read.
LEMMA EncodingIsRead ==
    ASSUME NEW W, Encoding(W)
    PROVE  \A w \in W : Whole(w.octets, w.content)
<1> DEFINE M == {n \in Nat : \E w \in W : n = Len(w.octets) /\ ~ Whole(w.octets, w.content)}
<1>1. W \subseteq [octets : Seq(Byte), content : Seq(Byte)]
    BY DEF Encoding
<1>2. ASSUME M # {} PROVE FALSE
  <2>1. PICK m \in M : \A n \in M : m <= n
      BY <1>2, LeastIn
  <2>2. PICK w \in W : m = Len(w.octets) /\ ~ Whole(w.octets, w.content)
      BY <2>1
  <2>3. m \in Nat
      BY <2>1
  <2>4. PICK o \in Seq(Byte), c \in Seq(Byte) : o = w.octets /\ c = w.content
      BY <1>1
  <2>5. ASSUME NEW v \in W, Len(v.octets) < Len(o)
        PROVE  Used(v.octets)
    <3>1. PICK x \in Seq(Byte), y \in Seq(Byte) : x = v.octets /\ y = v.content
        BY <1>1
    <3>2. Len(x) \in Nat /\ ~ (m <= Len(x))
        BY <2>2, <2>3, <2>4, <2>5, <3>1, LenProperties
    <3>3. Len(x) \notin M
      <4> HIDE DEF M
      <4>1. QED
          BY <2>1, <3>2
    <3>4. Whole(x, y)
        BY <3>1, <3>2, <3>3
    <3>5. x # <<>> /\ ParseValue(x).used = Len(x)
        BY <3>4 DEF Whole
    <3>6. ParseValue(x).used = FirstUsed(ElementsUsed, x)
        BY <3>5, ParseFits
    <3>7. QED
        BY <3>1, <3>5, <3>6 DEF Used
  <2>6. \/ o = <<0>> /\ c = <<>>
        \/ WritesNumber(o, c)
        \/ WritesText(o, c)
        \/ WritesCompound(W, o) /\ c = <<>>
      BY <2>4 DEF Encoding
  <2>7. Whole(o, c)
    <3>1. CASE o = <<0>> /\ c = <<>>
        BY <3>1, NullIsRead
    <3>2. CASE WritesNumber(o, c)
        BY <3>2, NumberIsRead
    <3>3. CASE WritesText(o, c)
        BY <3>3, TextIsRead
    <3>4. CASE WritesCompound(W, o) /\ c = <<>>
        BY <1>1, <2>5, <3>4, CompoundIsRead
    <3>5. QED
        BY <2>6, <3>1, <3>2, <3>3, <3>4
  <2>8. QED
      BY <2>2, <2>4, <2>7
<1>3. \A w \in W : Len(w.octets) \in Nat
    BY <1>1, LenProperties
<1>4. QED
    BY <1>2, <1>3

\* What stands behind the first i octets of q.
LEMMA RestAt ==
    \A q \in Seq(Byte), i \in Nat : i <= Len(q) =>
        /\ Rest(q, i) \in Seq(Byte) /\ Len(q) - i \in Nat
        /\ Len(Rest(q, i)) = Len(q) - i
        /\ \A j \in Nat : 1 <= j /\ j <= Len(q) - i => Rest(q, i)[j] = q[i + j]
<1>1. ASSUME NEW q \in Seq(Byte), NEW i \in Nat, i <= Len(q)
      PROVE  /\ Rest(q, i) \in Seq(Byte) /\ Len(q) - i \in Nat
             /\ Len(Rest(q, i)) = Len(q) - i
             /\ \A j \in Nat : 1 <= j /\ j <= Len(q) - i => Rest(q, i)[j] = q[i + j]
  <2>1. Len(q) \in Nat
      BY LenProperties
  <2>2. /\ Rest(q, i) \in Seq(Byte) /\ Len(Rest(q, i)) = Len(q) - i
        /\ \A j \in 1 .. Len(q) - i : Rest(q, i)[j] = q[i + j]
      BY <1>1, RestFits
  <2>3. QED
      BY <1>1, <2>1, <2>2
<1>2. QED
    BY <1>1

\* The value that begins i octets into q, with the values behind it.
LEMMA MoreValues ==
    \A q \in Seq(Byte), i \in Nat, k \in Nat, j \in Nat, n \in Nat :
        /\ k # 0 /\ i + k = j /\ j <= Len(q)
        /\ FirstUsed(ElementsUsed, Rest(q, i)) = k
        /\ ElementsUsed[Rest(q, j)][n] = Len(q) - j
        => ElementsUsed[Rest(q, i)][n + 1] = Len(q) - i
<1>1. SUFFICES ASSUME NEW q \in Seq(Byte), NEW i \in Nat, NEW k \in Nat, NEW j \in Nat,
                      NEW n \in Nat, k # 0, i + k = j, j <= Len(q),
                      FirstUsed(ElementsUsed, Rest(q, i)) = k,
                      ElementsUsed[Rest(q, j)][n] = Len(q) - j
               PROVE  ElementsUsed[Rest(q, i)][n + 1] = Len(q) - i
    OBVIOUS
<1>2. PICK l \in Nat : l = Len(q) /\ j <= l /\ i < l
    BY <1>1, LenProperties
<1>3. PICK d \in Seq(Byte) : d = Rest(q, i) /\ Len(d) = l - i
  <2>1. i <= Len(q)
      BY <1>1, <1>2
  <2>2. Rest(q, i) \in Seq(Byte) /\ Len(Rest(q, i)) = Len(q) - i
      BY <1>1, <2>1, RestAt
  <2>3. QED
      BY <1>1, <1>2, <2>2
<1>4. d # <<>>
    BY <1>1, <1>2, <1>3, EmptySeq
<1>5. ElementsUsed[d] = ValuesUsed(ElementsUsed, d)
    BY <1>1, ElementsUsedIs
<1>6. \A c \in Shorter(d) : Bounded(ElementsUsed, c)
    BY <1>1, ElementsUsedIs DEF Shorter
<1>7. PICK m \in Nat : m = n + 1 /\ m # 0 /\ m - 1 = n
    OBVIOUS
<1>8. ValuesUsed(ElementsUsed, d)[m] = IF ElementsUsed[Rest(d, k)][m - 1] < 0 THEN -1
                                       ELSE k + ElementsUsed[Rest(d, k)][m - 1]
  <2>1. k = FirstUsed(ElementsUsed, d) /\ k # -1 /\ m # 0
      BY <1>1, <1>3, <1>7
  <2>2. QED
      BY <1>1, <1>4, <1>6, <2>1, ValuesAt
<1>9. Rest(d, k) = Rest(q, j)
  <2>1. i \in 0 .. Len(q) /\ k \in 0 .. Len(q) - i
      BY <1>1, <1>2
  <2>2. LET t == SubSeq(q, i + 1, Len(q))
        IN  SubSeq(t, k + 1, Len(t)) = SubSeq(q, i + k + 1, Len(q))
      BY <1>1, <2>1, BehindBehind
  <2>3. QED
      BY <1>1, <1>3, <2>2 DEF Rest
<1>10. ElementsUsed[d][m] = IF l - j < 0 THEN -1 ELSE k + (l - j)
    BY <1>1, <1>2, <1>5, <1>7, <1>8, <1>9
<1>11. QED
    BY <1>1, <1>2, <1>3, <1>7, <1>10

LEMMA AheadAt ==
    \A q \in Seq(Byte), i \in Nat : i < Len(q) =>
        /\ Rest(q, i) # <<>> /\ Head(Rest(q, i)) = q[i + 1]
        /\ Tail(Rest(q, i)) = Rest(q, i + 1)
<1>1. ASSUME NEW q \in Seq(Byte), NEW i \in Nat, i < Len(q)
      PROVE  /\ Rest(q, i) # <<>> /\ Head(Rest(q, i)) = q[i + 1]
             /\ Tail(Rest(q, i)) = Rest(q, i + 1)
  <2>1. PICK l \in Nat : l = Len(q) /\ i < l /\ i <= l /\ i + 1 <= l
      BY <1>1, LenProperties
  <2>2. /\ Rest(q, i) \in Seq(Byte) /\ Len(Rest(q, i)) = l - i
        /\ \A j \in Nat : 1 <= j /\ j <= l - i => Rest(q, i)[j] = q[i + j]
      BY <2>1, RestAt
  <2>3. PICK k \in Nat : k = i + 1 /\ k <= l
      BY <2>1
  <2>4. /\ Rest(q, k) \in Seq(Byte) /\ Len(Rest(q, k)) = l - k
        /\ \A j \in Nat : 1 <= j /\ j <= l - k => Rest(q, k)[j] = q[k + j]
      BY <2>1, <2>3, RestAt
  <2>5. PICK d \in Seq(Byte) : /\ d = Rest(q, i) /\ Len(d) = l - i
                               /\ \A j \in Nat : 1 <= j /\ j <= l - i => d[j] = q[i + j]
      BY <2>2
  <2>6. d # <<>> /\ d[1] = q[i + 1]
    <3>1. Len(d) # 0
        BY <2>1, <2>5
    <3>2. 1 \in Nat /\ 1 <= 1 /\ 1 <= l - i
        BY <2>1
    <3>3. QED
        BY <2>5, <3>1, <3>2, EmptySeq
  <2>7. /\ Head(d) = d[1] /\ Tail(d) \in Seq(Byte) /\ Len(Tail(d)) \in Nat
        /\ Len(d) = Len(Tail(d)) + 1
        /\ \A j \in 1 .. Len(Tail(d)) : Tail(d)[j] = d[j + 1]
      BY <2>6, TailFits
  <2>8. Len(Tail(d)) = l - k
    <3>1. PICK e \in Nat : e = Len(Tail(d)) /\ Len(d) = e + 1
        BY <2>7
    <3>2. e + 1 = l - i
        BY <2>5, <3>1
    <3>3. QED
        BY <2>1, <2>3, <3>1, <3>2
  <2>9. ASSUME NEW j \in 1 .. Len(Tail(d)) PROVE Tail(d)[j] = Rest(q, k)[j]
    <3>1. /\ j \in Nat /\ 1 <= j /\ j <= l - k /\ j + 1 \in Nat
          /\ 1 <= j + 1 /\ j + 1 <= l - i /\ i + (j + 1) = k + j
        BY <2>1, <2>3, <2>7, <2>8
    <3>2. Rest(q, k)[j] = q[k + j] /\ d[j + 1] = q[i + (j + 1)]
        BY <2>4, <2>5, <3>1
    <3>3. QED
        BY <2>7, <3>1, <3>2
  <2>10. Tail(d) = Rest(q, k)
    <3>1. Tail(d) \in Seq(Byte) /\ Rest(q, k) \in Seq(Byte) /\ Len(Tail(d)) = Len(Rest(q, k))
        BY <2>4, <2>7, <2>8
    <3>2. QED
        BY <2>9, <3>1, SeqEqual
  <2>11. QED
      BY <2>3, <2>5, <2>6, <2>7, <2>10
<1>2. QED
    BY <1>1

\* The types of fixed size are simple ones, of so many octets.
LEMMA SimpleTags == \A t : t \in DOMAIN Signed \/ t \in DOMAIN Unsigned => t \notin Compound
BY Tags

LEMMA Sizes ==
    /\ \A t \in DOMAIN Signed : t \in Nat /\ Signed[t] \in Nat
    /\ \A t \in DOMAIN Unsigned \ {3} : t \in Nat /\ Unsigned[t] \in Nat
<1>1. ASSUME NEW t \in DOMAIN Signed PROVE t \in Nat /\ Signed[t] \in Nat
    BY Tags
<1>2. ASSUME NEW t \in DOMAIN Unsigned \ {3} PROVE t \in Nat /\ Unsigned[t] \in Nat
    BY Tags
<1>3. QED
    BY <1>1, <1>2

\* What stands i octets into q: a number of n octets, a text of n octets.
LEMMA NumberAt ==
    ASSUME NEW q \in Seq(Byte), NEW i \in Nat, NEW n \in Nat, NEW t \in Nat,
           t = q[i + 1],
           (t \in DOMAIN Signed /\ Signed[t] = n)
             \/ (t \in DOMAIN Unsigned \ {3} /\ Unsigned[t] = n),
           i + 1 + n <= Len(q)
    PROVE  FirstUsed(ElementsUsed, Rest(q, i)) = 1 + n
<1>1. PICK l \in Nat : l = Len(q) /\ i < l /\ i + 1 <= l /\ l - (i + 1) >= n
    BY LenProperties
<1>2. PICK d : d = Rest(q, i)
    OBVIOUS
<1>3. d # <<>> /\ Head(d) = t /\ Tail(d) = Rest(q, i + 1)
    BY <1>1, <1>2, AheadAt
<1>4. Len(Rest(q, i + 1)) = l - (i + 1)
  <2>1. PICK k \in Nat : k = i + 1 /\ k <= l
      BY <1>1
  <2>2. Len(Rest(q, k)) = l - k
      BY <1>1, <2>1, RestAt
  <2>3. QED
      BY <2>1, <2>2
<1>5. ~ (Len(Tail(d)) < n)
    BY <1>1, <1>3, <1>4
<1>6. \E word : Simple(d) = Number(Tail(d), n, word)
    BY <1>3, SimpleSigned, SimpleUnsigned
<1>7. Simple(d).used = 1 + n
    BY <1>5, <1>6 DEF Number
<1>8. t \notin Compound
  <2>1. t \in DOMAIN Signed \/ t \in DOMAIN Unsigned
      OBVIOUS
  <2>2. QED
      BY <2>1, SimpleTags, Zenon
<1>9. QED
    BY <1>2, <1>3, <1>7, <1>8 DEF FirstUsed

LEMMA TextAt ==
    ASSUME NEW q \in Seq(Byte), NEW i \in Nat, NEW n \in Nat, q[i + 1] = 9,
           q[i + 2] = n, n < 128, i + 2 + n <= Len(q)
    PROVE  FirstUsed(ElementsUsed, Rest(q, i)) = 2 + n
<1>1. PICK l \in Nat : l = Len(q) /\ i < l /\ i + 1 <= l /\ l - (i + 1) >= 1 + n
    BY LenProperties
<1>2. PICK d : d = Rest(q, i)
    OBVIOUS
<1>3. d # <<>> /\ Head(d) = 9 /\ Tail(d) = Rest(q, i + 1)
    BY <1>1, <1>2, AheadAt
<1>4. PICK c \in Seq(Byte) : c = Tail(d) /\ Len(c) >= 1 + n /\ Len(c) \in Nat /\ c[1] = n
  <2>1. PICK k \in Nat : k = i + 1 /\ k <= l /\ k + 1 = i + 2 /\ l - k >= 1 + n
      BY <1>1
  <2>2. /\ Rest(q, k) \in Seq(Byte) /\ Len(Rest(q, k)) = l - k
        /\ \A j \in Nat : 1 <= j /\ j <= l - k => Rest(q, k)[j] = q[k + j]
      BY <1>1, <2>1, RestAt
  <2>3. 1 \in Nat /\ 1 <= 1 /\ 1 <= l - k
      BY <2>1
  <2>4. Rest(q, k)[1] = n
      BY <2>1, <2>2, <2>3
  <2>5. Tail(d) = Rest(q, k)
      BY <1>3, <2>1
  <2>6. Len(Rest(q, k)) >= 1 + n /\ Len(Rest(q, k)) \in Nat
      BY <2>1, <2>2
  <2>7. QED
      BY <2>2, <2>4, <2>5, <2>6, Zenon
<1>5. ParseLength(c) = [used |-> 1, value |-> n]
  <2>1. Len(c) >= 1 /\ c[1] < 128 /\ c[1] # 129 /\ c[1] # 130
      BY <1>4
  <2>2. QED
      BY <1>4, <2>1 DEF ParseLength
<1>6. PICK t \in Nat : t = 9
    OBVIOUS
<1>7. Simple(d) = String(c)
  <2>1. t = Head(d) /\ t \in Text
      BY <1>3, <1>6, Tags
  <2>2. QED
      BY <1>4, <2>1, SimpleText
<1>8. String(c).used = 2 + n
    BY <1>4, <1>5 DEF String
<1>9. Head(d) \notin Compound
  <2>1. Head(d) = 9
      BY <1>3
  <2>2. 9 \notin {1, 2}
      OBVIOUS
  <2>3. Compound = {1, 2}
      BY Tags
  <2>4. QED
      BY <2>1, <2>2, <2>3, Zenon
<1>10. QED
    BY <1>2, <1>7, <1>8, <1>9 DEF FirstUsed

\* A number or a logical name, with the values behind it.
LEMMA MoreUnsigned ==
    \A q \in Seq(Byte), i \in Nat, j \in Nat, m \in Nat :
        /\ q[i + 1] \in DOMAIN Unsigned \ {3} /\ i + 1 + Unsigned[q[i + 1]] = j /\ j <= Len(q)
        /\ ElementsUsed[Rest(q, j)][m] = Len(q) - j
        => ElementsUsed[Rest(q, i)][m + 1] = Len(q) - i
<1>1. SUFFICES ASSUME NEW q \in Seq(Byte), NEW i \in Nat, NEW j \in Nat, NEW m \in Nat,
                      q[i + 1] \in DOMAIN Unsigned \ {3}, i + 1 + Unsigned[q[i + 1]] = j,
                      j <= Len(q), ElementsUsed[Rest(q, j)][m] = Len(q) - j
               PROVE  ElementsUsed[Rest(q, i)][m + 1] = Len(q) - i
    OBVIOUS
<1>2. PICK t \in Nat, n \in Nat : t = q[i + 1] /\ n = Unsigned[t] /\ t \in DOMAIN Unsigned \ {3}
    BY <1>1, Sizes
<1>3. i + 1 + n = j /\ Unsigned[t] = n
    BY <1>1, <1>2
<1>4. i + 1 + n <= Len(q)
    BY <1>1, <1>3
<1>5. FirstUsed(ElementsUsed, Rest(q, i)) = 1 + n
    BY <1>2, <1>3, <1>4, NumberAt
<1>6. PICK u \in Nat : u = 1 + n /\ u # 0 /\ i + u = j
    BY <1>3
<1>7. /\ u # 0 /\ i + u = j /\ j <= Len(q)
      /\ FirstUsed(ElementsUsed, Rest(q, i)) = u
      /\ ElementsUsed[Rest(q, j)][m] = Len(q) - j
    BY <1>1, <1>5, <1>6
<1>8. QED
    BY <1>7, MoreValues

LEMMA MoreSigned ==
    \A q \in Seq(Byte), i \in Nat, j \in Nat, m \in Nat :
        /\ q[i + 1] \in DOMAIN Signed /\ i + 1 + Signed[q[i + 1]] = j /\ j <= Len(q)
        /\ ElementsUsed[Rest(q, j)][m] = Len(q) - j
        => ElementsUsed[Rest(q, i)][m + 1] = Len(q) - i
<1>1. SUFFICES ASSUME NEW q \in Seq(Byte), NEW i \in Nat, NEW j \in Nat, NEW m \in Nat,
                      q[i + 1] \in DOMAIN Signed, i + 1 + Signed[q[i + 1]] = j,
                      j <= Len(q), ElementsUsed[Rest(q, j)][m] = Len(q) - j
               PROVE  ElementsUsed[Rest(q, i)][m + 1] = Len(q) - i
    OBVIOUS
<1>2. PICK t \in Nat, n \in Nat : t = q[i + 1] /\ n = Signed[t] /\ t \in DOMAIN Signed
    BY <1>1, Sizes
<1>3. i + 1 + n = j /\ Signed[t] = n
    BY <1>1, <1>2
<1>4. i + 1 + n <= Len(q)
    BY <1>1, <1>3
<1>5. FirstUsed(ElementsUsed, Rest(q, i)) = 1 + n
    BY <1>2, <1>3, <1>4, NumberAt
<1>6. PICK u \in Nat : u = 1 + n /\ u # 0 /\ i + u = j
    BY <1>3
<1>7. /\ u # 0 /\ i + u = j /\ j <= Len(q)
      /\ FirstUsed(ElementsUsed, Rest(q, i)) = u
      /\ ElementsUsed[Rest(q, j)][m] = Len(q) - j
    BY <1>1, <1>5, <1>6
<1>8. QED
    BY <1>7, MoreValues

LEMMA MoreText ==
    \A q \in Seq(Byte), i \in Nat, j \in Nat, m \in Nat :
        /\ q[i + 1] = 9 /\ q[i + 2] = 6 /\ i + 8 = j /\ j <= Len(q)
        /\ ElementsUsed[Rest(q, j)][m] = Len(q) - j
        => ElementsUsed[Rest(q, i)][m + 1] = Len(q) - i
<1>1. TAKE q \in Seq(Byte), i \in Nat, j \in Nat, m \in Nat
<1>2. HAVE /\ q[i + 1] = 9 /\ q[i + 2] = 6 /\ i + 8 = j /\ j <= Len(q)
           /\ ElementsUsed[Rest(q, j)][m] = Len(q) - j
<1>3. PICK n \in Nat : n = 6 /\ n < 128
    OBVIOUS
<1>4. q[i + 1] = 9 /\ q[i + 2] = n /\ i + 2 + n <= Len(q)
    BY <1>2, <1>3
<1>5. FirstUsed(ElementsUsed, Rest(q, i)) = 2 + n
    BY <1>3, <1>4, TextAt
<1>6. PICK u \in Nat : u = 2 + n /\ u # 0 /\ i + u = j
    BY <1>2, <1>3
<1>7. /\ u # 0 /\ i + u = j /\ j <= Len(q)
      /\ FirstUsed(ElementsUsed, Rest(q, i)) = u
      /\ ElementsUsed[Rest(q, j)][m] = Len(q) - j
    BY <1>2, <1>5, <1>6
<1>8. QED
    BY <1>7, MoreValues

\* Behind the first octet.
LEMMA RestOne ==
    ASSUME NEW q \in Seq(Byte), q # <<>>
    PROVE  Tail(q) = Rest(q, 1)
<1>1. PICK z \in Nat : z = 0
    OBVIOUS
<1>2. Len(q) \in Nat /\ Len(q) # 0 /\ z < Len(q) /\ z \in 0 .. Len(q)
    BY <1>1, LenProperties, EmptySeq
<1>3. Rest(q, z) = q
  <2>1. Rest(q, z) \in Seq(Byte) /\ Len(Rest(q, z)) = Len(q)
        /\ \A j \in Nat : 1 <= j /\ j <= Len(q) - z => Rest(q, z)[j] = q[z + j]
      BY <1>1, <1>2, RestAt
  <2>2. \A j \in 1 .. Len(q) : Rest(q, z)[j] = q[j]
      BY <1>1, <1>2, <2>1
  <2>3. QED
      BY <2>1, <2>2, SeqEqual
<1>4. Tail(Rest(q, z)) = Rest(q, z + 1)
    BY <1>2, AheadAt
<1>5. QED
    BY <1>1, <1>3, <1>4

\* A definition is one structure of four values.
LEMMA DefinitionIsRead ==
    ASSUME NEW p, NEW q \in Seq(Byte), q = p.octets, DefinitionPart(p)
    PROVE  /\ ParseValue(q).used = 18 /\ Len(q) = 18
           /\ SubSeq(q, 1, 3) = <<2, 4, 18>> /\ SubSeq(q, 6, 7) = <<9, 6>>
<1>1. Len(q) = 18 /\ q[14] = 15 /\ q[16] = 18
    BY DEF DefinitionPart
<1>2. SubSeq(q, 6, 7) = <<9, 6>>
    BY DEF DefinitionPart
<1>3. SubSeq(q, 1, 3) = <<2, 4, 18>>
  <2>1. Len(<<2, 4, 18>>) = 3
      OBVIOUS
  <2>2. SubSeq(<<2, 4, 18>>, 1, 3) = <<2, 4, 18>>
    <3>1. PICK u \in Seq(Byte) : u = <<2, 4, 18>>
      <4>1. <<2, 4, 18>> \in Seq(Byte)
          BY DEF Byte
      <4>2. QED
          BY <4>1
    <3>2. PICK n \in Nat : n = 3 /\ n = Len(u)
        BY <2>1, <3>1
    <3>3. SubSeq(u, 1, n) = u
        BY <3>2, SubSeqFull
    <3>4. QED
        BY <3>1, <3>2, <3>3
  <2>3. QED
      BY <2>1, <2>2 DEF DefinitionPart, IsPrefix
<1>4. q[1] = 2 /\ q[2] = 4 /\ q[3] = 18 /\ q[6] = 9 /\ q[7] = 6
  <2>1. /\ SubSeq(q, 6, 7)[1] = q[6] /\ SubSeq(q, 6, 7)[2] = q[7]
        /\ SubSeq(q, 1, 3)[1] = q[1] /\ SubSeq(q, 1, 3)[2] = q[2]
        /\ SubSeq(q, 1, 3)[3] = q[3]
      BY <1>1, SubSeqProperties
  <2>2. /\ <<9, 6>>[1] = 9 /\ <<9, 6>>[2] = 6
        /\ <<2, 4, 18>>[1] = 2 /\ <<2, 4, 18>>[2] = 4 /\ <<2, 4, 18>>[3] = 18
      OBVIOUS
  <2>3. QED
      BY <1>2, <1>3, <2>1, <2>2, Zenon
<1>5. PICK l \in Nat : l = Len(q) /\ l <= Len(q) /\ Len(q) <= l
    BY LenProperties
<1>6. l = 18
    BY <1>5, <1>1
<1>7. ElementsUsed[Rest(q, 18)][0] = Len(q) - 18
  <2>1. Rest(q, l) \in Seq(Byte) /\ Len(q) - l = 0
      BY <1>5, RestAt
  <2>2. ElementsUsed[Rest(q, l)] = ValuesUsed(ElementsUsed, Rest(q, l))
      BY <2>1, ElementsUsedIs
  <2>3. ValuesUsed(ElementsUsed, Rest(q, l))[0] = 0
      BY DEF ValuesUsed
  <2>4. QED
      BY <1>6, <2>1, <2>2, <2>3
<1>8. ElementsUsed[Rest(q, 15)][1] = Len(q) - 15
  <2>1. PICK i \in Nat, j \in Nat, m \in Nat : i = 15 /\ j = 18 /\ m = 0
      OBVIOUS
  <2>2. q[16] \in DOMAIN Unsigned \ {3} /\ 16 + Unsigned[q[16]] = 18
      BY <1>1, <1>4, Tags
  <2>3. q[i + 1] \in DOMAIN Unsigned \ {3} /\ i + 1 + Unsigned[q[i + 1]] = j
      BY <2>1, <2>2
  <2>4. j <= Len(q) /\ ElementsUsed[Rest(q, j)][m] = Len(q) - j
      BY <1>5, <1>6, <1>7, <2>1
  <2>5. ElementsUsed[Rest(q, i)][m + 1] = Len(q) - i
      BY <2>3, <2>4, MoreUnsigned
  <2>6. QED
      BY <2>1, <2>5
<1>9. ElementsUsed[Rest(q, 13)][2] = Len(q) - 13
  <2>1. PICK i \in Nat, j \in Nat, m \in Nat : i = 13 /\ j = 15 /\ m = 1
      OBVIOUS
  <2>2. q[i + 1] \in DOMAIN Signed /\ i + 1 + Signed[q[i + 1]] = j
      BY <1>1, <1>4, <2>1, Tags
  <2>3. j <= Len(q) /\ ElementsUsed[Rest(q, j)][m] = Len(q) - j
      BY <1>5, <1>6, <1>8, <2>1
  <2>4. ElementsUsed[Rest(q, i)][m + 1] = Len(q) - i
      BY <2>2, <2>3, MoreSigned
  <2>5. QED
      BY <2>1, <2>4
<1>10. ElementsUsed[Rest(q, 5)][3] = Len(q) - 5
  <2>1. PICK i \in Nat, j \in Nat, m \in Nat : i = 5 /\ j = 13 /\ m = 2
      OBVIOUS
  <2>2. q[i + 1] = 9 /\ q[i + 2] = 6 /\ i + 8 = j
      BY <1>4, <2>1
  <2>3. j <= Len(q) /\ ElementsUsed[Rest(q, j)][m] = Len(q) - j
      BY <1>5, <1>6, <1>9, <2>1
  <2>4. ElementsUsed[Rest(q, i)][m + 1] = Len(q) - i
      BY <2>2, <2>3, MoreText
  <2>5. QED
      BY <2>1, <2>4
<1>11. ElementsUsed[Rest(q, 2)][4] = Len(q) - 2
  <2>1. PICK i \in Nat, j \in Nat, m \in Nat : i = 2 /\ j = 5 /\ m = 3
      OBVIOUS
  <2>2. q[3] \in DOMAIN Unsigned \ {3} /\ 3 + Unsigned[q[3]] = 5
      BY <1>1, <1>4, Tags
  <2>3. q[i + 1] \in DOMAIN Unsigned \ {3} /\ i + 1 + Unsigned[q[i + 1]] = j
      BY <2>1, <2>2
  <2>4. j <= Len(q) /\ ElementsUsed[Rest(q, j)][m] = Len(q) - j
      BY <1>5, <1>6, <1>10, <2>1
  <2>5. ElementsUsed[Rest(q, i)][m + 1] = Len(q) - i
      BY <2>3, <2>4, MoreUnsigned
  <2>6. QED
      BY <2>1, <2>5
<1>12. ElementsUsed[Rest(q, 2)][4] = 16
  <2>1. l - 2 = 16
      BY <1>6
  <2>2. ElementsUsed[Rest(q, 2)][4] = l - 2
      BY <1>5, <1>11
  <2>3. QED
      BY <2>1, <2>2
<1>13. q # <<>> /\ Head(q) = 2 /\ Head(q) \in Compound
  <2>1. q # <<>>
      BY <1>1, EmptySeq
  <2>2. QED
      BY <1>4, <2>1, TailFits, Tags
<1>14. PICK c \in Seq(Byte) : c = Tail(q) /\ c = Rest(q, 1) /\ Len(c) >= 1 /\ c[1] = 4
  <2>1. Tail(q) = Rest(q, 1)
      BY <1>13, RestOne
  <2>2. /\ Tail(q) \in Seq(Byte) /\ Len(q) = Len(Tail(q)) + 1 /\ Len(Tail(q)) \in Nat
        /\ \A i \in 1 .. Len(Tail(q)) : Tail(q)[i] = q[i + 1]
      BY <1>13, TailFits
  <2>3. l >= 2
      BY <1>6
  <2>4. 1 \in 1 .. Len(Tail(q)) /\ Len(Tail(q)) >= 1
      BY <1>5, <2>2, <2>3
  <2>5. Tail(q)[1] = q[2]
      BY <2>2, <2>4
  <2>6. Tail(q)[1] = 4
      BY <1>4, <2>5, Zenon
  <2>7. QED
      BY <2>1, <2>2, <2>4, <2>6, Zenon
<1>15. ParseLength(c) = [used |-> 1, value |-> 4]
  <2>1. Len(c) >= 1 /\ c[1] < 128 /\ c[1] # 129 /\ c[1] # 130
      BY <1>14
  <2>2. QED
      BY <1>14, <2>1 DEF ParseLength
<1>16. Rest(c, 1) = Rest(q, 2)
  <2>1. 1 \in 0 .. Len(q) /\ 1 \in 0 .. Len(q) - 1
      BY <1>1
  <2>2. LET t == SubSeq(q, 1 + 1, Len(q))
        IN  SubSeq(t, 1 + 1, Len(t)) = SubSeq(q, 1 + 1 + 1, Len(q))
      BY <2>1, BehindBehind
  <2>3. QED
      BY <1>14, <2>2 DEF Rest
<1>17. CompoundUsed(ElementsUsed, q) =
           IF 1 < 0 \/ ElementsUsed[Rest(q, 2)][4] < 0 THEN -1
           ELSE 1 + 1 + ElementsUsed[Rest(q, 2)][4]
  <2>1. ParseLength(Tail(q)).used = 1 /\ ParseLength(Tail(q)).value = 4
      BY <1>14, <1>15
  <2>2. Rest(Tail(q), 1) = Rest(q, 2)
      BY <1>14, <1>16
  <2>3. QED
      BY <2>1, <2>2, Zenon DEF CompoundUsed
<1>18. ParseValue(q).used = CompoundUsed(ElementsUsed, q)
    BY <1>13 DEF ParseValue
<1>19. QED
    BY <1>1, <1>2, <1>3, <1>17, <1>12, <1>18

-----------------------------------------------------------------------------
(* Where the items of a message are                                        *)

\* Of two ways to cut the same octets in two, the shorter first part begins the
\* longer.
LEMMA TwoCuts ==
    ASSUME NEW x \in Seq(Byte), NEW c \in Seq(Byte), NEW d \in Seq(Byte), NEW r \in Seq(Byte),
           x \o c = d \o r, Len(x) <= Len(d)
    PROVE  d = x \o Rest(d, Len(x))
<1>1. PICK n \in Nat : n = Len(x) /\ n <= Len(d) /\ n \in 0 .. Len(d)
    BY LenProperties
<1>2. PICK i \in Nat : i = 1 /\ 1 <= i
    OBVIOUS
<1>3. SubSeq(d \o r, i, n) = SubSeq(d, i, n)
    BY <1>1, <1>2, CutWithMore
<1>4. SubSeq(x \o c, i, n) = SubSeq(x, i, n)
  <2>1. n <= Len(x)
      BY <1>1
  <2>2. QED
      BY <1>2, <2>1, CutWithMore
<1>5. SubSeq(x, 1, n) = x
    BY <1>1, SubSeqFull
<1>6. SubSeq(d, 1, n) = x
    BY <1>2, <1>3, <1>4, <1>5
<1>7. PICK e \in Seq(Byte) : d = x \o e
    BY <1>1, <1>6, PrefixLeaves
<1>8. Rest(x \o e, Len(x)) = e
    BY BehindFirst DEF Rest
<1>9. QED
    BY <1>7, <1>8

Encoded(m) == [i \in DOMAIN m.parts |-> m.parts[i].octets]

\* Where the part behind the first k begins.
PlaceOf(m, k) ==
    4 + Len(m.opening) + Len(FlattenSeq(SubSeq(Encoded(m), 1, k)))

\* What is known of the message, from the assumption on Messages.
LEMMA MessageTyped ==
    ASSUME NEW m \in Messages
    PROVE  /\ m.opening \in Seq(Byte) /\ Len(m.opening) \in Nat
           /\ m.parts \in Seq(Part) /\ Len(m.parts) \in Nat
           /\ DOMAIN m.parts = 1 .. Len(m.parts)
           /\ \A i \in 1 .. Len(m.parts) :
                 m.parts[i].octets \in Seq(Byte) /\ m.parts[i].item \in Item
<1>1. m.opening \in Seq(Byte) /\ m.parts \in Seq(Part)
    BY BlockAssumption
<1>2. Len(m.opening) \in Nat /\ Len(m.parts) \in Nat /\ DOMAIN m.parts = 1 .. Len(m.parts)
    BY <1>1, LenProperties
<1>3. ASSUME NEW i \in 1 .. Len(m.parts)
      PROVE  m.parts[i].octets \in Seq(Byte) /\ m.parts[i].item \in Item
  <2>1. m.parts[i] \in Part
      BY <1>1, ElementOfSeq
  <2>2. QED
      BY <2>1 DEF Part
<1>4. QED
    BY <1>1, <1>2, <1>3

\* The octets of the parts, as a sequence of sequences.
LEMMA EncodedTyped ==
    ASSUME NEW m \in Messages
    PROVE  /\ Encoded(m) \in Seq(Seq(Byte)) /\ Len(Encoded(m)) = Len(m.parts)
           /\ \A i \in 1 .. Len(m.parts) : Encoded(m)[i] = m.parts[i].octets
<1>1. PICK n \in Nat : n = Len(m.parts) /\ DOMAIN m.parts = 1 .. n
    BY MessageTyped
<1>2. \A i \in 1 .. n : m.parts[i].octets \in Seq(Byte)
    BY <1>1, MessageTyped
<1>3. Encoded(m) = [i \in 1 .. n |-> m.parts[i].octets]
    BY <1>1 DEF Encoded
<1>4. Encoded(m) \in [1 .. n -> Seq(Byte)]
    BY <1>2, <1>3
<1>5. Encoded(m) \in Seq(Seq(Byte)) /\ Len(Encoded(m)) = n
    BY <1>4, SeqDef, LenProperties
<1>6. \A i \in 1 .. n : Encoded(m)[i] = m.parts[i].octets
    BY <1>3
<1>7. QED
    BY <1>1, <1>5, <1>6

\* The items of the parts.
LEMMA MeantTyped ==
    ASSUME NEW m \in Messages
    PROVE  /\ Meant(m) \in Seq(Item) /\ Len(Meant(m)) = Len(m.parts)
           /\ \A i \in 1 .. Len(m.parts) : Meant(m)[i] = m.parts[i].item
<1>1. PICK n \in Nat : n = Len(m.parts) /\ DOMAIN m.parts = 1 .. n
    BY MessageTyped
<1>2. \A i \in 1 .. n : m.parts[i].item \in Item
    BY <1>1, MessageTyped
<1>3. Meant(m) = [i \in 1 .. n |-> m.parts[i].item]
    BY <1>1 DEF Meant
<1>4. Meant(m) \in [1 .. n -> Item]
    BY <1>2, <1>3
<1>5. Meant(m) \in Seq(Item) /\ Len(Meant(m)) = n
    BY <1>4, SeqDef, LenProperties
<1>6. \A i \in 1 .. n : Meant(m)[i] = m.parts[i].item
    BY <1>3
<1>7. QED
    BY <1>1, <1>5, <1>6

\* The octets sent: four of header, the opening, then the parts.
LEMMA OctetsAre ==
    ASSUME NEW m \in Messages
    PROVE  /\ FlattenSeq(Encoded(m)) \in Seq(Byte)
           /\ \E h \in Seq(Byte) :
                 /\ h = BlockHeader \o m.opening /\ Len(h) = 4 + Len(m.opening)
                 /\ Octets(m) = h \o FlattenSeq(Encoded(m))
<1>1. BlockHeader \in Seq(Byte)
    BY DEF BlockHeader, Byte
<1>2. Len(BlockHeader) = 4
    BY DEF BlockHeader
<1>3. PICK b \in Seq(Byte), p \in Seq(Byte) : b = BlockHeader /\ p = m.opening
    BY <1>1, MessageTyped
<1>4. PICK h \in Seq(Byte) : h = b \o p /\ Len(h) = Len(b) + Len(p)
    BY WithMore
<1>5. Encoded(m) \in Seq(Seq(Byte))
    BY EncodedTyped
<1>6. FlattenSeq(Encoded(m)) \in Seq(Byte)
    BY <1>5, FlattenConcat
<1>7. Octets(m) = h \o FlattenSeq(Encoded(m))
    BY <1>3, <1>4 DEF Octets, Encoded
<1>8. QED
    BY <1>2, <1>3, <1>4, <1>6, <1>7

\* The part behind the first k, and what is behind it.
LEMMA PlaceAt ==
    ASSUME NEW m \in Messages, NEW k \in Nat, k < Len(m.parts)
    PROVE  \E x \in Seq(Byte), c \in Seq(Byte), p \in Nat :
              /\ x = m.parts[k + 1].octets /\ p = PlaceOf(m, k)
              /\ p + Len(x) = PlaceOf(m, k + 1)
              /\ Rest(Octets(m), p) = x \o c /\ p + Len(x) + Len(c) = Len(Octets(m))
<1>1. PICK h \in Seq(Byte) : /\ Len(h) = 4 + Len(m.opening)
                             /\ Octets(m) = h \o FlattenSeq(Encoded(m))
    BY OctetsAre
<1>2. PICK e \in Seq(Seq(Byte)) : e = Encoded(m) /\ k < Len(e)
    BY EncodedTyped
<1>3. /\ FlattenSeq(SubSeq(e, 1, k)) \in Seq(Byte) /\ e[k + 1] \in Seq(Byte)
      /\ FlattenSeq(SubSeq(e, 1, k + 1)) = FlattenSeq(SubSeq(e, 1, k)) \o e[k + 1]
      /\ \E c \in Seq(Byte) : FlattenSeq(e) = FlattenSeq(SubSeq(e, 1, k + 1)) \o c
    BY <1>2, FlattenAround
<1>4. PICK a \in Seq(Byte), x \in Seq(Byte) :
         a = FlattenSeq(SubSeq(e, 1, k)) /\ x = e[k + 1]
    BY <1>3
<1>5. PICK c \in Seq(Byte) : FlattenSeq(e) = (a \o x) \o c
    BY <1>1, <1>2, <1>3, <1>4
<1>6. x = m.parts[k + 1].octets
  <2>1. k + 1 \in 1 .. Len(m.parts)
      BY MessageTyped
  <2>2. Encoded(m)[k + 1] = m.parts[k + 1].octets
      BY <2>1, EncodedTyped
  <2>3. QED
      BY <1>2, <1>4, <2>2
<1>7. Octets(m) = h \o ((a \o x) \o c)
    BY <1>1, <1>2, <1>5
<1>8. /\ Rest(Octets(m), Len(h) + Len(a)) = x \o c
      /\ Len(Octets(m)) = Len(h) + Len(a) + Len(x) + Len(c)
      /\ Len(a \o x) = Len(a) + Len(x)
      /\ Len(h) \in Nat /\ Len(a) \in Nat /\ Len(x) \in Nat /\ Len(c) \in Nat
  <2>1. Octets(m) = (h \o a) \o (x \o c)
    <3>1. x \o c \in Seq(Byte)
        BY WithMore
    <3>2. (a \o x) \o c = a \o (x \o c)
        BY Regroup, Zenon
    <3>3. (h \o a) \o (x \o c) = h \o (a \o (x \o c))
        BY <3>1, Regroup, Zenon
    <3>4. QED
        BY <1>7, <3>2, <3>3, Zenon
  <2>2. Len(a \o x) = Len(a) + Len(x)
      BY WithMore
  <2>3. PICK b \in Seq(Byte) : b = h \o a /\ Len(b) = Len(h) + Len(a)
                               /\ Len(h) \in Nat /\ Len(a) \in Nat
      BY WithMore
  <2>4. PICK g \in Seq(Byte) : g = x \o c /\ Len(g) = Len(x) + Len(c)
                               /\ Len(x) \in Nat /\ Len(c) \in Nat
      BY WithMore
  <2>5. Rest(b \o g, Len(b)) = g
      BY BehindFirst DEF Rest
  <2>6. Len(b \o g) = Len(b) + Len(g)
      BY WithMore
  <2>7. Len(b \o g) = Len(h) + Len(a) + Len(x) + Len(c)
      BY <2>3, <2>4, <2>6
  <2>8. QED
      BY <2>1, <2>2, <2>3, <2>4, <2>5, <2>7
<1>9. PICK p \in Nat : p = Len(h) + Len(a)
    BY <1>8
<1>10. PlaceOf(m, k) = p
    BY <1>1, <1>2, <1>4, <1>9 DEF PlaceOf
<1>11. PlaceOf(m, k + 1) = p + Len(x)
  <2>1. PlaceOf(m, k + 1) = Len(h) + Len(a \o x)
      BY <1>1, <1>2, <1>3, <1>4 DEF PlaceOf
  <2>2. QED
      BY <1>8, <1>9, <2>1
<1>12. p + Len(x) + Len(c) = Len(Octets(m))
    BY <1>8, <1>9
<1>13. QED
    BY <1>6, <1>8, <1>9, <1>10, <1>11, <1>12

\* Where the first part begins and where the last one ends.
LEMMA PlaceEnds ==
    ASSUME NEW m \in Messages
    PROVE  /\ PlaceOf(m, 0) = 4 + Len(m.opening)
           /\ PlaceOf(m, Len(m.parts)) = Len(Octets(m)) /\ Len(Octets(m)) \in Nat
<1>1. PICK h \in Seq(Byte), f \in Seq(Byte) :
              /\ Len(h) = 4 + Len(m.opening) /\ f = FlattenSeq(Encoded(m))
              /\ Octets(m) = h \o f
    BY OctetsAre
<1>2. PICK e \in Seq(Seq(Byte)) : e = Encoded(m) /\ Len(e) = Len(m.parts)
    BY EncodedTyped
<1>3. PICK n \in Nat : n = Len(m.parts)
    BY MessageTyped
<1>4. SubSeq(e, 1, n) = e
    BY <1>2, <1>3, SubSeqFull
<1>5. SubSeq(e, 1, 0) = <<>>
  <2>1. 0 \in Int /\ 1 \in Int /\ 0 < 1
      OBVIOUS
  <2>2. QED
      BY <2>1, SubSeqEmpty
<1>6. FlattenSeq(SubSeq(e, 1, 0)) = <<>> /\ Len(<<>>) = 0
    BY <1>5, FlattenEmpty, EmptySeq
<1>7. Len(h \o f) = Len(h) + Len(f) /\ Len(h) \in Nat /\ Len(f) \in Nat
    BY WithMore
<1>8. PlaceOf(m, 0) = 4 + Len(m.opening)
  <2>1. PICK j \in Nat : j = Len(m.opening)
      BY MessageTyped
  <2>2. PlaceOf(m, 0) = 4 + j + 0
      BY <1>2, <1>6, <2>1 DEF PlaceOf
  <2>3. QED
      BY <2>1, <2>2
<1>9. PlaceOf(m, n) = 4 + Len(m.opening) + Len(f)
    BY <1>1, <1>2, <1>4 DEF PlaceOf
<1>10. QED
    BY <1>1, <1>3, <1>7, <1>8, <1>9, MessageTyped

-----------------------------------------------------------------------------
(* What the walk sees of an item                                           *)

\* What is known of each part of a block as the meter writes it.
LEMMA PartIsRead ==
    ASSUME NEW W, Encoding(W), NEW m \in Messages, WellFormed(m, W),
           NEW k \in Nat, k < Len(m.parts), NEW x \in Seq(Byte), x = m.parts[k + 1].octets
    PROVE  /\ x # <<>> /\ ParseValue(x).used = Len(x)
           /\ \/ /\ Len(x) >= 18 /\ Len(x) <= 18
                 /\ SubSeq(x, 1, 3) = <<2, 4, 18>> /\ SubSeq(x, 6, 7) = <<9, 6>>
                 /\ Meant(m)[k + 1] = [kind |-> "def", type |-> 0,
                                       content |-> SubSeq(x, 8, 13)]
              \/ /\ Len(x) >= 3 => SubSeq(x, 1, 3) # <<2, 4, 18>>
                 /\ Meant(m)[k + 1] = [kind |-> "val", type |-> x[1],
                                       content |-> ParseValue(x).content]
<1>1. PICK n \in Nat : n = Len(m.parts) /\ DOMAIN m.parts = 1 .. n
    BY MessageTyped
<1>2. PICK i \in 1 .. n : i = k + 1
    BY <1>1
<1>3. PICK p \in Part : p = m.parts[i] /\ Meant(m)[i] = p.item /\ p.octets = x
  <2>1. m.parts[i] \in Part
      BY <1>1, <1>2, MessageTyped, ElementOfSeq
  <2>2. Meant(m)[i] = m.parts[i].item
      BY <1>1, <1>2, MeantTyped
  <2>3. QED
      BY <1>2, <2>1, <2>2
<1>4. CASE DefinitionPart(p)
  <2>1. /\ ParseValue(x).used = 18 /\ Len(x) = 18
        /\ SubSeq(x, 1, 3) = <<2, 4, 18>> /\ SubSeq(x, 6, 7) = <<9, 6>>
      BY <1>3, <1>4, DefinitionIsRead
  <2>2. p.item = [kind |-> "def", type |-> 0, content |-> SubSeq(x, 8, 13)]
      BY <1>3, <1>4 DEF DefinitionPart
  <2>3. PICK l \in Nat : l = Len(x) /\ l = 18
      BY <2>1
  <2>4. x # <<>>
    <3>1. Len(<<>>) = 0
        BY EmptySeq
    <3>2. l # 0
        BY <2>3
    <3>3. QED
        BY <2>3, <3>1, <3>2
  <2>5. l >= 18 /\ l <= 18
      BY <2>3
  <2>6. QED
      BY <1>2, <1>3, <2>1, <2>2, <2>3, <2>4, <2>5, Zenon
<1>5. CASE ValuePart(W, p)
  <2>1. Whole(x, p.item.content)
    <3>1. PICK w \in W : w = [octets |-> x, content |-> p.item.content]
        BY <1>3, <1>5 DEF ValuePart
    <3>2. Whole(w.octets, w.content)
        BY EncodingIsRead
    <3>3. QED
        BY <3>1, <3>2
  <2>2. x # <<>> /\ ParseValue(x).used = Len(x) /\ ParseValue(x).content = p.item.content
      BY <2>1 DEF Whole
  <2>3. p.item = [kind |-> "val", type |-> x[1], content |-> ParseValue(x).content]
    <3>1. p.item \in Item
        BY DEF Part
    <3>2. p.item.kind = "val" /\ p.item.type = x[1]
        BY <1>3, <1>5 DEF ValuePart
    <3>3. QED
        BY <2>2, <3>1, <3>2 DEF Item
  <2>4. Len(x) >= 3 => SubSeq(x, 1, 3) # <<2, 4, 18>>
    <3>1. SUFFICES ASSUME Len(x) >= 3, SubSeq(x, 1, 3) = <<2, 4, 18>>
                   PROVE  FALSE
        OBVIOUS
    <3>2. PICK f \in Seq(Byte) : f = <<2, 4, 18>>
      <4>1. <<2, 4, 18>> \in Seq(Byte)
          BY DEF Byte
      <4>2. QED
          BY <4>1
    <3>3. PICK l \in Nat : l = Len(f) /\ l = 3
      <4>1. Len(<<2, 4, 18>>) = 3
          OBVIOUS
      <4>2. QED
          BY <3>2, <4>1
    <3>4. IsPrefix(f, x)
      <4>1. SubSeq(f, 1, l) = f
          BY <3>3, SubSeqFull
      <4>2. SubSeq(x, 1, l) = f /\ l <= Len(x)
          BY <3>1, <3>2, <3>3
      <4>3. QED
          BY <3>3, <4>1, <4>2 DEF IsPrefix
    <3>5. QED
        BY <1>3, <1>5, <3>2, <3>4 DEF ValuePart
  <2>5. QED
      BY <1>2, <1>3, <2>2, <2>3, <2>4
<1>6. DefinitionPart(p) \/ ValuePart(W, p)
    BY <1>1, <1>3 DEF WellFormed
<1>7. QED
    BY <1>4, <1>5, <1>6

\* A definition that is there to its end.
LEMMA DefinitionSeen ==
    ASSUME NEW x \in Seq(Byte), NEW e \in Seq(Byte), NEW d, d = x \o e,
           Len(x) >= 18, Len(x) <= 18,
           SubSeq(x, 1, 3) = <<2, 4, 18>>, SubSeq(x, 6, 7) = <<9, 6>>
    PROVE  /\ Len(d) >= 18 /\ SubSeq(d, 1, 3) = <<2, 4, 18>>
           /\ SubSeq(d, 6, 7) = <<9, 6>> /\ SubSeq(d, 8, 13) = SubSeq(x, 8, 13)
<1>1. Len(d) = Len(x) + Len(e) /\ Len(x) \in Nat /\ Len(e) \in Nat
    BY WithMore
<1>2. ASSUME NEW i \in Nat, NEW j \in Nat, 1 <= i, j <= 18
      PROVE  SubSeq(d, i, j) = SubSeq(x, i, j)
  <2>1. j <= Len(x)
      BY <1>1, <1>2
  <2>2. QED
      BY <1>2, <2>1, CutWithMore
<1>3. SubSeq(d, 1, 3) = SubSeq(x, 1, 3)
    BY <1>2
<1>4. SubSeq(d, 6, 7) = SubSeq(x, 6, 7)
    BY <1>2
<1>5. SubSeq(d, 8, 13) = SubSeq(x, 8, 13)
    BY <1>2
<1>6. Len(d) >= 18
    BY <1>1
<1>7. QED
    BY <1>3, <1>4, <1>5, <1>6

\* What is shorter than three octets and begins like a definition is no value.
LEMMA ShortIsNoValue ==
    ASSUME NEW x \in Seq(Byte), x # <<>>, Len(x) < 3, x[1] = 2,
           Len(x) >= 2 => x[2] = 4
    PROVE  ParseValue(x).used = -1
<1>1. /\ Head(x) = 2 /\ Head(x) = x[1] /\ Tail(x) \in Seq(Byte) /\ Len(Tail(x)) \in Nat
      /\ Len(x) = Len(Tail(x)) + 1
      /\ \A i \in 1 .. Len(Tail(x)) : Tail(x)[i] = x[i + 1]
    BY TailFits
<1>2. ParseValue(x).used = CompoundUsed(ElementsUsed, x)
    BY <1>1, Tags DEF ParseValue
<1>3. CASE Len(Tail(x)) < 1
  <2>1. PICK b \in Seq(Byte) : b = Tail(x) /\ Len(b) < 1
    <3>1. Tail(x) \in Seq(Byte)
        BY <1>1
    <3>2. QED
        BY <1>3, <3>1
  <2>2. ParseLength(b) = [used |-> -1, value |-> 0]
      BY <2>1 DEF ParseLength
  <2>3. QED
      BY <1>2, <2>1, <2>2 DEF CompoundUsed
<1>4. CASE Len(Tail(x)) >= 1
  <2>1. PICK b \in Seq(Byte) : b = Tail(x) /\ Len(b) >= 1 /\ Len(b) <= 1
    <3>1. Tail(x) \in Seq(Byte) /\ Len(Tail(x)) <= 1
        BY <1>1
    <3>2. QED
        BY <1>4, <3>1
  <2>2. b[1] = 4
    <3>1. 1 \in 1 .. Len(Tail(x)) /\ Len(x) >= 2
        BY <1>1, <1>4
    <3>2. QED
        BY <1>1, <2>1, <3>1
  <2>3. ParseLength(b) = [used |-> 1, value |-> 4]
      BY <2>1, <2>2 DEF ParseLength
  <2>4. Rest(b, 1) \in Seq(Byte) /\ Rest(b, 1) = <<>>
    <3>1. Rest(b, 1) \in Seq(Byte) /\ Len(Rest(b, 1)) = IF 1 <= Len(b) THEN Len(b) - 1 ELSE 0
        BY RestFits
    <3>2. PICK n \in Nat : n = Len(b)
        BY LenProperties
    <3>3. Len(Rest(b, 1)) = 0
        BY <2>1, <3>1, <3>2
    <3>4. QED
        BY <3>1, <3>3, EmptySeq
  <2>5. PICK c \in Seq(Byte) : c = Rest(b, 1) /\ c = <<>>
      BY <2>4
  <2>6. ElementsUsed[c][4] = -1
    <3>1. ElementsUsed[c] = ValuesUsed(ElementsUsed, c)
        BY ElementsUsedIs
    <3>2. ValuesUsed(ElementsUsed, c)[4] = -1
        BY <2>5 DEF ValuesUsed
    <3>3. QED
        BY <3>1, <3>2
  <2>7. QED
      BY <1>2, <2>1, <2>3, <2>5, <2>6 DEF CompoundUsed
<1>5. QED
    BY <1>1, <1>3, <1>4

\* A value that is there to its end.
LEMMA ValueSeen ==
    ASSUME NEW x \in Seq(Byte), NEW e \in Seq(Byte), NEW d, d = x \o e, x # <<>>,
           ParseValue(x).used = Len(x), Len(x) >= 3 => SubSeq(x, 1, 3) # <<2, 4, 18>>
    PROVE  /\ ParseValue(d) = ParseValue(x) /\ d[1] = x[1]
           /\ Len(d) >= 18 => SubSeq(d, 1, 3) # <<2, 4, 18>>
<1>1. /\ d \in Seq(Byte) /\ Len(d) = Len(x) + Len(e) /\ Len(x) \in Nat /\ Len(e) \in Nat
      /\ \A i \in Nat : 1 <= i /\ i <= Len(x) => d[i] = x[i]
    BY WithMore
<1>2. Len(x) >= 1
    BY <1>1, EmptySeq
<1>3. ParseValue(d) = ParseValue(x)
  <2>1. ParseValue(x).used # -1
      BY <1>1
  <2>2. QED
      BY <2>1, ParseWithMore
<1>4. d[1] = x[1]
    BY <1>1, <1>2
<1>5. ASSUME Len(d) >= 18, SubSeq(d, 1, 3) = <<2, 4, 18>>
      PROVE  FALSE
  <2>1. CASE Len(x) >= 3
    <3>1. SubSeq(d, 1, 3) = SubSeq(x, 1, 3)
        BY <1>1, <2>1, CutWithMore
    <3>2. QED
        BY <1>5, <2>1, <3>1
  <2>2. CASE Len(x) < 3
    <3>1. d[1] = 2 /\ d[2] = 4
      <4>1. 3 \in 0 .. Len(d)
          BY <1>1, <1>5
      <4>2. \A i \in 1 .. 3 : SubSeq(d, 1, 3)[i] = d[i]
          BY <1>1, <4>1, InFront
      <4>3. SubSeq(d, 1, 3)[1] = d[1] /\ SubSeq(d, 1, 3)[2] = d[2]
        <5>1. 1 \in 1 .. 3 /\ 2 \in 1 .. 3
            OBVIOUS
        <5>2. QED
            BY <4>2, <5>1, Zenon
      <4>4. <<2, 4, 18>>[1] = 2 /\ <<2, 4, 18>>[2] = 4
          OBVIOUS
      <4>5. QED
          BY <1>5, <4>3, <4>4, Zenon
    <3>2. x[1] = 2 /\ (Len(x) >= 2 => x[2] = 4)
        BY <1>1, <1>4, <3>1
    <3>3. ParseValue(x).used = -1
        BY <2>2, <3>2, ShortIsNoValue
    <3>4. QED
        BY <1>1, <3>3
  <2>3. QED
      BY <1>1, <2>1, <2>2
<1>6. QED
    BY <1>3, <1>4, <1>5

\* The beginning of an item whose end is missing.
LEMMA StumpSeen ==
    ASSUME NEW d \in Seq(Byte), NEW e \in Seq(Byte), e # <<>>, NEW x, x = d \o e,
           ParseValue(x).used = Len(x)
    PROVE  /\ ParseValue(d).used = -1 /\ Len(d) < Len(x)
           /\ Len(d) >= 18 => SubSeq(d, 1, 3) = SubSeq(x, 1, 3)
<1>1. Len(x) = Len(d) + Len(e) /\ Len(d) \in Nat /\ Len(e) \in Nat
    BY WithMore
<1>2. Len(d) < Len(x)
    BY <1>1, EmptySeq
<1>3. ParseValue(d).used = -1
  <2>1. SUFFICES ASSUME ParseValue(d).used # -1
                 PROVE  FALSE
      OBVIOUS
  <2>2. ParseValue(x) = ParseValue(d)
      BY <2>1, ParseWithMore
  <2>3. ParseValue(d).used \in 1 .. Len(d)
      BY <2>1, ParseFits
  <2>4. QED
      BY <1>1, <1>2, <2>2, <2>3
<1>4. Len(d) >= 18 => SubSeq(d, 1, 3) = SubSeq(x, 1, 3)
    BY <1>1, CutWithMore
<1>5. QED
    BY <1>2, <1>3, <1>4

-----------------------------------------------------------------------------
(* The walk                                                                *)

\* What has arrived, of a block that is whole or lacks its end.
Arrived ==
    /\ message \in Messages
    /\ got \in {"all", "head"} =>
          /\ Len(info) \in 5 + Len(message.opening) .. Len(Octets(message))
          /\ info = SubSeq(Octets(message), 1, Len(info))
    /\ got = "all" => Len(info) = Len(Octets(message))

\* The walk is always between two parts of what was sent.
Followed ==
    got \in {"all", "head"} /\ ~ Mistakable(message) =>
        /\ phase = "head" => items = <<>>
        /\ phase # "head" =>
              \E k \in 0 .. Len(message.parts) :
                  items = SubSeq(Meant(message), 1, k) /\ pos = PlaceOf(message, k)
        /\ got = "all" => phase # "stopped"
        /\ phase = "done" => pos = Len(info)

WalkInv == TypeOK /\ Arrived /\ Followed

\* A block has at least one part, and a part at least one octet.
LEMMA OctetsBehindOpening ==
    ASSUME NEW W, Encoding(W), NEW m \in Messages, WellFormed(m, W)
    PROVE  5 + Len(m.opening) <= Len(Octets(m))
<1>1. PICK n \in Nat : n = Len(m.parts) /\ 0 < n
  <2>1. m.parts \in Seq(Part) /\ m.parts # <<>> /\ Len(m.parts) \in Nat
      BY MessageTyped DEF WellFormed
  <2>2. Len(m.parts) # 0
      BY <2>1, EmptySeq
  <2>3. QED
      BY <2>1, <2>2
<1>2. PICK k \in Nat : k = 0 /\ k < Len(m.parts)
    BY <1>1
<1>3. PICK x \in Seq(Byte), c \in Seq(Byte), p \in Nat :
              /\ x = m.parts[k + 1].octets /\ p = PlaceOf(m, k)
              /\ p + Len(x) + Len(c) = Len(Octets(m))
    BY <1>2, PlaceAt
<1>4. x # <<>>
    BY <1>2, <1>3, PartIsRead
<1>5. Len(x) \in Nat /\ Len(x) # 0 /\ Len(c) \in Nat
    BY <1>4, EmptySeq, LenProperties
<1>6. p = 4 + Len(m.opening) /\ Len(m.opening) \in Nat
    BY <1>2, <1>3, PlaceEnds, MessageTyped
<1>7. PICK a \in Nat, b \in Nat, d \in Nat :
              a = Len(x) /\ b = Len(c) /\ d = Len(m.opening) /\ 1 <= a
    BY <1>5, <1>6
<1>8. Len(Octets(m)) = 4 + d + a + b
    BY <1>3, <1>6, <1>7
<1>9. QED
    BY <1>7, <1>8

\* As a block arrives nothing of it has been followed.
LEMMA WalkInit ==
    ASSUME NEW W, Encoding(W), \A m \in Messages : WellFormed(m, W)
    PROVE  Init => WalkInv
<1>1. SUFFICES ASSUME Init
               PROVE  WalkInv
    OBVIOUS
<1>2. message \in Messages /\ phase = "head" /\ items = <<>>
    BY <1>1 DEF Init
<1>3. PICK o \in Seq(Byte), l \in Nat : o = Octets(message) /\ l = Len(o)
    BY <1>2, OctetsTyped, LenProperties
<1>4. PICK j \in Nat : j = Len(message.opening) /\ 5 + j <= l
    BY <1>2, <1>3, OctetsBehindOpening, MessageTyped
<1>5. CASE got = "all"
  <2>1. info = o
      BY <1>1, <1>3, <1>5 DEF Init
  <2>2. SubSeq(o, 1, l) = o
      BY <1>3, SubSeqFull
  <2>3. Arrived
      BY <1>2, <1>3, <1>4, <1>5, <2>1, <2>2 DEF Arrived
  <2>4. QED
      BY <1>1, <1>2, <2>3, BlockInitTyped DEF WalkInv, Followed
<1>6. CASE got = "head"
  <2>1. PICK n \in 5 + j .. l - 1 : info = SubSeq(o, 1, n)
      BY <1>1, <1>3, <1>4, <1>6 DEF Init
  <2>2. n \in 0 .. Len(o)
      BY <1>3, <1>4
  <2>3. Len(info) = n
      BY <2>1, <2>2, InFront
  <2>4. Arrived
      BY <1>2, <1>3, <1>4, <1>6, <2>1, <2>3 DEF Arrived
  <2>5. QED
      BY <1>1, <1>2, <2>4, BlockInitTyped DEF WalkInv, Followed
<1>7. CASE got = "tail"
    BY <1>1, <1>2, <1>7, BlockInitTyped DEF WalkInv, Arrived, Followed
<1>8. QED
    BY <1>1, <1>5, <1>6, <1>7 DEF Init

\* What has arrived stays what it is.
LEMMA ArrivedStays ==
    ASSUME Arrived, UNCHANGED <<info, message, got>>
    PROVE  Arrived'
BY DEF Arrived

\* What is left of an octet sequence, and what of it is in what has arrived.
LEMMA ArrivedFits ==
    ASSUME TypeOK, Arrived, got \in {"all", "head"}
    PROVE  \E o \in Seq(Byte), r \in Seq(Byte) :
              /\ o = Octets(message) /\ o = info \o r /\ Len(o) = Len(info) + Len(r)
              /\ Len(info) \in Nat /\ Len(r) \in Nat /\ Len(message.opening) \in Nat
              /\ 5 + Len(message.opening) <= Len(info)
              /\ got = "all" => Len(r) = 0
<1>1. PICK o \in Seq(Byte) : o = Octets(message)
    BY OctetsTyped DEF Arrived
<1>2. PICK n \in Nat, l \in Nat : n = Len(info) /\ l = Len(o)
    BY LenProperties DEF TypeOK
<1>3. PICK j \in Nat : j = Len(message.opening)
    BY MessageTyped DEF Arrived
<1>4. n \in 5 + j .. l /\ info = SubSeq(o, 1, n) /\ (got = "all" => n = l)
    BY <1>1, <1>2, <1>3 DEF Arrived
<1>5. n \in 0 .. Len(o)
    BY <1>2, <1>4
<1>6. PICK r \in Seq(Byte) : r = SubSeq(o, n + 1, Len(o)) /\ Len(r) = Len(o) - n
    BY <1>5, Behind
<1>7. o = SubSeq(o, 1, n) \o SubSeq(o, n + 1, Len(o))
    BY <1>5, FrontAndBehind
<1>8. o = info \o r
    BY <1>4, <1>6, <1>7
<1>9. /\ Len(o) = Len(info) + Len(r) /\ Len(info) \in Nat /\ Len(r) \in Nat
      /\ 5 + Len(message.opening) <= Len(info)
      /\ got = "all" => Len(r) = 0
  <2>1. PICK k \in Nat : k = Len(r)
      BY LenProperties
  <2>2. k = l - n
      BY <1>2, <1>6, <2>1
  <2>3. 5 + j <= n /\ l = n + k
      BY <1>2, <1>3, <1>4, <2>2
  <2>4. got = "all" => k = 0
      BY <1>2, <1>4, <2>2
  <2>5. QED
      BY <1>2, <1>3, <2>1, <2>3, <2>4
<1>10. Len(message.opening) \in Nat
    BY <1>3
<1>11. QED
    BY <1>1, <1>8, <1>9, <1>10

\* Between two parts, as long as octets are left: the next part is there, or,
\* where the block lacks its end, a beginning of it.
LEMMA Ahead ==
    ASSUME TypeOK, Arrived, got \in {"all", "head"}, Here # <<>>,
           NEW k \in 0 .. Len(message.parts), pos = PlaceOf(message, k)
    PROVE  /\ k < Len(message.parts)
           /\ \E x \in Seq(Byte), e \in Seq(Byte) :
                 /\ x = message.parts[k + 1].octets
                 /\ \/ Here = x \o e /\ pos + Len(x) = PlaceOf(message, k + 1)
                    \/ got = "head" /\ e # <<>> /\ x = Here \o e
<1>1. PICK o \in Seq(Byte), r \in Seq(Byte) :
              /\ o = Octets(message) /\ o = info \o r /\ Len(o) = Len(info) + Len(r)
              /\ Len(info) \in Nat /\ Len(r) \in Nat
              /\ got = "all" => Len(r) = 0
    BY ArrivedFits
<1>2. message \in Messages
    BY DEF Arrived
<1>3. PICK n \in Nat : n = Len(message.parts)
    BY <1>2, MessageTyped
<1>4. PICK h \in Seq(Byte) : h = Here /\ Len(h) = Len(info) - pos /\ Len(h) \in Nat
    BY HereFits, LenProperties
<1>5. Len(h) # 0 /\ pos \in Nat
    BY <1>4, EmptySeq, HereFits
<1>6. k < n
  <2>1. SUFFICES ASSUME k = n
                 PROVE  FALSE
      BY <1>3
  <2>2. pos = Len(o)
      BY <1>1, <1>2, <1>3, <2>1, PlaceEnds
  <2>3. QED
      BY <1>1, <1>4, <1>5, <2>2
<1>7. PICK x \in Seq(Byte), c \in Seq(Byte) :
              /\ x = message.parts[k + 1].octets /\ pos + Len(x) = PlaceOf(message, k + 1)
              /\ Rest(o, pos) = x \o c /\ pos + Len(x) + Len(c) = Len(o)
  <2>1. k \in Nat /\ k < Len(message.parts)
      BY <1>3, <1>6
  <2>2. PICK x \in Seq(Byte), c \in Seq(Byte), p \in Nat :
              /\ x = message.parts[k + 1].octets /\ p = PlaceOf(message, k)
              /\ p + Len(x) = PlaceOf(message, k + 1)
              /\ Rest(Octets(message), p) = x \o c
              /\ p + Len(x) + Len(c) = Len(Octets(message))
      BY <1>2, <2>1, PlaceAt
  <2>3. p = pos
      BY <2>2
  <2>4. QED
      BY <1>1, <2>2, <2>3, Zenon
<1>8. Rest(o, pos) = h \o r
  <2>1. info \in Seq(Byte) /\ pos <= Len(info)
      BY <1>1, <1>4, <1>5 DEF TypeOK
  <2>2. Rest(info \o r, pos) = Rest(info, pos) \o r
      BY <1>5, <2>1, RestWithMore
  <2>3. QED
      BY <1>1, <1>4, <2>2 DEF Here
<1>9. x \o c = h \o r
    BY <1>7, <1>8
<1>10. Len(x) \in Nat /\ Len(c) \in Nat
    BY LenProperties
<1>11. CASE Len(x) <= Len(h)
  <2>1. PICK e \in Seq(Byte) : h = x \o e
    <3>1. h = x \o Rest(h, Len(x))
        BY <1>9, <1>11, TwoCuts
    <3>2. Rest(h, Len(x)) \in Seq(Byte)
        BY <1>10, RestFits
    <3>3. QED
        BY <3>1, <3>2
  <2>2. k < Len(message.parts) /\ Here = x \o e
      BY <1>3, <1>4, <1>6, <2>1
  <2>3. QED
      BY <1>7, <2>2, Zenon
<1>12. CASE Len(h) < Len(x)
  <2>1. Len(h) <= Len(x)
      BY <1>4, <1>10, <1>12
  <2>2. PICK e \in Seq(Byte) : x = h \o e
    <3>1. x = h \o Rest(x, Len(h))
        BY <1>9, <2>1, TwoCuts
    <3>2. Rest(x, Len(h)) \in Seq(Byte)
        BY <1>4, RestFits
    <3>3. QED
        BY <3>1, <3>2
  <2>3. e # <<>>
    <3>1. Len(x) = Len(h) + Len(e)
        BY <2>2, WithMore
    <3>2. QED
        BY <1>4, <1>12, <3>1, EmptySeq
  <2>4. got # "all"
    <3>1. SUFFICES ASSUME got = "all"
                   PROVE  FALSE
        OBVIOUS
    <3>2. Len(info) = pos + Len(x) + Len(c)
        BY <1>1, <1>7, <3>1
    <3>3. QED
        BY <1>4, <1>5, <1>10, <1>12, <3>2
  <2>5. k < Len(message.parts) /\ got = "head" /\ x = Here \o e
      BY <1>3, <1>4, <1>6, <2>2, <2>4
  <2>6. QED
      BY <1>7, <2>3, <2>5, Zenon
<1>13. Len(x) <= Len(h) \/ Len(h) < Len(x)
    BY <1>4, <1>10
<1>14. QED
    BY <1>11, <1>12, <1>13, Zenon

\* A part more has been recognised.
LEMMA PartMore ==
    ASSUME NEW m \in Messages, NEW k \in Nat, k < Len(m.parts)
    PROVE  SubSeq(Meant(m), 1, k + 1) = Append(SubSeq(Meant(m), 1, k), Meant(m)[k + 1])
<1>1. PICK s \in Seq(Item) : s = Meant(m) /\ Len(s) = Len(m.parts) /\ Len(s) \in Nat
    BY MeantTyped, MessageTyped
<1>2. k \in 0 .. Len(s) /\ k + 1 \in 0 .. Len(s)
    BY <1>1
<1>3. PICK a \in Seq(Item), b \in Seq(Item) :
              /\ a = SubSeq(s, 1, k) /\ b = SubSeq(s, 1, k + 1)
              /\ Len(a) = k /\ Len(b) = k + 1
              /\ \A i \in 1 .. k : a[i] = s[i]
              /\ \A i \in 1 .. k + 1 : b[i] = s[i]
  <2>1. /\ SubSeq(s, 1, k) \in Seq(Item) /\ Len(SubSeq(s, 1, k)) = k
        /\ \A i \in 1 .. k : SubSeq(s, 1, k)[i] = s[i]
      BY <1>2, InFront
  <2>2. PICK j \in 0 .. Len(s) : j = k + 1
      BY <1>2
  <2>3. /\ SubSeq(s, 1, j) \in Seq(Item) /\ Len(SubSeq(s, 1, j)) = j
        /\ \A i \in 1 .. j : SubSeq(s, 1, j)[i] = s[i]
      BY <1>2, InFront
  <2>4. QED
      BY <2>1, <2>2, <2>3
<1>4. s[k + 1] \in Item
  <2>1. k + 1 \in 1 .. Len(s)
      BY <1>1
  <2>2. QED
      BY <2>1, ElementOfSeq
<1>5. /\ Append(a, s[k + 1]) \in Seq(Item) /\ Len(Append(a, s[k + 1])) = k + 1
      /\ \A i \in 1 .. k : Append(a, s[k + 1])[i] = a[i]
      /\ Append(a, s[k + 1])[k + 1] = s[k + 1]
    BY <1>3, <1>4, AppendProperties
<1>6. \A i \in 1 .. k + 1 : b[i] = Append(a, s[k + 1])[i]
  <2>1. TAKE i \in 1 .. k + 1
  <2>2. CASE i = k + 1
    <3>1. b[k + 1] = s[k + 1]
      <4>1. k + 1 \in 1 .. k + 1
          OBVIOUS
      <4>2. QED
          BY <1>3, <4>1
    <3>2. QED
        BY <1>5, <2>2, <3>1
  <2>3. CASE i \in 1 .. k
    <3>1. b[i] = s[i] /\ a[i] = s[i]
        BY <1>3, <2>3
    <3>2. Append(a, s[k + 1])[i] = a[i]
        BY <1>5, <2>3
    <3>3. QED
        BY <3>1, <3>2
  <2>4. i = k + 1 \/ i \in 1 .. k
      OBVIOUS
  <2>5. QED
      BY <2>2, <2>3, <2>4, Zenon
<1>7. b = Append(a, s[k + 1])
    BY <1>3, <1>5, <1>6, SeqEqual
<1>8. QED
    BY <1>1, <1>3, <1>7

\* One octet of the rest.
LEMMA RestOctet ==
    ASSUME NEW s \in Seq(Byte), NEW n \in Nat, NEW i \in Nat, 1 <= i, n + i <= Len(s)
    PROVE  Rest(s, n)[i] = s[n + i]
<1>1. PICK l \in Nat : l = Len(s) /\ n <= l
    BY LenProperties
<1>2. \A j \in 1 .. l - n : Rest(s, n)[j] = s[n + j]
    BY <1>1, RestFits
<1>3. i \in 1 .. l - n
    BY <1>1
<1>4. QED
    BY <1>2, <1>3, Zenon

\* The headers, in terms of what was sent.
LEMMA HeadersAt ==
    ASSUME NEW s \in Seq(Byte), NEW n \in Nat, n < Len(s),
           NEW o, \A i \in Nat : 1 <= i /\ i <= Len(s) => o[i] = s[i]
    PROVE  /\ NotificationAt(Rest(s, n)) = IF Len(s) > n + 18 /\ o[n + 1] = 15 THEN 18 ELSE 0
           /\ OpeningAt(Rest(s, n)) = IF Len(s) > n + 4 /\ o[n + 1] = 2 /\ o[n + 3] = 1
                                      THEN 4 ELSE 0
<1>1. PICK l \in Nat : l = Len(s) /\ n < l
    BY LenProperties
<1>2. PICK q \in Seq(Byte) : q = Rest(s, n) /\ Len(q) = l - n
  <2>1. n <= Len(s)
      BY <1>1
  <2>2. Rest(s, n) \in Seq(Byte) /\ Len(Rest(s, n)) = Len(s) - n
      BY <2>1, RestFits
  <2>3. QED
      BY <1>1, <2>2
<1>3. ASSUME NEW i \in Nat, 1 <= i, n + i <= l
      PROVE  q[i] = o[n + i]
  <2>1. q[i] = s[n + i]
      BY <1>1, <1>2, <1>3, RestOctet
  <2>2. n + i \in Nat /\ 1 <= n + i /\ n + i <= Len(s)
      BY <1>1, <1>3
  <2>3. QED
      BY <2>1, <2>2, Zenon
<1>5. q[1] = o[n + 1]
    BY <1>1, <1>3
<1>6. l > n + 4 => q[3] = o[n + 3]
    BY <1>1, <1>3
<1>7. PICK k \in Nat : k = Len(q) /\ k = l - n
    BY <1>2, LenProperties
<1>8. NotificationAt(q) = IF l > n + 18 /\ o[n + 1] = 15 THEN 18 ELSE 0
    BY <1>5, <1>7 DEF NotificationAt
<1>9. OpeningAt(q) = IF l > n + 4 /\ o[n + 1] = 2 /\ o[n + 3] = 1 THEN 4 ELSE 0
  <2>1. k > 4 <=> l > n + 4
      BY <1>1, <1>7
  <2>2. QED
      BY <2>1, <1>5, <1>6, <1>7 DEF OpeningAt
<1>10. QED
    BY <1>1, <1>2, <1>8, <1>9

\* What a block may be mistaken for, in terms of what was sent.
LEMMA MistakableAt ==
    ASSUME NEW m \in Messages, ~ Mistakable(m), NEW o \in Seq(Byte), o = Octets(m),
           NEW l \in Nat, l = Len(o), NEW n \in Nat, n = 4 + Len(m.opening), n < l
    PROVE  /\ n = 4 => ~ (l > n + 18 /\ o[n + 1] = 15)
           /\ n = 4 \/ n = 22 => ~ (l > n + 4 /\ o[n + 1] = 2 /\ o[n + 3] = 1)
<1>1. PICK j \in Nat : j = Len(m.opening) /\ n = 4 + j
    BY MessageTyped
<1>2. PICK b \in Seq(Byte) : b = Rest(o, n) /\ Len(b) = l - n
  <2>1. n <= Len(o)
      OBVIOUS
  <2>2. Rest(o, n) \in Seq(Byte) /\ Len(Rest(o, n)) = Len(o) - n
      BY <2>1, RestFits
  <2>3. QED
      BY <2>2
<1>3. b[1] = o[n + 1] /\ (l > n + 4 => b[3] = o[n + 3])
  <2>1. ASSUME NEW i \in Nat, 1 <= i, n + i <= l
        PROVE  b[i] = o[n + i]
      BY <1>2, <2>1, RestOctet
  <2>2. QED
      BY <2>1
<1>4. /\ ~ (j = 0 /\ Len(b) > 18 /\ b[1] = 15)
      /\ ~ (j \in {0, 18} /\ Len(b) > 4 /\ b[1] = 2 /\ b[3] = 1)
    BY <1>1, <1>2 DEF Mistakable
<1>5. PICK k \in Nat : k = Len(b) /\ k = l - n
    BY <1>2, LenProperties
<1>6. ASSUME n = 4, l > n + 18, o[n + 1] = 15
      PROVE  FALSE
  <2>1. j = 0 /\ k > 18
    <3>1. n = 4 + j
        BY <1>1
    <3>2. j = 0
        BY <1>6, <3>1
    <3>3. k = l - n
        BY <1>5
    <3>4. l > n + 18
        BY <1>6
    <3>5. k > 18
      <4>1. \A u \in Nat, v \in Nat, w \in Nat : u = v - w /\ v > w + 18 => u > 18
          OBVIOUS
      <4>2. QED
          BY <3>3, <3>4, <4>1, Zenon
    <3>6. QED
        BY <3>2, <3>5
  <2>2. b[1] = 15
      BY <1>3, <1>6
  <2>3. QED
      BY <1>4, <1>5, <2>1, <2>2
<1>7. ASSUME n = 4 \/ n = 22, l > n + 4, o[n + 1] = 2, o[n + 3] = 1
      PROVE  FALSE
  <2>1. j \in {0, 18} /\ k > 4
    <3>1. n = 4 + j
        BY <1>1
    <3>2. j = 0 \/ j = 18
        BY <1>7, <3>1
    <3>3. k = l - n
        BY <1>5
    <3>4. l > n + 4
        BY <1>7
    <3>5. k > 4
      <4>1. \A u \in Nat, v \in Nat, w \in Nat : u = v - w /\ v > w + 4 => u > 4
          OBVIOUS
      <4>2. QED
          BY <3>3, <3>4, <4>1, Zenon
    <3>6. QED
        BY <3>2, <3>5
  <2>2. b[1] = 2 /\ b[3] = 1
      BY <1>3, <1>7
  <2>3. QED
      BY <1>4, <1>5, <2>1, <2>2
<1>8. QED
    BY <1>6, <1>7, Zenon

\* What it opens with is behind the header.
LEMMA OpeningAhead ==
    ASSUME NEW m \in Messages, NEW o \in Seq(Byte), o = Octets(m),
           NEW i \in Nat, 1 <= i, i <= Len(m.opening)
    PROVE  o[4 + i] = m.opening[i]
<1>1. PICK h \in Seq(Byte), f \in Seq(Byte) :
              /\ h = BlockHeader \o m.opening /\ Len(h) = 4 + Len(m.opening)
              /\ o = h \o f
    BY OctetsAre
<1>2. PICK b \in Seq(Byte), p \in Seq(Byte), j \in Nat :
              b = BlockHeader /\ p = m.opening /\ j = Len(p)
    BY OctetsTyped, MessageTyped
<1>3. PICK k \in Nat : k = Len(b) /\ k = 4
  <2>1. Len(BlockHeader) = 4
      BY DEF BlockHeader
  <2>2. QED
      BY <1>2, <2>1
<1>4. h[k + i] = p[i]
    BY <1>1, <1>2, <1>3, WithMore
<1>5. o[k + i] = h[k + i]
  <2>1. k + i <= Len(h) /\ 1 <= k + i /\ k + i \in Nat
      BY <1>1, <1>2, <1>3
  <2>2. \A g \in Nat : 1 <= g /\ g <= Len(h) => (h \o f)[g] = h[g]
      BY WithMore
  <2>3. QED
      BY <1>1, <2>1, <2>2, Zenon
<1>6. QED
    BY <1>2, <1>3, <1>4, <1>5

\* What the octets behind the header are, by what the block opens with.
LEMMA OpeningOctets ==
    ASSUME NEW m \in Messages, OpeningForm(m.opening), NEW o \in Seq(Byte), o = Octets(m)
    PROVE  \E j \in Nat :
              /\ j = Len(m.opening)
              /\ \/ j = 0
                 \/ j = 18 /\ o[5] = 15
                 \/ j = 4 /\ o[5] = 2 /\ o[7] = 1
                 \/ j = 22 /\ o[5] = 15 /\ o[23] = 2 /\ o[25] = 1
<1>1. PICK p \in Seq(Byte), j \in Nat : p = m.opening /\ j = Len(p)
    BY MessageTyped
<1>2. ASSUME NEW i \in Nat, 1 <= i, i <= j
      PROVE  o[4 + i] = p[i]
    BY <1>1, <1>2, OpeningAhead
<1>3. CASE p = <<>>
  <2>1. j = 0
      BY <1>1, <1>3, EmptySeq
  <2>2. QED
      BY <1>1, <2>1
<1>4. CASE NotificationForm(p)
  <2>1. j = 18 /\ p[1] = 15
      BY <1>1, <1>4 DEF NotificationForm
  <2>2. o[5] = p[1]
      BY <1>2, <2>1
  <2>3. QED
      BY <1>1, <2>1, <2>2
<1>5. CASE StructureForm(p)
  <2>1. j = 4 /\ p[1] = 2 /\ p[3] = 1
      BY <1>1, <1>5 DEF StructureForm
  <2>2. o[5] = p[1] /\ o[7] = p[3]
      BY <1>2, <2>1
  <2>3. QED
      BY <1>1, <2>1, <2>2
<1>6. CASE /\ Len(p) = 22 /\ NotificationForm(SubSeq(p, 1, 18))
           /\ StructureForm(Rest(p, 18))
  <2>1. j = 22
      BY <1>1, <1>6
  <2>2. SubSeq(p, 1, 18)[1] = 15
      BY <1>6 DEF NotificationForm
  <2>3. Rest(p, 18)[1] = 2 /\ Rest(p, 18)[3] = 1
      BY <1>6 DEF StructureForm
  <2>4. SubSeq(p, 1, 18)[1] = p[1]
    <3>1. 18 \in 0 .. Len(p) /\ 1 \in 1 .. 18
        BY <1>6
    <3>2. \A i \in 1 .. 18 : SubSeq(p, 1, 18)[i] = p[i]
        BY <3>1, InFront
    <3>3. QED
        BY <3>1, <3>2, Zenon
  <2>5. ASSUME NEW i \in Nat, 1 <= i, i <= 4
        PROVE  Rest(p, 18)[i] = p[18 + i]
    <3>1. 18 + i <= Len(p)
        BY <1>6, <2>5
    <3>2. QED
        BY <2>5, <3>1, RestOctet
  <2>6. Rest(p, 18)[1] = p[19] /\ Rest(p, 18)[3] = p[21]
      BY <2>5
  <2>7. o[5] = p[1] /\ o[23] = p[19] /\ o[25] = p[21]
      BY <1>2, <2>1
  <2>8. QED
      BY <1>1, <2>1, <2>2, <2>3, <2>4, <2>6, <2>7
<1>7. QED
    BY <1>1, <1>3, <1>4, <1>5, <1>6 DEF OpeningForm

\* The headers of a block that is not to be mistaken are skipped, and no more.
LEMMA HeadersSkipped ==
    ASSUME TypeOK, Arrived, got \in {"all", "head"}, ~ Mistakable(message),
           OpeningForm(message.opening), SkipHeaders
    PROVE  phase' = "walk" /\ pos' = 4 + Len(message.opening)
<1>1. PICK o \in Seq(Byte), r \in Seq(Byte) :
              /\ o = Octets(message) /\ o = info \o r /\ Len(o) = Len(info) + Len(r)
              /\ Len(info) \in Nat /\ Len(r) \in Nat
              /\ 5 + Len(message.opening) <= Len(info)
    BY ArrivedFits
<1>2. PICK s \in Seq(Byte), l \in Nat, g \in Nat :
              s = info /\ l = Len(s) /\ g = Len(o) /\ l <= g
    BY <1>1 DEF TypeOK
<1>3. message \in Messages
    BY DEF Arrived
<1>4. PICK j \in Nat :
              /\ j = Len(message.opening)
              /\ \/ j = 0
                 \/ j = 18 /\ o[5] = 15
                 \/ j = 4 /\ o[5] = 2 /\ o[7] = 1
                 \/ j = 22 /\ o[5] = 15 /\ o[23] = 2 /\ o[25] = 1
    BY <1>1, <1>3, OpeningOctets
<1>5. 5 + j <= l
    BY <1>1, <1>2, <1>4
<1>6. ASSUME NEW n \in Nat, n < l
      PROVE  /\ NotificationAt(Rest(s, n)) = IF l > n + 18 /\ o[n + 1] = 15 THEN 18 ELSE 0
             /\ OpeningAt(Rest(s, n)) = IF l > n + 4 /\ o[n + 1] = 2 /\ o[n + 3] = 1
                                        THEN 4 ELSE 0
  <2>1. \A i \in Nat : 1 <= i /\ i <= Len(s) => (s \o r)[i] = s[i]
      BY WithMore
  <2>2. o = s \o r /\ n < Len(s)
      BY <1>1, <1>2, <1>6
  <2>3. \A i \in Nat : 1 <= i /\ i <= Len(s) => o[i] = s[i]
      BY <2>1, <2>2
  <2>4. /\ NotificationAt(Rest(s, n)) = IF Len(s) > n + 18 /\ o[n + 1] = 15 THEN 18 ELSE 0
        /\ OpeningAt(Rest(s, n)) = IF Len(s) > n + 4 /\ o[n + 1] = 2 /\ o[n + 3] = 1
                                   THEN 4 ELSE 0
      BY <2>2, <2>3, HeadersAt
  <2>5. QED
      BY <1>2, <2>4
<1>7. /\ NotificationAt(Rest(s, 4)) = IF l > 22 /\ o[5] = 15 THEN 18 ELSE 0
      /\ OpeningAt(Rest(s, 4)) = IF l > 8 /\ o[5] = 2 /\ o[7] = 1 THEN 4 ELSE 0
  <2>1. 4 < l
      BY <1>5
  <2>2. /\ NotificationAt(Rest(s, 4)) = IF l > 4 + 18 /\ o[4 + 1] = 15 THEN 18 ELSE 0
        /\ OpeningAt(Rest(s, 4)) = IF l > 4 + 4 /\ o[4 + 1] = 2 /\ o[4 + 3] = 1
                                   THEN 4 ELSE 0
      BY <1>6, <2>1
  <2>3. QED
      BY <2>2
<1>8. 22 < l => OpeningAt(Rest(s, 22)) = IF l > 26 /\ o[23] = 2 /\ o[25] = 1 THEN 4 ELSE 0
  <2>1. SUFFICES ASSUME 22 < l
                 PROVE  OpeningAt(Rest(s, 22)) = IF l > 26 /\ o[23] = 2 /\ o[25] = 1 THEN 4 ELSE 0
      OBVIOUS
  <2>2. OpeningAt(Rest(s, 22)) = IF l > 22 + 4 /\ o[22 + 1] = 2 /\ o[22 + 3] = 1
                                 THEN 4 ELSE 0
      BY <1>6, <2>1
  <2>3. QED
      BY <2>2
<1>9. /\ j = 0 => ~ (g > 22 /\ o[5] = 15) /\ ~ (g > 8 /\ o[5] = 2 /\ o[7] = 1)
      /\ j = 18 => ~ (g > 26 /\ o[23] = 2 /\ o[25] = 1)
  <2>1. PICK n \in Nat : n = 4 + Len(message.opening) /\ n = 4 + j
      BY <1>4
  <2>2. n < g
      BY <1>2, <1>5, <2>1
  <2>3. /\ n = 4 => ~ (g > n + 18 /\ o[n + 1] = 15)
        /\ n = 4 \/ n = 22 => ~ (g > n + 4 /\ o[n + 1] = 2 /\ o[n + 3] = 1)
      BY <1>1, <1>2, <1>3, <2>1, <2>2, MistakableAt
  <2>4. QED
      BY <2>1, <2>3
<1>10. /\ phase' = "walk"
       /\ LET n == NotificationAt(Rest(s, 4))
          IN  pos' = 4 + n + OpeningAt(Rest(s, 4 + n))
    BY <1>2, <1>5 DEF SkipHeaders
<1>11. CASE j = 0
    BY <1>2, <1>4, <1>5, <1>7, <1>9, <1>10, <1>11
<1>12. CASE j = 4
    BY <1>2, <1>4, <1>5, <1>7, <1>10, <1>12
<1>13. CASE j = 18
    BY <1>2, <1>4, <1>5, <1>7, <1>8, <1>9, <1>10, <1>13
<1>14. CASE j = 22
    BY <1>2, <1>4, <1>5, <1>7, <1>8, <1>10, <1>14
<1>15. QED
    BY <1>4, <1>11, <1>12, <1>13, <1>14

\* Nothing is recognised in the headers.
LEMMA WalkSkips ==
    ASSUME NEW W, \A m \in Messages : WellFormed(m, W), WalkInv, SkipHeaders
    PROVE  Followed'
<1>1. UNCHANGED <<info, items, message, got>> /\ phase = "head"
    BY DEF SkipHeaders
<1>2. message \in Messages
    BY DEF WalkInv, Arrived
<1>3. SUFFICES ASSUME got \in {"all", "head"}, ~ Mistakable(message)
               PROVE  /\ phase' = "walk"
                      /\ \E k \in 0 .. Len(message.parts) :
                            items = SubSeq(Meant(message), 1, k)
                            /\ pos' = PlaceOf(message, k)
    BY <1>1 DEF Followed
<1>4. OpeningForm(message.opening)
    BY <1>2 DEF WellFormed
<1>5. phase' = "walk" /\ pos' = PlaceOf(message, 0)
    BY <1>2, <1>3, <1>4, HeadersSkipped, PlaceEnds DEF WalkInv
<1>6. items = SubSeq(Meant(message), 1, 0)
  <2>1. items = <<>>
      BY <1>1, <1>3 DEF WalkInv, Followed
  <2>2. PICK s \in Seq(Item) : s = Meant(message)
      BY <1>2, MeantTyped
  <2>3. 0 \in Int /\ 1 \in Int /\ 0 < 1
      OBVIOUS
  <2>4. SubSeq(s, 1, 0) = <<>>
      BY <2>3, SubSeqEmpty
  <2>5. QED
      BY <2>1, <2>2, <2>4
<1>7. 0 \in 0 .. Len(message.parts)
    BY <1>2, MessageTyped
<1>8. QED
    BY <1>5, <1>6, <1>7

\* Where the walk is, and what is ahead of it.
LEMMA WalkAhead ==
    ASSUME NEW W, Encoding(W), \A m \in Messages : WellFormed(m, W), WalkInv,
           phase = "walk", Here # <<>>, got \in {"all", "head"}, ~ Mistakable(message)
    PROVE  \E k \in Nat, x \in Seq(Byte), e \in Seq(Byte) :
              /\ k < Len(message.parts) /\ items = SubSeq(Meant(message), 1, k)
              /\ pos = PlaceOf(message, k) /\ x = message.parts[k + 1].octets
              /\ \/ Here = x \o e /\ pos + Len(x) = PlaceOf(message, k + 1)
                 \/ got = "head" /\ e # <<>> /\ x = Here \o e
<1>1. message \in Messages
    BY DEF WalkInv, Arrived
<1>2. PICK k \in 0 .. Len(message.parts) :
              items = SubSeq(Meant(message), 1, k) /\ pos = PlaceOf(message, k)
    BY DEF WalkInv, Followed
<1>3. /\ k < Len(message.parts)
      /\ \E x \in Seq(Byte), e \in Seq(Byte) :
            /\ x = message.parts[k + 1].octets
            /\ \/ Here = x \o e /\ pos + Len(x) = PlaceOf(message, k + 1)
               \/ got = "head" /\ e # <<>> /\ x = Here \o e
    BY <1>2, Ahead DEF WalkInv
<1>4. k \in Nat
    BY <1>1, MessageTyped
<1>5. QED
    BY <1>2, <1>3, <1>4, Zenon

\* One item more has been recognised, the one that was sent.
LEMMA WalkGoesOn ==
    ASSUME WalkInv, NEW k \in Nat, k < Len(message.parts),
           items = SubSeq(Meant(message), 1, k),
           items' = Append(items, Meant(message)[k + 1]),
           pos' = PlaceOf(message, k + 1), phase = "walk",
           UNCHANGED <<info, phase, message, got>>
    PROVE  Followed'
<1>1. message \in Messages
    BY DEF WalkInv, Arrived
<1>2. k + 1 \in 0 .. Len(message.parts)
    BY <1>1, MessageTyped
<1>3. items' = SubSeq(Meant(message), 1, k + 1)
    BY <1>1, PartMore
<1>4. QED
    BY <1>2, <1>3 DEF Followed

\* A definition that is recognised is one, and whole.
LEMMA WalkDefinition ==
    ASSUME NEW W, Encoding(W), \A m \in Messages : WellFormed(m, W),
           WalkInv, TakeDefinition
    PROVE  Followed'
<1>1. /\ UNCHANGED <<info, phase, message, got>> /\ phase = "walk" /\ Here # <<>>
      /\ IsDefinition /\ pos' = pos + 18
      /\ items' = IF SubSeq(Here, 6, 7) = <<9, 6>>
                  THEN Append(items, [kind |-> "def", type |-> 0,
                                      content |-> SubSeq(Here, 8, 13)])
                  ELSE items
    BY DEF TakeDefinition
<1>2. message \in Messages /\ TypeOK
    BY DEF WalkInv, Arrived
<1>3. CASE got \notin {"all", "head"} \/ Mistakable(message)
    BY <1>1, <1>3 DEF Followed
<1>4. CASE got \in {"all", "head"} /\ ~ Mistakable(message)
  <2>1. PICK k \in Nat, x \in Seq(Byte), e \in Seq(Byte) :
              /\ k < Len(message.parts) /\ items = SubSeq(Meant(message), 1, k)
              /\ pos = PlaceOf(message, k) /\ x = message.parts[k + 1].octets
              /\ \/ Here = x \o e /\ pos + Len(x) = PlaceOf(message, k + 1)
                 \/ got = "head" /\ e # <<>> /\ x = Here \o e
      BY <1>1, <1>4, WalkAhead
  <2>2. /\ x # <<>> /\ ParseValue(x).used = Len(x)
        /\ \/ /\ Len(x) >= 18 /\ Len(x) <= 18
              /\ SubSeq(x, 1, 3) = <<2, 4, 18>> /\ SubSeq(x, 6, 7) = <<9, 6>>
              /\ Meant(message)[k + 1] = [kind |-> "def", type |-> 0,
                                          content |-> SubSeq(x, 8, 13)]
           \/ /\ Len(x) >= 3 => SubSeq(x, 1, 3) # <<2, 4, 18>>
              /\ Meant(message)[k + 1] = [kind |-> "val", type |-> x[1],
                                          content |-> ParseValue(x).content]
      BY <1>2, <2>1, PartIsRead
  <2>3. PICK d \in Seq(Byte) : d = Here /\ Len(d) >= 18 /\ SubSeq(d, 1, 3) = <<2, 4, 18>>
      BY <1>1, <1>2, HereFits DEF IsDefinition
  <2>4. Len(x) \in Nat /\ Len(d) \in Nat
      BY LenProperties
  <2>5. CASE d = x \o e /\ pos + Len(x) = PlaceOf(message, k + 1)
    <3>1. SubSeq(x, 1, 3) = <<2, 4, 18>> /\ Len(x) >= 3
      <4>1. SUFFICES ASSUME Len(x) >= 3 => SubSeq(x, 1, 3) # <<2, 4, 18>>
                     PROVE  FALSE
          BY <2>2, <2>4
      <4>2. Len(d) >= 18 => SubSeq(d, 1, 3) # <<2, 4, 18>>
          BY <2>2, <2>5, <4>1, ValueSeen
      <4>3. QED
          BY <2>3, <4>2
    <3>2. /\ Len(x) >= 18 /\ Len(x) <= 18
          /\ SubSeq(x, 6, 7) = <<9, 6>>
          /\ Meant(message)[k + 1] = [kind |-> "def", type |-> 0,
                                      content |-> SubSeq(x, 8, 13)]
        BY <2>2, <3>1, Zenon
    <3>3. SubSeq(d, 6, 7) = <<9, 6>> /\ SubSeq(d, 8, 13) = SubSeq(x, 8, 13)
        BY <2>5, <3>1, <3>2, DefinitionSeen
    <3>4. items' = Append(items, Meant(message)[k + 1])
        BY <1>1, <2>3, <3>2, <3>3
    <3>5. pos' = PlaceOf(message, k + 1)
      <4>1. PICK l \in Nat : l = Len(x) /\ l >= 18 /\ l <= 18
          BY <2>4, <3>2
      <4>2. l = 18
        <5>1. \A i \in Nat : i >= 18 /\ i <= 18 => i = 18
            OBVIOUS
        <5>2. QED
            BY <4>1, <5>1, Zenon
      <4>3. pos + l = PlaceOf(message, k + 1)
          BY <2>5, <4>1, Zenon
      <4>4. QED
          BY <1>1, <4>2, <4>3, Zenon
    <3>6. QED
        BY <1>1, <2>1, <3>4, <3>5, WalkGoesOn
  <2>6. CASE e # <<>> /\ x = d \o e
    <3>1. Len(d) < Len(x) /\ (Len(d) >= 18 => SubSeq(d, 1, 3) = SubSeq(x, 1, 3))
        BY <2>2, <2>6, StumpSeen
    <3>2. SubSeq(x, 1, 3) = <<2, 4, 18>>
        BY <2>3, <3>1, Zenon
    <3>3. ~ (Len(x) <= 18) /\ Len(x) >= 3
      <4>1. PICK l \in Nat, n \in Nat : l = Len(x) /\ n = Len(d) /\ n < l /\ n >= 18
          BY <2>3, <2>4, <3>1
      <4>2. ~ (l <= 18) /\ l >= 3
          BY <4>1
      <4>3. QED
          BY <4>1, <4>2
    <3>4. QED
        BY <2>2, <3>2, <3>3, Zenon
  <2>7. QED
      BY <2>1, <2>3, <2>5, <2>6
<1>5. QED
    BY <1>3, <1>4

\* A value that is read is one, and whole; the walk stops at a beginning only.
LEMMA WalkValue ==
    ASSUME NEW W, Encoding(W), \A m \in Messages : WellFormed(m, W),
           WalkInv, TakeValue
    PROVE  Followed'
<1>1. /\ UNCHANGED <<info, message, got>> /\ phase = "walk" /\ Here # <<>>
      /\ ~ IsDefinition
      /\ \/ /\ ParseValue(Here).used > 0
            /\ items' = Append(items, [kind |-> "val", type |-> Here[1],
                                       content |-> ParseValue(Here).content])
            /\ pos' = pos + ParseValue(Here).used /\ UNCHANGED phase
         \/ /\ ParseValue(Here).used <= 0
            /\ phase' = "stopped" /\ UNCHANGED <<items, pos>>
    BY DEF TakeValue
<1>2. message \in Messages /\ TypeOK
    BY DEF WalkInv, Arrived
<1>3. CASE got \notin {"all", "head"} \/ Mistakable(message)
    BY <1>1, <1>3 DEF Followed
<1>4. CASE got \in {"all", "head"} /\ ~ Mistakable(message)
  <2>1. PICK k \in Nat, x \in Seq(Byte), e \in Seq(Byte) :
              /\ k < Len(message.parts) /\ items = SubSeq(Meant(message), 1, k)
              /\ pos = PlaceOf(message, k) /\ x = message.parts[k + 1].octets
              /\ \/ Here = x \o e /\ pos + Len(x) = PlaceOf(message, k + 1)
                 \/ got = "head" /\ e # <<>> /\ x = Here \o e
      BY <1>1, <1>4, WalkAhead
  <2>2. /\ x # <<>> /\ ParseValue(x).used = Len(x)
        /\ \/ /\ Len(x) >= 18 /\ Len(x) <= 18
              /\ SubSeq(x, 1, 3) = <<2, 4, 18>> /\ SubSeq(x, 6, 7) = <<9, 6>>
              /\ Meant(message)[k + 1] = [kind |-> "def", type |-> 0,
                                          content |-> SubSeq(x, 8, 13)]
           \/ /\ Len(x) >= 3 => SubSeq(x, 1, 3) # <<2, 4, 18>>
              /\ Meant(message)[k + 1] = [kind |-> "val", type |-> x[1],
                                          content |-> ParseValue(x).content]
      BY <1>2, <2>1, PartIsRead
  <2>3. PICK d \in Seq(Byte) :
              d = Here /\ ~ (Len(d) >= 18 /\ SubSeq(d, 1, 3) = <<2, 4, 18>>)
      BY <1>1, <1>2, HereFits DEF IsDefinition
  <2>4. Len(x) \in Nat /\ Len(d) \in Nat
      BY LenProperties
  <2>5. CASE d = x \o e /\ pos + Len(x) = PlaceOf(message, k + 1)
    <3>1. /\ Len(x) >= 3 => SubSeq(x, 1, 3) # <<2, 4, 18>>
          /\ Meant(message)[k + 1] = [kind |-> "val", type |-> x[1],
                                      content |-> ParseValue(x).content]
      <4>1. SUFFICES ASSUME /\ Len(x) >= 18 /\ Len(x) <= 18
                            /\ SubSeq(x, 1, 3) = <<2, 4, 18>>
                            /\ SubSeq(x, 6, 7) = <<9, 6>>
                     PROVE  FALSE
          BY <2>2, Zenon
      <4>2. Len(d) >= 18 /\ SubSeq(d, 1, 3) = <<2, 4, 18>>
          BY <2>5, <4>1, DefinitionSeen
      <4>3. QED
          BY <2>3, <4>2, Zenon
    <3>2. ParseValue(d) = ParseValue(x) /\ d[1] = x[1]
        BY <2>2, <2>5, <3>1, ValueSeen
    <3>3. Len(x) > 0 /\ ParseValue(d).used = Len(x)
        BY <2>2, <2>4, <3>2, EmptySeq
    <3>4. ~ (ParseValue(d).used <= 0)
        BY <2>4, <3>3
    <3>5. /\ items' = Append(items, [kind |-> "val", type |-> d[1],
                                     content |-> ParseValue(d).content])
          /\ pos' = pos + ParseValue(d).used /\ UNCHANGED phase
        BY <1>1, <2>3, <3>4, Zenon
    <3>6. items' = Append(items, Meant(message)[k + 1])
        BY <3>1, <3>2, <3>5, Zenon
    <3>7. pos' = PlaceOf(message, k + 1)
        BY <2>5, <3>3, <3>5, Zenon
    <3>8. QED
        BY <1>1, <2>1, <3>5, <3>6, <3>7, WalkGoesOn
  <2>6. CASE got = "head" /\ e # <<>> /\ x = d \o e
    <3>1. ParseValue(d).used = -1
        BY <2>2, <2>6, StumpSeen
    <3>2. ~ (ParseValue(d).used > 0)
        BY <3>1
    <3>3. phase' = "stopped" /\ UNCHANGED <<items, pos>>
        BY <1>1, <2>3, <3>2, Zenon
    <3>4. k \in 0 .. Len(message.parts)
        BY <1>2, <2>1, MessageTyped
    <3>5. QED
        BY <1>1, <2>1, <2>6, <3>3, <3>4 DEF Followed
  <2>7. QED
      BY <2>1, <2>3, <2>5, <2>6, Zenon
<1>5. QED
    BY <1>3, <1>4, Zenon

\* The walk ends at the end of what has arrived.
LEMMA WalkEnds == WalkInv /\ EndOfBlock => Followed'
<1>1. SUFFICES ASSUME WalkInv, EndOfBlock
               PROVE  Followed'
    OBVIOUS
<1>2. /\ phase = "walk" /\ Here = <<>> /\ phase' = "done"
      /\ UNCHANGED <<info, pos, items, message, got>>
    BY <1>1 DEF EndOfBlock
<1>3. pos = Len(info)
  <2>1. Len(Here) = Len(info) - pos /\ Len(info) \in Nat /\ pos \in Nat
      BY <1>1, HereFits DEF WalkInv
  <2>2. Len(Here) = 0
      BY <1>2, EmptySeq
  <2>3. QED
      BY <2>1, <2>2
<1>4. Followed
    BY <1>1 DEF WalkInv
<1>5. QED
    BY <1>2, <1>3, <1>4 DEF Followed

\* Every step of the walk keeps the invariant.
LEMMA WalkStep ==
    ASSUME NEW W, Encoding(W), \A m \in Messages : WellFormed(m, W)
    PROVE  WalkInv /\ [Next]_vars => WalkInv'
<1>1. SUFFICES ASSUME WalkInv, [Next]_vars
               PROVE  WalkInv'
    OBVIOUS
<1>2. UNCHANGED <<info, message, got>>
    BY <1>1 DEF Next, SkipHeaders, TakeDefinition, TakeValue, EndOfBlock, vars
<1>3. TypeOK' /\ Arrived'
    BY <1>1, <1>2, BlockStepTyped, ArrivedStays DEF WalkInv
<1>4. ASSUME SkipHeaders PROVE Followed'
    BY <1>1, <1>4, WalkSkips
<1>5. ASSUME TakeDefinition PROVE Followed'
    BY <1>1, <1>5, WalkDefinition
<1>6. ASSUME TakeValue PROVE Followed'
    BY <1>1, <1>6, WalkValue
<1>7. ASSUME EndOfBlock PROVE Followed'
    BY <1>1, <1>7, WalkEnds
<1>8. ASSUME UNCHANGED vars PROVE Followed'
    BY <1>1, <1>8 DEF WalkInv, Followed, vars
<1>9. Followed'
    BY <1>1, <1>4, <1>5, <1>6, <1>7, <1>8 DEF Next
<1>10. QED
    BY <1>3, <1>9 DEF WalkInv

\* If the walk has come to the end of what was sent, it has passed every part.
LEMMA PlaceIsEnd ==
    ASSUME NEW W, Encoding(W), NEW m \in Messages, WellFormed(m, W),
           NEW k \in 0 .. Len(m.parts), PlaceOf(m, k) = Len(Octets(m))
    PROVE  k = Len(m.parts)
<1>1. PICK n \in Nat : n = Len(m.parts)
    BY MessageTyped
<1>2. SUFFICES ASSUME k < n
               PROVE  FALSE
    BY <1>1
<1>3. k \in Nat /\ k < Len(m.parts)
    BY <1>1, <1>2
<1>4. PICK x \in Seq(Byte), c \in Seq(Byte), p \in Nat :
              /\ x = m.parts[k + 1].octets /\ p = PlaceOf(m, k)
              /\ p + Len(x) + Len(c) = Len(Octets(m))
    BY <1>3, PlaceAt
<1>5. x # <<>>
    BY <1>3, <1>4, PartIsRead
<1>6. Len(x) \in Nat /\ Len(x) # 0 /\ Len(c) \in Nat
    BY <1>5, EmptySeq, LenProperties
<1>7. p + Len(x) + Len(c) = p
    BY <1>4
<1>8. QED
    BY <1>6, <1>7

\* The invariant says what the two properties promise.
LEMMA WalkGivesAsSent ==
    ASSUME NEW W, Encoding(W), \A m \in Messages : WellFormed(m, W)
    PROVE  WalkInv => AsSent
<1>1. SUFFICES ASSUME WalkInv, got = "all", ~ Mistakable(message)
               PROVE  phase # "stopped" /\ (phase = "done" => items = Meant(message))
    BY DEF AsSent
<1>2. message \in Messages
    BY <1>1 DEF WalkInv, Arrived
<1>3. phase # "stopped"
    BY <1>1 DEF WalkInv, Followed
<1>4. SUFFICES ASSUME phase = "done"
               PROVE  items = Meant(message)
    BY <1>3
<1>5. PICK k \in 0 .. Len(message.parts) :
              items = SubSeq(Meant(message), 1, k) /\ pos = PlaceOf(message, k)
    BY <1>1, <1>4 DEF WalkInv, Followed
<1>6. pos = Len(Octets(message))
    BY <1>1, <1>4 DEF WalkInv, Followed, Arrived
<1>7. k = Len(message.parts)
    BY <1>2, <1>5, <1>6, PlaceIsEnd
<1>8. PICK s \in Seq(Item) : s = Meant(message) /\ Len(s) = Len(message.parts)
    BY <1>2, MeantTyped
<1>9. SubSeq(s, 1, k) = s
  <2>1. k \in Nat /\ k = Len(s)
      BY <1>2, <1>7, <1>8, MessageTyped
  <2>2. QED
      BY <2>1, SubSeqFull
<1>10. QED
    BY <1>5, <1>8, <1>9

\* What has been recognised is the first k of the items sent.
LEMMA WalkGivesNothingMadeUp ==
    WalkInv => NothingMadeUp
<1>1. SUFFICES ASSUME WalkInv, got = "head", ~ Mistakable(message)
               PROVE  IsPrefix(items, Meant(message))
    BY DEF NothingMadeUp
<1>2. message \in Messages
    BY <1>1 DEF WalkInv, Arrived
<1>3. PICK s \in Seq(Item), n \in Nat : s = Meant(message) /\ Len(s) = n /\ n = Len(message.parts)
    BY <1>2, MeantTyped, MessageTyped
<1>4. PICK k \in 0 .. n : items = SubSeq(s, 1, k)
  <2>1. CASE phase = "head"
    <3>1. items = <<>>
        BY <1>1, <2>1 DEF WalkInv, Followed
    <3>2. 0 \in Int /\ 1 \in Int /\ 0 < 1
        OBVIOUS
    <3>3. SubSeq(s, 1, 0) = <<>>
        BY <3>2, SubSeqEmpty
    <3>4. 0 \in 0 .. n
        OBVIOUS
    <3>5. QED
        BY <3>1, <3>3, <3>4
  <2>2. CASE phase # "head"
      BY <1>1, <1>3, <2>2 DEF WalkInv, Followed
  <2>3. QED
      BY <2>1, <2>2
<1>5. Len(SubSeq(s, 1, k)) = k /\ k <= Len(s)
    BY <1>3, InFront
<1>6. SubSeq(items, 1, Len(items)) = items
  <2>1. SubSeq(s, 1, k) \in Seq(Item)
      BY <1>3, InFront
  <2>2. PICK t \in Seq(Item), l \in Nat : t = items /\ l = Len(t)
      BY <1>4, <2>1, LenProperties
  <2>3. QED
      BY <2>2, SubSeqFull
<1>7. Len(items) = k
    BY <1>4, <1>5
<1>8. QED
    BY <1>3, <1>4, <1>5, <1>6, <1>7 DEF IsPrefix

\* Whatever a block that arrives whole holds, written in any of the ways A-XDR
\* has for it, it is taken apart into exactly that: every object, every value,
\* of every type, sign and form of length (e450_push_task, axdr_parse_value).
THEOREM BlocksAreReadAsSent ==
    ASSUME NEW W, Encoding(W), \A m \in Messages : WellFormed(m, W)
    PROVE  Spec => []AsSent
<1>1. Init => WalkInv
    BY WalkInit
<1>2. WalkInv /\ [Next]_vars => WalkInv'
    BY WalkStep
<1>3. WalkInv => AsSent
    BY WalkGivesAsSent
<1>4. QED
    BY <1>1, <1>2, <1>3, PTL DEF Spec

\* Wherever such a block is cut off, nothing is made up from the item that is
\* cut in two (axdr_parse_value refuses it): what has been recognised is a
\* beginning of what was sent.
THEOREM StumpsMakeNothingUp ==
    ASSUME NEW W, Encoding(W), \A m \in Messages : WellFormed(m, W)
    PROVE  Spec => []NothingMadeUp
<1>1. Init => WalkInv
    BY WalkInit
<1>2. WalkInv /\ [Next]_vars => WalkInv'
    BY WalkStep
<1>3. WalkInv => NothingMadeUp
    BY WalkGivesNothingMadeUp
<1>4. QED
    BY <1>1, <1>2, <1>3, PTL DEF Spec
=============================================================================
