------------------------ MODULE ReadingsCache_proofs ------------------------
(***************************************************************************)
(* Proofs about the table of latest readings.                              *)
(***************************************************************************)
EXTENDS ReadingsCache, WellFoundedInduction, TLAPS

\* A loop over the table that finds something finds a slot of the table, and
\* the first that qualifies.
LEMMA FirstIsLeast ==
    ASSUME NEW S \in SUBSET Slots, S # {}
    PROVE  First(S) \in S /\ \A k \in S : First(S) <= k
<1> DEFINE R == OpToRel(<, Nat)
<1>1. S \subseteq Nat
    BY CacheAssumption DEF Slots
<1>2. PICK x \in S : \A y \in S : ~ (<<y, x>> \in R)
    <2> HIDE DEF R
    <2>1. IsWellFoundedOn(R, Nat)
        BY NatLessThanWellFounded DEF R
    <2>2. QED
        BY <1>1, <2>1, WFMin
<1>3. \A y \in S : ~ (y < x)
    BY <1>1, <1>2 DEF OpToRel
<1>4. \A y \in S : x <= y
    BY <1>1, <1>3
<1>5. QED
    BY <1>4 DEF First

\* cache_readings leaves all slots alone but one, which it fills with the new
\* reading and which held either that code before, or, if no slot did, nothing.
LEMMA PutFillsOneSlot ==
    ASSUME NEW s, NEW r
    PROVE  \/ Put(s, r) = s
           \/ \E j \in Slots :
                 /\ Put(s, r) = [s EXCEPT ![j] = r]
                 /\ \/ Occupied(s[j]) /\ s[j].obis = r.obis
                    \/ /\ ~ Occupied(s[j])
                       /\ \A k \in Slots : Occupied(s[k]) => s[k].obis # r.obis
<1>1. CASE Matching(s, r.obis) # {}
    <2> DEFINE j == First(Matching(s, r.obis))
    <2>1. j \in Matching(s, r.obis)
        BY <1>1, FirstIsLeast DEF Matching
    <2>2. Put(s, r) = [s EXCEPT ![j] = r]
        BY <1>1 DEF Put
    <2>3. j \in Slots /\ Occupied(s[j]) /\ s[j].obis = r.obis
        BY <2>1 DEF Matching
    <2> HIDE DEF j
    <2>4. QED
        BY <2>2, <2>3
<1>2. CASE Matching(s, r.obis) = {} /\ Free(s) # {}
    <2> DEFINE j == First(Free(s))
    <2>1. j \in Free(s)
        BY <1>2, FirstIsLeast DEF Free
    <2>2. Put(s, r) = [s EXCEPT ![j] = r]
        BY <1>2 DEF Put
    <2>3. j \in Slots /\ ~ Occupied(s[j])
        BY <2>1 DEF Free
    <2>4. \A k \in Slots : Occupied(s[k]) => s[k].obis # r.obis
        BY <1>2 DEF Matching
    <2> HIDE DEF j
    <2>5. QED
        BY <2>2, <2>3, <2>4
<1>3. CASE Matching(s, r.obis) = {} /\ Free(s) = {}
    BY <1>3 DEF Put
<1>4. QED
    BY <1>1, <1>2, <1>3

LEMMA PutTyped ==
    ASSUME NEW s \in [Slots -> Reading], NEW r \in Reading
    PROVE  Put(s, r) \in [Slots -> Reading]
<1>1. \A j \in Slots : [s EXCEPT ![j] = r] \in [Slots -> Reading]
    OBVIOUS
<1>2. QED
    BY <1>1, PutFillsOneSlot

LEMMA LookupTyped ==
    ASSUME slots \in [Slots -> Reading], NEW c
    PROVE  Lookup(slots, c) \in Reading \cup {Zeroed}
<1>1. Matching(slots, c) # {} => First(Matching(slots, c)) \in Slots
    BY FirstIsLeast DEF Matching
<1>2. QED
    BY <1>1 DEF Lookup

LEMMA CacheReadingTyped ==
    ASSUME CacheTypeOK, NEW r \in Reading, CacheReading(r)
    PROVE  CacheTypeOK'
BY PutTyped DEF CacheTypeOK, CacheReading

\* The table itself, whatever is stored in it.
Table == DOMAIN slots = Slots /\ slots = [j \in Slots |-> slots[j]]

CacheInv == Table /\ Unique

LEMMA CacheInitInv == CacheInit => CacheInv
BY DEF CacheInit, CacheInv, Table, Unique, Occupied, Zeroed

LEMMA CreateMutexInv == CacheInv /\ CreateMutex => CacheInv'
BY DEF CreateMutex, CacheInv, Table, Unique

\* Nothing is asked of the reading: the table looks only at its code.
LEMMA CacheReadingInv ==
    ASSUME CacheInv, NEW r, CacheReading(r)
    PROVE  CacheInv'
<1>1. CASE slots' = slots
    BY <1>1 DEF CacheInv, Table, Unique
<1>2. CASE slots' # slots
    <2>1. PICK j \in Slots :
             /\ slots' = [slots EXCEPT ![j] = r]
             /\ \/ Occupied(slots[j]) /\ slots[j].obis = r.obis
                \/ /\ ~ Occupied(slots[j])
                   /\ \A k \in Slots : Occupied(slots[k]) => slots[k].obis # r.obis
        <3>1. slots' = Put(slots, r)
            BY <1>2 DEF CacheReading
        <3>2. QED
            BY <1>2, <3>1, PutFillsOneSlot
    <2>2. Table'
        BY <2>1 DEF CacheInv, Table
    <2>3. slots'[j] = r /\ \A k \in Slots \ {j} : slots'[k] = slots[k]
        BY <2>1 DEF CacheInv, Table
    <2>4. \A k \in Slots \ {j} : Occupied(slots[k]) => slots[k].obis # r.obis
        BY <2>1 DEF CacheInv, Unique
    <2>5. Unique'
        <3> SUFFICES ASSUME NEW a \in Slots, NEW b \in Slots,
                            Occupied(slots'[a]), Occupied(slots'[b]),
                            slots'[a].obis = slots'[b].obis
                     PROVE  a = b
            BY DEF Unique, Occupied
        <3>1. CASE a = j \/ b = j
            BY <3>1, <2>3, <2>4
        <3>2. CASE a # j /\ b # j
            BY <3>2, <2>3 DEF CacheInv, Unique
        <3>3. QED
            BY <3>1, <3>2
    <2>6. QED
        BY <2>2, <2>5 DEF CacheInv
<1>3. QED
    BY <1>1, <1>2

-----------------------------------------------------------------------------
\* Whatever readings are cached, from whichever task and in whatever order,
\* the table never holds one OBIS code twice.
THEOREM CacheUnique == CacheSpec => []Unique
<1>1. CacheInv /\ [CacheNext]_<<created, slots>> => CacheInv'
    <2> SUFFICES ASSUME CacheInv, [CacheNext]_<<created, slots>>
                 PROVE  CacheInv'
        OBVIOUS
    <2>1. CASE CreateMutex
        BY <2>1, CreateMutexInv
    <2>2. ASSUME NEW r \in Reading, CacheReading(r)
          PROVE  CacheInv'
        BY <2>2, CacheReadingInv
    <2>3. CASE UNCHANGED <<created, slots>>
        BY <2>3 DEF CacheInv, Table, Unique
    <2>4. QED
        BY <2>1, <2>2, <2>3 DEF CacheNext
<1>2. CacheInv => Unique
    BY DEF CacheInv
<1>3. QED
    BY CacheInitInv, <1>1, <1>2, PTL DEF CacheSpec
=============================================================================
