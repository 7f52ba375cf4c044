---------------------------- MODULE ReadingsCache ----------------------------
(***************************************************************************)
(* The table of latest readings behind the dashboard and the MQTT template *)
(* (main/main.c: g_dashboard_readings).  A slot is in use when its reading *)
(* is valid or has an A-XDR type other than null-data (0).  Each call runs *)
(* under g_readings_mutex, hence is one step; before e450_push_task has    *)
(* created the mutex every call does nothing.                              *)
(***************************************************************************)
EXTENDS Naturals

CONSTANTS
    Codes,     \* OBIS codes
    Data,      \* what a reading can say
    Capacity,  \* DLMS_MAX_OBIS_ENTRIES
    None       \* the empty obis_str, and the content of a null-data reading

ASSUME CacheAssumption == Capacity \in Nat /\ None \notin Codes \cup Data

VARIABLES
    created,  \* g_readings_mutex # NULL
    slots     \* g_dashboard_readings

Slots   == 1 .. Capacity
Reading == [obis : Codes \cup {None}, valid : BOOLEAN, typed : BOOLEAN,
            data : Data \cup {None}]
Zeroed  == [obis |-> None, valid |-> FALSE, typed |-> FALSE, data |-> None]

CacheTypeOK == created \in BOOLEAN /\ slots \in [Slots -> Reading]

Occupied(r) == r.valid \/ r.typed

\* The slots in use that hold code o; a loop over the table takes the first.
Matching(s, o) == {j \in Slots : Occupied(s[j]) /\ s[j].obis = o}
Free(s)        == {j \in Slots : ~ Occupied(s[j])}
First(S)       == CHOOSE j \in S : \A k \in S : j <= k

\* cache_readings with one reading: over the slot of its code, else into the
\* first free slot, else nowhere.
PutInFreeSlot(s, r) ==
    IF Free(s) # {} THEN [s EXCEPT ![First(Free(s))] = r] ELSE s
Put(s, r) ==
    CASE Matching(s, r.obis) # {} -> [s EXCEPT ![First(Matching(s, r.obis))] = r]
      [] Matching(s, r.obis) = {} /\ Free(s) # {} -> [s EXCEPT ![First(Free(s))] = r]
      [] OTHER -> s

\* get_cached_reading.
Lookup(s, o) == IF Matching(s, o) = {} THEN Zeroed ELSE s[First(Matching(s, o))]

-----------------------------------------------------------------------------
CacheInit == created = FALSE /\ slots = [j \in Slots |-> Zeroed]

CreateMutex == created' = TRUE /\ UNCHANGED slots

CacheReading(r) ==
    /\ slots' = IF created THEN Put(slots, r) ELSE slots
    /\ UNCHANGED created

CacheNext == CreateMutex \/ \E r \in Reading : CacheReading(r)

CacheSpec == CacheInit /\ [][CacheNext]_<<created, slots>>

-----------------------------------------------------------------------------
\* No OBIS code is held twice: what get_cached_reading finds first is the only
\* reading of that code, so neither the dashboard nor MQTT can be left showing
\* a stale twin (the two scans of cache_readings are separate loops).
Unique ==
    \A i, j \in Slots :
        Occupied(slots[i]) /\ Occupied(slots[j]) /\ slots[i].obis = slots[j].obis
            => i = j
=============================================================================
