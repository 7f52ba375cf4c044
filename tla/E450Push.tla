------------------------------ MODULE E450Push ------------------------------
(***************************************************************************)
(* The E450 push listener (main/main.c: e450_push_task).  The meter sends  *)
(* its readings unasked, a push at a time, each cut into HDLC blocks that  *)
(* hold first the definitions (OBIS codes) of the pushed objects and then  *)
(* their values; a value names no code, the task matches it by counting.   *)
(* A block is a sequence of items; framing and the skipped headers belong  *)
(* to other modules.  Every value is published and cached.                 *)
(***************************************************************************)
EXTENDS ReadingsCache, Sequences

CONSTANTS
    Layout,     \* the blocks of a push: [kind, code] items
    MaxList,    \* room in push_obis_list: 30 in the code
    MaxBlocks,  \* blocks that fit rx_buf
    Bursts,     \* may several blocks reach the task in one uart_read_bytes?
    PushMod,    \* pushes are told apart modulo this
    MaxFaults   \* bound on lost blocks and odd values in a run

ASSUME PushAssumption ==
    /\ MaxList \in Nat /\ MaxBlocks \in Nat \ {0} /\ Bursts \in BOOLEAN
    /\ PushMod \in Nat \ {0} /\ MaxFaults \in Nat
    /\ Layout \in Seq(Seq([kind : {"def", "val"}, code : Codes]))
    /\ Data = [from : Codes, push : 1 .. PushMod]

VARIABLES
    list,       \* push_obis_list[0 .. push_obis_count)
    idx,        \* push_value_idx
    buf,        \* blocks complete in rx_buf
    work,       \* items of the current frame still to be looked at
    line,       \* blocks on the wire or in the UART
    push,       \* number of the last push sent, 0 before the first
    online,     \* mqtt_publisher: s_is_connected
    published,  \* the last message on the state topic, by OBIS code
    whole,      \* history: the last push has lost nothing, all its values parse
    faults      \* faults still to come

task == <<created, slots, list, idx, buf, work, published>>
vars == <<task, line, push, online, whole, faults>>

Item == [kind : {"def", "val"}, code : Codes,
         type : {"number", "null", "unknown"}, push : 1 .. PushMod]

TypeOK ==
    /\ CacheTypeOK
    /\ list \in Seq(Codes) /\ Len(list) <= MaxList
    /\ idx \in Nat \ {0}
    /\ buf \in Seq(Seq(Item)) /\ Len(buf) < MaxBlocks
    /\ work \in Seq(Item)
    /\ line \in Seq(Seq(Item))
    /\ push \in 0 .. PushMod
    /\ online \in BOOLEAN /\ whole \in BOOLEAN
    /\ published \in [Codes -> Data \cup {None}]
    /\ faults \in 0 .. MaxFaults

Init ==
    /\ CacheInit
    /\ list = <<>> /\ idx = 1 /\ buf = <<>> /\ work = <<>>
    /\ line = <<>> /\ push = 0
    /\ online = FALSE /\ whole = TRUE /\ published = [c \in Codes |-> None]
    /\ faults = MaxFaults

-----------------------------------------------------------------------------
(* The task                                                                *)

StartTask ==
    /\ ~ created /\ CreateMutex
    /\ UNCHANGED <<list, idx, buf, work, published, line, push, online, whole, faults>>

\* uart_read_bytes returns something: n more complete blocks, or (n = 0) a
\* part of one.  Whatever it brought, one frame is taken from the buffer.
ReadUart(n) ==
    LET got == buf \o SubSeq(line, 1, n)
    IN  /\ created /\ work = <<>> /\ line # <<>> /\ got # <<>>
        /\ Len(got) <= MaxBlocks
        /\ work' = Head(got) /\ buf' = Tail(got)
        /\ line' = SubSeq(line, n + 1, Len(line))
        /\ UNCHANGED <<created, slots, list, idx, published, push, online, whole, faults>>

NextIs(kind) == work # <<>> /\ Head(work).kind = kind

\* A definition after values starts a new list.
StartOverNever == FALSE
StartOver == idx > 1

ListForDefinitionNoReset == list
ListForDefinition == IF StartOver THEN <<>> ELSE list

RoomForDefinitionAtLimit == Len(ListForDefinition) <= MaxList
RoomForDefinition == Len(ListForDefinition) < MaxList

TakeDefinition ==
    /\ NextIs("def")
    /\ list' = IF RoomForDefinition
               THEN Append(ListForDefinition, Head(work).code)
               ELSE ListForDefinition
    /\ idx' = IF StartOver THEN 1 ELSE idx
    /\ work' = Tail(work)
    /\ UNCHANGED <<created, slots, buf, published, line, push, online, whole, faults>>

\* The reading built for the value at hand; null-data leaves its type 0.
ReadingOf(v, code) ==
    [obis |-> code, valid |-> FALSE, typed |-> v.type # "null",
     data |-> IF v.type = "null" THEN None
              ELSE [from |-> v.code, push |-> v.push]]

\* mqtt_publish_readings: the template is filled in from the cache.
Rendered == [c \in Codes |-> Lookup(slots, c).data]

\* push_obis_list[push_value_idx]: the first definition has no value.
CodeAtIdxUnshifted == list[idx]
CodeAtIdx == list[idx + 1]

\* The value is published, then cached, under the code its position names.
FileValue ==
    /\ NextIs("val") /\ Head(work).type # "unknown"
    /\ idx < Len(list)
    /\ published' = IF online THEN Rendered ELSE published
    /\ CacheReading(ReadingOf(Head(work), CodeAtIdx))
    /\ idx' = idx + 1
    /\ work' = Tail(work)
    /\ UNCHANGED <<list, buf, line, push, online, whole, faults>>

\* More values than definitions: counted, not filed.
PassValue ==
    /\ NextIs("val") /\ Head(work).type # "unknown"
    /\ idx >= Len(list)
    /\ idx' = idx + 1
    /\ work' = Tail(work)
    /\ UNCHANGED <<created, slots, list, buf, published, line, push, online,
                   whole, faults>>

\* axdr_parse_value fails: the rest of the block is given up.
GiveUpBlock ==
    /\ NextIs("val") /\ Head(work).type = "unknown"
    /\ work' = <<>>
    /\ UNCHANGED <<created, slots, list, idx, buf, published, line, push,
                   online, whole, faults>>

-----------------------------------------------------------------------------
(* The meter, the line and the broker (external)                           *)

Places == UNION {{b} \X {i \in DOMAIN Layout[b] : Layout[b][i].kind = "val"} :
                 b \in DOMAIN Layout}

PushNumber == IF push = PushMod THEN 1 ELSE push + 1

\* The blocks of a push whose values at `odd' have a type of their own.
Blocks(odd, type) ==
    [b \in DOMAIN Layout |->
       [i \in DOMAIN Layout[b] |->
          [kind |-> Layout[b][i].kind, code |-> Layout[b][i].code,
           type |-> IF <<b, i>> \in odd THEN type ELSE "number",
           push |-> PushNumber]]]

\* Pushes are further apart than a push is long.
MeterPushes ==
    /\ line = <<>>
    /\ push' = PushNumber
    /\ \/ line' = Blocks({}, "number") /\ whole' = TRUE /\ UNCHANGED faults
       \/ /\ faults > 0 /\ faults' = faults - 1 /\ whole' = FALSE
          /\ \E p \in Places, type \in {"null", "unknown"} :
                line' = Blocks({p}, type)
    /\ UNCHANGED <<task, online>>

\* A block is damaged: its frame is dropped.
BlockLost ==
    /\ line # <<>> /\ faults > 0
    /\ line' = Tail(line) /\ faults' = faults - 1 /\ whole' = FALSE
    /\ UNCHANGED <<task, push, online>>

Broker ==
    /\ online' = ~ online
    /\ UNCHANGED <<task, line, push, whole, faults>>

-----------------------------------------------------------------------------
HandleItem == TakeDefinition \/ FileValue \/ PassValue \/ GiveUpBlock

Read == \E n \in 0 .. Len(line) : (Bursts \/ n <= 1) /\ ReadUart(n)

Next ==
    \/ StartTask \/ Read \/ HandleItem
    \/ MeterPushes \/ BlockLost \/ Broker

Spec == Init /\ [][Next]_vars

\* The task runs when it has something to do; what is on the wire arrives;
\* the meter goes on pushing.
FairSpec ==
    /\ Spec
    /\ WF_vars(StartTask) /\ WF_vars(HandleItem)
    /\ WF_vars(\E n \in 1 .. Len(line) : (Bursts \/ n = 1) /\ ReadUart(n))
    /\ WF_vars(MeterPushes)

-----------------------------------------------------------------------------
(* Correctness                                                             *)

\* What matching by counting relies on, for first[b] the number of items before
\* block b of a push: the n definitions come before the values, they fit the
\* list, and value i belongs to definition i + 1.
Numbered(first) ==
    /\ first \in [1 .. Len(Layout) + 1 -> Nat] /\ first[1] = 0
    /\ \A b \in DOMAIN Layout : first[b + 1] = first[b] + Len(Layout[b])

Matched(first, n) ==
    /\ n \in 1 .. MaxList /\ n < first[Len(Layout) + 1]
    /\ \A b \in DOMAIN Layout : \A i \in DOMAIN Layout[b] :
          Layout[b][i].kind = "def" <=> first[b] + i <= n
    /\ \A b, c \in DOMAIN Layout :
          \A i \in DOMAIN Layout[b], j \in DOMAIN Layout[c] :
             /\ first[b] + i > n /\ first[c] + j <= n
             /\ first[c] + j + n = first[b] + i + 1
             => Layout[c][j].code = Layout[b][i].code

\* Each value has a definition.
Covered(first, n) == first[Len(Layout) + 1] < n + n

Undisturbed == faults = MaxFaults

ValueCodes == {Layout[p[1]][p[2]].code : p \in Places}

\* The table has a slot for the code of each value.
RoomInCache == \E place \in [ValueCodes -> Slots] :
                  \A c, d \in ValueCodes : place[c] = place[d] => c = d

\* As long as nothing is lost, a cached reading carries the value of the very
\* object it is filed under, although values are matched by counting alone.
FiledRight ==
    Undisturbed =>
        \A j \in Slots : slots[j].typed => slots[j].data.from = slots[j].obis

Settled == push # 0 /\ created /\ line = <<>> /\ work = <<>>

Current == \A c \in ValueCodes :
              Lookup(slots, c).data = [from |-> c, push |-> push]

\* When a push has been dealt with, the cache shows all of it: no block waits
\* in rx_buf for bytes that only the next push will bring.
ShowsLastPush == Undisturbed /\ Settled => Current

\* After the last loss or odd value the listener gets back in step by itself:
\* from some push on, every push is shown, each value under its own code.
BackInStep == <>[](Settled => Current)
=============================================================================
