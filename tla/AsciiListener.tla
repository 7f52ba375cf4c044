---------------------------- MODULE AsciiListener ----------------------------
(***************************************************************************)
(* The two tasks for meters that speak lines of text                       *)
(* (main/ascii_parsers.c).  am550_ascii_task listens for ever;             *)
(* iec62056_21_task wakes the meter, reads its identification, asks for    *)
(* the telegram, reads until the '!' that ends it or for five seconds, and *)
(* pauses.  Both keep the octets in one C string: a zero octet ends it,    *)
(* the parser writes zeros into it, and what memmove leaves behind stays   *)
(* in memory.  Every octet received also goes to the debug ring.           *)
(* A line is <<Code(c), Value(d), Newline>>: "code", "(value)", "\r\n".    *)
(***************************************************************************)
EXTENDS ReadingsCache, Ring, SequencesExt

CONSTANTS
    Newline, Mark, Zero, Noise,  \* '\n', '!', 0, and any other octet
    Text,      \* the codes of a telegram, in order
    BufSize,   \* size of rx_buf: 1024
    ClearAt,   \* the listener gives a line up at this length: 1000
    PushMod,   \* telegrams are told apart modulo this
    MaxFaults  \* bound on damage to the line in a run

Code(c)  == <<"code", c>>
Value(d) == <<"value", d>>

ASSUME AsciiAssumption ==
    /\ BufSize \in Nat /\ ClearAt \in 1 .. BufSize - 1
    /\ PushMod \in Nat \ {0} /\ MaxFaults \in Nat
    /\ Text \in Seq(Codes) /\ Data = [from : Codes, push : 1 .. PushMod]
    /\ Octet = {Newline, Mark, Zero, Noise} \cup {Code(c) : c \in Codes}
                                            \cup {Value(d) : d \in Data}
    /\ Mark # Zero
    /\ {Mark, Zero} \cap ({Newline, Noise} \cup {Code(c) : c \in Codes}
                                           \cup {Value(d) : d \in Data}) = {}

VARIABLES
    task,       \* meter_type: which of the two tasks was started
    phase,      \* where it is: "wake", "ident", "read", "split" or "pause"
    mem,        \* rx_buf
    len,        \* rx_len
    at,         \* line_start
    parsed,     \* the last reading parsed (the log line), by OBIS code
    published,  \* the last message on the state topic, by OBIS code
    line,       \* octets on the wire or in the UART
    meter,      \* what the meter is about to send
    push,       \* number of its last telegram, 0 before the first
    faults      \* faults still to come

text  == <<phase, mem, len, at>>
shown == <<parsed, published, created, slots>>
wire  == <<line, meter, push, faults>>
vars  == <<task, text, shown, wire, ring>>

TypeOK ==
    /\ CacheTypeOK /\ RingTypeOK
    /\ task \in {"am550", "iec"}
    /\ phase \in {"wake", "ident", "read", "split", "pause"}
    /\ mem \in [0 .. BufSize - 1 -> Octet]
    /\ len \in 0 .. BufSize - 1 /\ at \in 0 .. len
    /\ parsed \in [Codes -> Data \cup {None}]
    /\ published \in [Codes -> Data \cup {None}]
    /\ line \in Seq(Octet)
    /\ meter \in {"quiet", "ident", "telegram"}
    /\ push \in 0 .. PushMod /\ faults \in 0 .. MaxFaults

\* rx_buf comes from malloc.
Init ==
    /\ CacheInit /\ RingInit
    /\ \/ task = "am550" /\ phase = "read" /\ meter = "telegram"
       \/ task = "iec" /\ phase = "wake" /\ meter = "quiet"
    /\ \E o \in {Zero, Mark} : mem = [i \in 0 .. BufSize - 1 |-> o]
    /\ len = 0 /\ at = 0
    /\ parsed = [c \in Codes |-> None] /\ published = [c \in Codes |-> None]
    /\ line = <<>> /\ push = 0 /\ faults = MaxFaults

-----------------------------------------------------------------------------
(* Reading                                                                 *)

Received(n) == SubSeq(line, 1, n)

\* s is stored from position i on, and a zero behind it.
StoredUnended(i, s) ==
    [j \in DOMAIN mem |-> IF j \in i .. i + Len(s) - 1 THEN s[j - i + 1] ELSE mem[j]]
Stored(i, s) ==
    [j \in DOMAIN mem |-> IF j \in i .. i + Len(s) - 1 THEN s[j - i + 1]
                          ELSE IF j = i + Len(s) THEN Zero ELSE mem[j]]

AskedForAll == BufSize - len
Asked == BufSize - len - 1

\* uart_read_bytes returns n octets.
ReadUart(n) ==
    /\ phase = "read" /\ n \in 1 .. Asked
    /\ BeginWrite(Received(n))
    /\ mem' = Stored(len, Received(n)) /\ len' = len + n
    /\ phase' = "split" /\ at' = 0
    /\ line' = SubSeq(line, n + 1, Len(line))
    /\ UNCHANGED <<task, shown, meter, push, faults>>

\* The holder of g_debug_mutex appends what was received.
Trace == WriteOctet /\ UNCHANGED <<task, text, shown, wire>>

\* The debug page is cleared (clear_debug_buf, from the web server).
WebClears ==
    /\ phase # "split" /\ ClearRing /\ ring' # ring
    /\ UNCHANGED <<task, text, shown, wire>>

-----------------------------------------------------------------------------
(* Lines                                                                   *)

\* Where strchr finds o, from position i on and before the first zero.
Finds(m, i, o) ==
    {j \in DOMAIN m : j >= i /\ m[j] = o /\ \A k \in i .. j : m[k] # Zero}

Least(S) == CHOOSE i \in S : \A j \in S : i <= j

\* The octets of mem from i up to j, not including j.
Part(i, j) == [k \in 1 .. j - i |-> mem[i + k - 1]]

IsCode(o)  == \E c \in Codes : o = Code(c)
IsValue(o) == \E d \in Data : o = Value(d)
Opening(s) == {i \in DOMAIN s : IsValue(s[i])}

\* Readings a line may give: there is a value, and the line starts with a code;
\* a code run into another is read as whatever code the digits make.
ReadAs(s) ==
    IF s = <<>> \/ Opening(s) = {} \/ ~ IsCode(s[1]) THEN {}
    ELSE [obis : IF IsCode(s[2]) THEN Codes ELSE {s[1][2]},
          valid : {TRUE}, typed : {TRUE}, data : {s[Least(Opening(s))][2]}]

\* What parse_text_line leaves of the line from i up to e.
Parsed(i, e) ==
    [j \in DOMAIN mem |->
       IF j = e \/ (j \in i .. e - 1 /\ IsValue(mem[j])
                    /\ ~ \E k \in i .. j - 1 : IsValue(mem[k]))
       THEN Zero ELSE mem[j]]

Rendered == [c \in Codes |-> Lookup(slots, c).data]

NoReading == UNCHANGED shown

\* Published, if the broker is there, from the cache; then cached.
TakeReading(r) ==
    /\ parsed' = [parsed EXCEPT ![r.obis] = r.data]
    /\ published' \in {published, Rendered}
    /\ CacheReading(r)

ParseLine ==
    LET ends == Finds(mem, at, Newline)
        s    == Part(at, Least(ends))
    IN  /\ phase = "split" /\ ~ Locked /\ ends # {}
        /\ IF ReadAs(s) = {} THEN NoReading ELSE \E r \in ReadAs(s) : TakeReading(r)
        /\ mem' = Parsed(at, Least(ends)) /\ at' = Least(ends) + 1
        /\ UNCHANGED <<task, phase, len, wire, ring>>

\* memmove of what is left to the front, without its terminating zero.
Moved == [j \in DOMAIN mem |-> IF j < len - at THEN mem[j + at] ELSE mem[j]]

\* A line too long for the buffer is given up, by the listener only.
GivesUpTooLate == task = "am550" /\ at = 0 /\ len > BufSize - 1
GivesUp == task = "am550" /\ at = 0 /\ len >= ClearAt

KeepRestUnmoved == mem' = mem /\ len' = IF GivesUp THEN 0 ELSE len - at
KeepRestNoLimit == mem' = Moved /\ len' = len - at
KeepRest == mem' = Moved /\ len' = IF GivesUp THEN 0 ELSE len - at

EndSeen == Finds(mem', 0, Mark) # {}

LinesDone ==
    /\ phase = "split" /\ ~ Locked /\ Finds(mem, at, Newline) = {}
    /\ KeepRest /\ at' = 0
    /\ phase' = IF task = "iec" /\ EndSeen THEN "pause" ELSE "read"
    /\ UNCHANGED <<task, shown, wire, ring>>

-----------------------------------------------------------------------------
(* A session of iec62056_21_task                                           *)

\* The line is flushed and the wake-up sent, at the initial rate.
Wake ==
    /\ phase = "wake" /\ phase' = "ident"
    /\ line' = <<>> /\ meter' = "ident"
    /\ UNCHANGED <<task, mem, len, at, shown, push, faults, ring>>

\* Up to 256 octets of identification; they are acknowledged, at the rate they
\* name, and the telegram may come.
ReadIdent ==
    LET n == IF Len(line) < BufSize THEN Len(line) ELSE BufSize - 1
    IN  /\ phase = "ident" /\ n > 0
        /\ BeginWrite(Received(n))
        /\ mem' = Stored(0, Received(n)) /\ len' = 0 /\ at' = 0
        /\ line' = SubSeq(line, n + 1, Len(line))
        /\ phase' = "read" /\ meter' = "telegram"
        /\ UNCHANGED <<task, shown, push, faults>>

\* Time runs out with the meter still to speak only as a fault: idle is a line
\* with nothing more to come, or a buffer with no room.
Idle == meter = "quiet" /\ (line = <<>> \/ (phase = "read" /\ Asked = 0))

TimesOut ==
    /\ task = "iec" /\ phase \in {"ident", "read"} /\ ~ Locked
    /\ phase = "ident" => line = <<>>
    /\ \/ Idle /\ UNCHANGED faults
       \/ ~ Idle /\ faults > 0 /\ faults' = faults - 1
    /\ phase' = "pause"
    /\ UNCHANGED <<task, mem, len, at, shown, line, meter, push, ring>>

PauseEnds ==
    /\ phase = "pause" /\ phase' = "wake"
    /\ UNCHANGED <<task, mem, len, at, shown, wire, ring>>

-----------------------------------------------------------------------------
(* The meter and the line (external).  They touch only octets the task has *)
(* not read yet, so their steps commute with the parsing of those it has,  *)
(* and are taken outside it.                                               *)

Apart == phase # "split"

PushNumber == IF push = PushMod THEN 1 ELSE push + 1

LineOf(c) == <<Code(c), Value([from |-> c, push |-> PushNumber]), Newline>>

Telegram ==
    [k \in 1 .. 3 * Len(Text) |-> LineOf(Text[(k + 2) \div 3])[((k - 1) % 3) + 1]]
      \o <<Mark, Newline>>

MeterIdentifies ==
    /\ Apart /\ meter = "ident" /\ meter' = "quiet"
    /\ line' = line \o <<Noise, Newline>>
    /\ UNCHANGED <<task, text, shown, push, faults, ring>>

\* Unasked telegrams are further apart than it takes to read one.
MeterSends ==
    /\ Apart /\ meter = "telegram" /\ (task = "am550" => line = <<>>)
    /\ line' = line \o Telegram /\ push' = PushNumber
    /\ meter' = IF task = "iec" THEN "quiet" ELSE meter
    /\ UNCHANGED <<task, text, shown, faults, ring>>

\* An octet is lost or turned into a zero; a run of noise without an end comes
\* first; the meter is silent, or at a rate that is not understood.
Damage ==
    /\ Apart /\ faults > 0 /\ faults' = faults - 1
    /\ \/ /\ \/ \E i \in DOMAIN line :
                   line' \in {RemoveAt(line, i), [line EXCEPT ![i] = Zero]}
             \/ line' = [k \in 1 .. BufSize |-> Noise] \o line
          /\ UNCHANGED meter
       \/ /\ task = "iec" /\ meter # "quiet" /\ meter' = "quiet"
          /\ UNCHANGED line
    /\ UNCHANGED <<task, text, shown, push, ring>>

-----------------------------------------------------------------------------
Read == \E n \in 1 .. Len(line) : ReadUart(n)

Handle == Read \/ Trace \/ ParseLine \/ LinesDone

Session == Wake \/ ReadIdent \/ TimesOut \/ PauseEnds

Next ==
    \/ Handle \/ Session
    \/ WebClears \/ MeterIdentifies \/ MeterSends \/ Damage

Spec == Init /\ [][Next]_vars

\* The task runs; a session times out when nothing more comes; what is asked
\* of the meter it sends, and what is on the line arrives.
FairSpec ==
    /\ Spec
    /\ WF_vars(Handle) /\ WF_vars(Session)
    /\ WF_vars(MeterIdentifies) /\ WF_vars(MeterSends)

-----------------------------------------------------------------------------
(* Correctness                                                             *)

\* The values in the text s, as one look at the whole of it finds them.
LineEnds(s) ==
    {e \in DOMAIN s : s[e] = Newline /\ \A k \in 1 .. e : s[k] # Zero}
LineTo(s, e) ==
    LET before == {b \in LineEnds(s) \cup {0} : b < e}
    IN  SubSeq(s, (CHOOSE b \in before : \A c \in before : c <= b) + 1, e - 1)
ValuesIn[s \in Seq(Octet)] ==
    FlattenSeq([e \in DOMAIN s |->
        LET t == LineTo(s, e)
        IN  IF e \in LineEnds(s) /\ ReadAs(t) # {} THEN <<t[Least(Opening(t))][2]>>
            ELSE <<>>])

Owed == ValuesIn[Part(at, len) \o line]

\* How the octets are cut into reads does not matter: parsing finds, in their
\* order, none lost, doubled or made up by the cut, the values that one look at
\* all the octets would; whatever has got into the line, until it is given up.
CutsDoNotMatter ==
    [][\A before \in {Owed}, after \in {Owed'} :
          /\ Read \/ (LinesDone /\ ~ GivesUp) => after = before
          /\ ParseLine => after = before \/ (before # <<>> /\ after = Tail(before))
          /\ ParseLine /\ parsed' # parsed =>
                /\ before # <<>>
                /\ \E c \in Codes : parsed' = [parsed EXCEPT ![c] = Head(before)]]_vars

\* The listener never asks for zero octets, which it would do for ever.
RoomLeft == task = "am550" /\ phase = "read" => Asked > 0

\* Stale octets of an earlier line or session are never taken for the '!' that
\* ends this telegram: the session ends on it only with all its values read.
LeavesAtEnd ==
    [][LinesDone /\ phase' = "pause" /\ faults = MaxFaults => Owed = <<>>]_vars

\* Whatever gets into the line, telegram after telegram is read again later.
KeepsReading ==
    \A c \in ToSet(Text), p \in 1 .. PushMod :
        []<>(parsed[c] = [from |-> c, push |-> p])
=============================================================================
