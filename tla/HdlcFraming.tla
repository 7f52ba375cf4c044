----------------------------- MODULE HdlcFraming -----------------------------
(***************************************************************************)
(* How frames are cut out of the octets a UART delivers.  Two loops do it: *)
(* the push listener (main/main.c: e450_push_task), which looks for ever,  *)
(* and wait_for_frame (dlms_client.c), which looks until a timeout.  Both  *)
(* search with dlms_hdlc_find_frame and judge with dlms_hdlc_parse_frame.  *)
(* An octet is a flag, noise, the '/' of a text line, or <<k, i>>, octet i *)
(* of the body of frame k; k = 0 stands for an M-Bus telegram.  A frame    *)
(* may hold the value 0x7E inside: HDLC frames of this type are not        *)
(* escaped.                                                                *)
(***************************************************************************)
EXTENDS Naturals, Sequences, SequencesExt

CONSTANTS
    Flag, Noise, Slash,
    BufSize,    \* DLMS_RX_BUFFER_SIZE, in octets
    MaxFrames,  \* bound on frames sent
    MaxLine,    \* bound on octets on the line
    MaxFaults   \* bound on noise, telegrams, text lines and lost octets

ASSUME FramingAssumption ==
    /\ BufSize \in Nat /\ BufSize > 4
    /\ MaxFrames \in Nat /\ MaxLine \in Nat /\ MaxFaults \in Nat
    /\ Flag # Noise /\ Flag # Slash /\ Noise # Slash
    /\ {Flag, Noise, Slash} \cap ((0 .. MaxFrames) \X {1, 2}) = {}

VARIABLES
    loop,       \* which loop reads this UART: "listen" or "wait"
    line,       \* octets on the line or in the UART
    buf,        \* rx_buf, rx_buffer
    waiting,    \* wait_for_frame is running
    unsearched, \* ... and has not searched what is behind a discarded candidate
    delivered,  \* frames handed on, in order
    sent,       \* history: number of frames sent
    intact,     \* history: frames sent that can be told from their surroundings
    faults      \* faults still to come

task == <<loop, buf, waiting, unsearched, delivered>>
wire == <<line, sent, intact, faults>>
vars == <<task, wire>>

Octet == {Flag, Noise, Slash} \cup (0 .. MaxFrames) \X {1, 2}

TypeOK ==
    /\ loop \in {"listen", "wait"}
    /\ line \in Seq(Octet)
    /\ buf \in Seq(Octet) /\ Len(buf) <= BufSize
    /\ waiting \in BOOLEAN /\ unsearched \in BOOLEAN
    /\ delivered \in Seq(1 .. MaxFrames)
    /\ sent \in 0 .. MaxFrames /\ intact \subseteq 1 .. sent
    /\ faults \in 0 .. MaxFaults

Init ==
    /\ loop \in {"listen", "wait"}
    /\ line = <<>> /\ buf = <<>> /\ waiting = FALSE /\ unsearched = FALSE
    /\ delivered = <<>>
    /\ sent = 0 /\ intact = {} /\ faults = MaxFaults

-----------------------------------------------------------------------------
(* Search and judgement                                                    *)

\* The first two flags in a row with something between them.
CandidatesMissLast(b) ==
    {p \in (1 .. Len(b) - 1) \X (1 .. Len(b) - 1) :
        /\ p[1] + 1 < p[2] /\ b[p[1]] = Flag /\ b[p[2]] = Flag
        /\ \A i \in p[1] + 1 .. p[2] - 1 : b[i] # Flag}
Candidates(b) ==
    {p \in (1 .. Len(b)) \X (1 .. Len(b)) :
        /\ p[1] + 1 < p[2] /\ b[p[1]] = Flag /\ b[p[2]] = Flag
        /\ \A i \in p[1] + 1 .. p[2] - 1 : b[i] # Flag}

Found(b)     == Candidates(b) # {}
FindFrame(b) == CHOOSE p \in Candidates(b) : \A q \in Candidates(b) : p[1] <= q[1]
End(b)       == FindFrame(b)[2]

Image(k)    == <<Flag, <<k, 1>>, <<k, 2>>, Flag>>
Whole(k, s) == \E i \in 1 .. Len(s) : i + 3 <= Len(s) /\ SubSeq(s, i, i + 3) = Image(k)

\* What of intact outlives a loss on the line that leaves s to be looked at.
StillWhole(s) == {k \in intact : k \in ToSet(delivered) \/ Whole(k, s)}

\* Format, length and checksum are right for nothing but a frame as it was sent.
Parsed(b) ==
    LET p == FindFrame(b)
    IN  {k \in 1 .. MaxFrames : SubSeq(b, p[1], p[2]) = Image(k)}

\* The last octets of complete M-Bus telegrams.
Telegrams(b) == {i \in 2 .. Len(b) : b[i - 1] = <<0, 1>> /\ b[i] = <<0, 2>>}

Handed(ks) == delivered \o SetToSeq(ks)

Drop(b, n) == SubSeq(b, n + 1, Len(b))

-----------------------------------------------------------------------------
(* The listener                                                            *)

\* Behind the frame, but keeping its closing flag.
RemovedWithFlag(b) == Drop(b, End(b))
Removed(b)         == Drop(b, End(b) - 1)

ClearedNever(b) == b
ClearedAlways(b) == <<>>
Cleared(b) == IF Len(b) = BufSize THEN <<>> ELSE b

\* uart_read_bytes returns n octets: one frame is taken, or one telegram, or
\* the buffer is given up when it is full.
Listen(n) ==
    LET b == buf \o SubSeq(line, 1, n)
    IN  /\ loop = "listen" /\ Len(b) <= BufSize
        /\ line' = Drop(line, n)
        /\ \/ /\ Found(b)
              /\ delivered' = Handed(Parsed(b)) /\ buf' = Removed(b)
           \/ /\ ~ Found(b) /\ Telegrams(b) # {}
              /\ buf' = Drop(b, (CHOOSE i \in Telegrams(b) :
                                    \A j \in Telegrams(b) : i <= j) - 1)
              /\ UNCHANGED delivered
           \/ /\ ~ Found(b) /\ Telegrams(b) = {}
              /\ buf' = Cleared(b)
              /\ UNCHANGED delivered
        /\ UNCHANGED <<loop, waiting, unsearched, sent, intact, faults>>

\* Nothing for 100 ms: a text line is printed and forgotten.
TextLine ==
    /\ loop = "listen" /\ line = <<>> /\ buf # <<>> /\ Head(buf) = Slash
    /\ buf' = <<>>
    /\ UNCHANGED <<loop, waiting, unsearched, delivered, wire>>

-----------------------------------------------------------------------------
(* wait_for_frame                                                          *)

\* rx_len = 0.
EmptiedNever == buf
Emptied == <<>>

WaitBegins ==
    /\ loop = "wait" /\ ~ waiting
    /\ waiting' = TRUE /\ unsearched' = FALSE /\ buf' = Emptied
    /\ UNCHANGED <<loop, delivered, wire>>

\* What memcpy leaves out when the buffer is full.
FitAll(n) == n
Fit(n) == IF n <= BufSize - Len(buf) THEN n ELSE BufSize - Len(buf)

\* n octets come, those that do not fit are lost; then one search.
WaitReads(n) ==
    LET b == buf \o SubSeq(line, 1, Fit(n))
    IN  /\ waiting
        /\ line' = Drop(line, n)
        /\ \/ /\ Found(b) /\ Parsed(b) # {}
              /\ delivered' = Handed(Parsed(b))
              /\ waiting' = FALSE /\ buf' = b
              /\ UNCHANGED unsearched
           \/ /\ Found(b) /\ Parsed(b) = {}
              /\ buf' = Drop(b, End(b)) /\ unsearched' = TRUE
              /\ UNCHANGED <<delivered, waiting>>
           \/ /\ ~ Found(b)
              /\ buf' = b /\ unsearched' = FALSE
              /\ UNCHANGED <<delivered, waiting>>
        /\ UNCHANGED <<loop, sent, intact, faults>>

WaitTimesOut ==
    /\ waiting /\ waiting' = FALSE
    /\ UNCHANGED <<loop, buf, unsearched, delivered, wire>>

-----------------------------------------------------------------------------
(* The meter and the line (external)                                       *)

Put(octets) == line' = line \o octets /\ Len(line') <= MaxLine

\* A frame with flags of its own, or sharing the flag of the one before.
SendFrame ==
    /\ sent < MaxFrames
    /\ sent' = sent + 1 /\ intact' = intact \cup {sent'}
    /\ \/ Put(Image(sent'))
       \/ line # <<>> /\ Last(line) = Flag /\ Put(Tail(Image(sent')))
    /\ UNCHANGED <<task, faults>>

\* A frame with 0x7E in its body.
SendAwkward ==
    /\ sent < MaxFrames
    /\ sent' = sent + 1
    /\ Put(<<Flag, <<sent', 1>>, Flag, <<sent', 2>>, Flag>>)
    /\ UNCHANGED <<task, intact, faults>>

SendOther ==
    /\ faults > 0 /\ faults' = faults - 1
    /\ \/ Put(<<Noise>>) \/ Put(<<Slash, Noise>>) \/ Put(<<<<0, 1>>, <<0, 2>>>>)
    /\ UNCHANGED <<task, sent, intact>>

OctetLost ==
    /\ line # <<>> /\ faults > 0 /\ faults' = faults - 1
    /\ \E i \in 1 .. Len(line) : line' = RemoveAt(line, i)
    /\ intact' = StillWhole(buf \o line')
    /\ UNCHANGED <<task, sent>>

Reads == \E n \in 1 .. Len(line) : Listen(n) \/ WaitReads(n)

Next ==
    \/ Reads \/ TextLine \/ WaitBegins \/ WaitTimesOut
    \/ SendFrame \/ SendAwkward \/ SendOther \/ OctetLost

Spec == Init /\ [][Next]_vars

-----------------------------------------------------------------------------
(* Correctness                                                             *)

\* The listener has handed frame k on, or may still do so.
InReach(k) == k \in ToSet(delivered) \/ Whole(k, buf \o line)

\* The buffer is filled up without a frame in it, and frame k runs over its end.
Overrun(k) ==
    LET all == buf \o line
    IN  /\ Len(all) >= BufSize /\ ~ Found(SubSeq(all, 1, BufSize))
        /\ Whole(k, all) /\ ~ Whole(k, Drop(all, BufSize))

\* Of the frames that arrive whole the listener loses only what a full buffer
\* costs, the one frame that runs over its end: whatever noise, broken or awkward
\* frames, telegrams and text lines are around them, however the octets are cut
\* into reads, and whether or not they share their flags with their neighbours.
NothingIntactLost ==
    [][LET lost == {k \in intact \cap intact' : InReach(k) /\ ~ InReach(k)'}
       IN  loop = "listen" => \A k \in lost : lost = {k} /\ Overrun(k)]_vars

\* While nothing but frames comes, awkward ones among them, the buffer is never
\* given up and no other frame is lost at all.
CleanLineLosesNone ==
    loop = "listen" /\ faults = MaxFaults => \A k \in intact : InReach(k)

\* No frame is handed on twice or out of turn, by either loop.
InOrder ==
    \A i, j \in DOMAIN delivered : i < j => delivered[i] < delivered[j]

\* The listener never asks for zero octets and never holds a full buffer, so
\* the terminating zero of a text line is written inside it.
RoomLeft == loop = "listen" => Len(buf) < BufSize

\* wait_for_frame gives up on a whole frame it has received only when the last
\* read made it discard a candidate, behind which it has not looked again.
GivesUpRightly ==
    [][WaitTimesOut /\ ~ unsearched => \A k \in 1 .. sent : ~ Whole(k, buf)]_vars
=============================================================================
