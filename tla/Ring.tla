--------------------------------- MODULE Ring ---------------------------------
(***************************************************************************)
(* The overwriting rings behind the debug page (main/main.c: g_debug_buf   *)
(* and g_trace_buf, the same code twice).  One cell is always left free:   *)
(* head = tail means empty.  A writer holds the lock of its ring for the   *)
(* whole run of octets it appends; clearing and reading out take the same  *)
(* lock, so they find no run half written.                                 *)
(***************************************************************************)
EXTENDS Integers, Sequences

CONSTANTS
    RingSize,  \* DEBUG_BUF_SIZE, TRACE_BUF_SIZE
    Octet      \* what a cell holds

ASSUME RingAssumption == RingSize \in Nat /\ RingSize >= 2 /\ Octet # {}

VARIABLES
    cells,   \* g_debug_buf
    head,    \* g_debug_head: the next cell to write
    tail,    \* g_debug_tail: the oldest cell
    writing  \* octets the holder of the lock has still to append

ring == <<cells, head, tail, writing>>

Cells == 0 .. RingSize - 1

RingTypeOK ==
    /\ cells \in [Cells -> Octet]
    /\ head \in Cells /\ tail \in Cells
    /\ writing \in Seq(Octet)

RingInit ==
    /\ \E o \in Octet : cells = [c \in Cells |-> o]
    /\ head = 0 /\ tail = 0
    /\ writing = <<>>

Succ(c) == (c + 1) % RingSize

Locked == writing # <<>>

\* The lock is taken to append the octets s.
BeginWrite(s) == ~ Locked /\ writing' = s /\ UNCHANGED <<cells, head, tail>>

\* One pass of the loop that appends: full, the ring gives up its oldest octet.
TailAfterNeverPushed == tail
TailAfter == IF Succ(head) = tail THEN Succ(tail) ELSE tail

WriteOctet ==
    /\ Locked
    /\ cells' = [cells EXCEPT ![head] = Head(writing)]
    /\ head' = Succ(head) /\ tail' = TailAfter
    /\ writing' = Tail(writing)

\* clear_debug_buf.
ClearRing ==
    /\ ~ Locked
    /\ head' = 0 /\ tail' = 0
    /\ UNCHANGED <<cells, writing>>

RingNext == WriteOctet \/ ClearRing \/ \E s \in Seq(Octet) : BeginWrite(s)

RingSpec == RingInit /\ [][RingNext]_ring

-----------------------------------------------------------------------------
\* The cells from tail to head, oldest first: what the loops that read the
\* ring out walk over.
Held == IF tail <= head THEN head - tail ELSE head - tail + RingSize

Contents == [k \in 1 .. Held |-> cells[(tail + k - 1) % RingSize]]

\* get_debug_json writes an octet as three characters while it has room for
\* four more in a text of three times the size of the ring.
RoomForHexTight(k) == 3 * k < 3 * RingSize - 4
RoomForHex(k) == 3 * (k - 1) < 3 * RingSize - 4

ShownAsHex == [k \in {j \in 1 .. Held : RoomForHex(j)} |-> Contents[k]]

-----------------------------------------------------------------------------
\* The debug page shows the latest RingSize - 1 octets received since it was
\* last cleared, none missing, doubled or out of order: an octet that is written
\* is added, a full ring giving up its oldest for it and never reading as empty,
\* and the limit on the text never cuts the latest octets off.
Latest == INSTANCE LastOctets WITH Room <- RingSize - 1, log <- ShownAsHex

ShowsLatest == Latest!Spec /\ [][WriteOctet => Latest!Add(Head(writing))]_ring
=============================================================================
