------------------------------ MODULE DlmsPoll ------------------------------
(***************************************************************************)
(* The DLMS/COSEM poll task (components/dlms_client/dlms_client.c): one    *)
(* cycle is SNRM -> UA, AARQ -> AARE, one ReadRequest -> ReadResponse per  *)
(* registered OBIS entry, the callback, DISC.  The serial line is half     *)
(* request queue (`up', towards the meter), half UART FIFO (`fifo',        *)
(* complete HDLC frames waiting to be read).  A frame is a record; its     *)
(* octets, check sequences and A-XDR payload are the subject of other      *)
(* modules.  The value carried by a ReadResponse is abstracted to the      *)
(* entry whose register the meter read.                                    *)
(***************************************************************************)
EXTENDS Naturals, Sequences

CONSTANTS
    NumObis,         \* client->obis_count, fixed once the task runs
    MaxRetries,      \* MAX_RETRIES
    SeqMod,          \* modulus of N(S) and N(R): 8 in the code (& 0x07)
    CounterMod,      \* modulus of the two uint32_t statistics
    ReceiveTimeout,  \* config.receive_timeout_ms
    LateReplies,     \* may an answer arrive after its wait has timed out?
    SlowReaders,     \* may a reader hold readings_mutex for over 100 ms?
    MaxFaults        \* bound on faults of line, meter and readers in a run

ASSUME PollAssumption ==
    /\ NumObis \in Nat /\ MaxRetries \in Nat \ {0} /\ ReceiveTimeout \in Nat
    /\ SeqMod \in Nat \ {0} /\ CounterMod \in Nat \ {0} /\ MaxFaults \in Nat
    /\ LateReplies \in BOOLEAN /\ SlowReaders \in BOOLEAN

VARIABLES
    state,       \* client->state
    call,        \* the wait_for_frame call: none, waiting, or its outcome
    frame,       \* the local `frame' the call fills
    retry,       \* SNRM attempts that have failed in this cycle
    current,     \* 1 + client->current_obis_index
    sendSeq,     \* client->send_seq
    recvSeq,     \* client->recv_seq
    rx,          \* rx_buffer[0 .. rx_len), as frames
    readings,    \* client->readings
    holder,      \* owner of readings_mutex outside the poll task
    polls,       \* client->polls_completed
    errors,      \* client->errors_total
    notified,    \* history: the callback ran in this cycle
    up, fifo,    \* the line
    link, vr, vs,\* the meter: link state, V(R) and V(S)
    faults       \* faults still to come

client == <<state, call, frame, retry, current, sendSeq, recvSeq, rx,
            polls, errors, notified>>
meter  == <<link, vr, vs>>
vars   == <<client, readings, holder, up, fifo, meter, faults>>

Entries  == 1 .. NumObis
Sequence == 0 .. SeqMod - 1

Request == [ctrl : {"SNRM", "DISC", "I"}, ns : Sequence, nr : Sequence,
            apdu : {"none", "AARQ", "read"}, entry : 0 .. NumObis]
Frame   == [ctrl : {"UA", "DM", "I"}, ns : Sequence,
            apdu : {"none", "AARE", "AARE-rejected", "data", "error"},
            entry : 0 .. NumObis, good : BOOLEAN]
Reading == [valid : BOOLEAN, value : 0 .. NumObis,
            stamp : {"none", "old", "now"}]
States  == {"IDLE", "CONNECTING_HDLC", "CONNECTING_DLMS", "CONNECTED",
            "REQUEST_SENT", "DISCONNECTING", "ERROR"}

TypeOK ==
    /\ state \in States
    /\ call \in {"none", "waiting", "frame", "timeout"}
    /\ frame \in Frame
    /\ retry \in 0 .. MaxRetries - 1
    /\ current \in 1 .. NumObis + 1
    /\ sendSeq \in Sequence /\ recvSeq \in Sequence
    /\ rx \in Seq(Frame)
    /\ readings \in [Entries -> Reading]
    /\ holder \in {"free", "reader"}
    /\ polls \in 0 .. CounterMod - 1 /\ errors \in 0 .. CounterMod - 1
    /\ notified \in BOOLEAN
    /\ up \in Seq(Request) /\ fifo \in Seq(Frame)
    /\ link \in {"off", "on", "associated"}
    /\ vr \in Sequence /\ vs \in Sequence
    /\ faults \in 0 .. MaxFaults

Unread  == [valid |-> FALSE, value |-> 0, stamp |-> "none"]
NoFrame == [ctrl |-> "DM", ns |-> 0, apdu |-> "none", entry |-> 0,
            good |-> FALSE]

Init ==
    /\ state = "IDLE" /\ call = "none" /\ frame = NoFrame
    /\ retry = 0 /\ current = 1 /\ sendSeq = 0 /\ recvSeq = 0 /\ rx = <<>>
    /\ readings = [e \in Entries |-> Unread] /\ holder = "free"
    /\ polls = 0 /\ errors = 0 /\ notified = FALSE
    /\ up = <<>> /\ fifo = <<>>
    /\ link = "off" /\ vr = 0 /\ vs = 0
    /\ faults = MaxFaults

-----------------------------------------------------------------------------
(* Frames the client transmits.  Each is followed by a wait.               *)

Snrm == [ctrl |-> "SNRM", ns |-> 0, nr |-> 0, apdu |-> "none", entry |-> 0]
Disc == [ctrl |-> "DISC", ns |-> 0, nr |-> 0, apdu |-> "none", entry |-> 0]
IFrame(ns, nr, apdu, entry) ==
    [ctrl |-> "I", ns |-> ns, nr |-> nr, apdu |-> apdu, entry |-> entry]

NextSeqUnwrapped(n) == n + 1
NextSeq(n) == (n + 1) % SeqMod

\* N(R) after a frame was accepted: only an I-frame moves it.
RecvSeqEchoed(f) == IF f.ctrl = "I" THEN f.ns ELSE recvSeq
RecvSeqAfter(f) == IF f.ctrl = "I" THEN NextSeq(f.ns) ELSE recvSeq

\* uart_send, then the start of wait_for_frame: rx_len = 0.
SendAndWait(req) ==
    /\ up' = Append(up, req)
    /\ call' = "waiting"
    /\ rx' = <<>>

-----------------------------------------------------------------------------
(* wait_for_frame.  With a zero timeout its loop body never runs; the wait *)
(* for the answer to DISC has a timeout of its own.                        *)

Listening == call = "waiting" /\ (ReceiveTimeout > 0 \/ state = "DISCONNECTING")

\* rx_buffer once n more frames have been read from the UART.
Buffered(n) == rx \o SubSeq(fifo, 1, n)

ReadUart(n) == fifo' = SubSeq(fifo, n + 1, Len(fifo))

\* The first frame of the buffer parses: it is returned, and what follows
\* it stays in rx_buffer, where the next call forgets it.
FrameReceived ==
    /\ Listening
    /\ \E n \in 1 .. Len(fifo) :
          /\ Head(Buffered(n)).good
          /\ frame' = Head(Buffered(n))
          /\ rx' = Buffered(n)
          /\ ReadUart(n)
    /\ call' = "frame"
    /\ UNCHANGED <<state, retry, current, sendSeq, recvSeq, polls, errors,
                   notified, readings, holder, up, meter, faults>>

\* It does not: it is cut off, and the rest is looked at only once more
\* bytes have come.
FrameDiscarded ==
    /\ Listening
    /\ \E n \in 1 .. Len(fifo) :
          /\ ~ Head(Buffered(n)).good
          /\ rx' = Tail(Buffered(n))
          /\ ReadUart(n)
    /\ UNCHANGED <<state, call, frame, retry, current, sendSeq, recvSeq,
                   polls, errors, notified, readings, holder, up, meter,
                   faults>>

\* An answer under way when the time is up is late: a fault, and one that
\* only a meter slower than the timeout commits.
Late == Listening /\ (up # <<>> \/ fifo # <<>>)

WaitForDiscForever ==
    /\ call = "waiting" /\ state # "DISCONNECTING"
    /\ Late => LateReplies /\ faults > 0
    /\ faults' = IF Late THEN faults - 1 ELSE faults
    /\ call' = "timeout"
    /\ UNCHANGED <<state, frame, retry, current, sendSeq, recvSeq, rx, polls,
                   errors, notified, readings, holder, up, fifo, meter>>
WaitTimedOut ==
    /\ call = "waiting"
    /\ Late => LateReplies /\ faults > 0
    /\ faults' = IF Late THEN faults - 1 ELSE faults
    /\ call' = "timeout"
    /\ UNCHANGED <<state, frame, retry, current, sendSeq, recvSeq, rx, polls,
                   errors, notified, readings, holder, up, fifo, meter>>

-----------------------------------------------------------------------------
(* do_poll_cycle                                                           *)

Aged(r) == [r EXCEPT !.stamp = IF @ = "now" THEN "old" ELSE @]

\* The protocol state is reset and the UART flushed.
ResetWithoutFlush == sendSeq' = 0 /\ recvSeq' = 0 /\ UNCHANGED fifo
ResetProtocol == sendSeq' = 0 /\ recvSeq' = 0 /\ fifo' = <<>>

\* SNRM is sent.  The poll interval (5 s at least) is assumed to outlast the
\* meter's last answer, so that the flush finds all of them.
StartCycle ==
    /\ state = "IDLE"
    /\ up = <<>>
    /\ ResetProtocol /\ retry' = 0
    /\ SendAndWait(Snrm)
    /\ state' = "CONNECTING_HDLC"
    /\ notified' = FALSE
    /\ readings' = [e \in Entries |-> Aged(readings[e])]
    /\ UNCHANGED <<frame, current, polls, errors, holder, meter, faults>>

\* UA: AARQ goes out as the first I-frame.
LinkEstablished ==
    /\ state = "CONNECTING_HDLC" /\ call = "frame" /\ frame.ctrl = "UA"
    /\ SendAndWait(IFrame(sendSeq, recvSeq, "AARQ", 0))
    /\ sendSeq' = NextSeq(sendSeq)
    /\ state' = "CONNECTING_DLMS"
    /\ UNCHANGED <<frame, retry, current, recvSeq, polls, errors, notified,
                   readings, holder, fifo, meter, faults>>

Fail ==
    /\ state' = "ERROR" /\ call' = "none"
    /\ errors' = (errors + 1) % CounterMod
    /\ UNCHANGED <<frame, retry, current, sendSeq, recvSeq, rx, polls,
                   notified, readings, holder, up, fifo, meter, faults>>

LinkRefused ==
    /\ state = "CONNECTING_HDLC" /\ call = "frame" /\ frame.ctrl = "DM"
    /\ Fail

\* No answer to SNRM, or a frame that is neither UA nor DM.
SnrmUnanswered ==
    /\ state = "CONNECTING_HDLC"
    /\ call = "timeout" \/ (call = "frame" /\ frame.ctrl = "I")

SnrmRetried ==
    /\ SnrmUnanswered /\ retry + 1 < MaxRetries
    /\ retry' = retry + 1
    /\ SendAndWait(Snrm)
    /\ UNCHANGED <<state, frame, current, sendSeq, recvSeq, polls, errors,
                   notified, readings, holder, fifo, meter, faults>>

SnrmGivenUp == SnrmUnanswered /\ retry + 1 >= MaxRetries /\ Fail

\* The 2 s backoff after an error.
BackedOff ==
    /\ state = "ERROR"
    /\ state' = "IDLE"
    /\ UNCHANGED <<call, frame, retry, current, sendSeq, recvSeq, rx, polls,
                   errors, notified, readings, holder, up, fifo, meter,
                   faults>>

Accepted == call = "frame" /\ frame.apdu = "AARE"

AssociatedNoRewind ==
    /\ state = "CONNECTING_DLMS" /\ Accepted
    /\ recvSeq' = RecvSeqAfter(frame)
    /\ state' = "CONNECTED" /\ call' = "none"
    /\ UNCHANGED <<current, frame, retry, sendSeq, rx, polls, errors,
                   notified, readings, holder, up, fifo, meter, faults>>
Associated ==
    /\ state = "CONNECTING_DLMS" /\ Accepted
    /\ recvSeq' = RecvSeqAfter(frame)
    /\ state' = "CONNECTED" /\ call' = "none" /\ current' = 1
    /\ UNCHANGED <<frame, retry, sendSeq, rx, polls, errors, notified,
                   readings, holder, up, fifo, meter, faults>>

\* No answer to AARQ, or one that is not an accepting AARE: disconnect.
AssociationFailed ==
    /\ state = "CONNECTING_DLMS"
    /\ call \in {"frame", "timeout"} /\ ~ Accepted
    /\ recvSeq' = IF call = "frame" THEN RecvSeqAfter(frame) ELSE recvSeq
    /\ SendAndWait(Disc)
    /\ state' = "DISCONNECTING"
    /\ UNCHANGED <<frame, retry, current, sendSeq, polls, errors, notified,
                   readings, holder, fifo, meter, faults>>

SendReadRequest ==
    /\ state = "CONNECTED" /\ current <= NumObis
    /\ SendAndWait(IFrame(sendSeq, recvSeq, "read", current))
    /\ sendSeq' = NextSeq(sendSeq)
    /\ state' = "REQUEST_SENT"
    /\ UNCHANGED <<frame, retry, current, recvSeq, polls, errors, notified,
                   readings, holder, fifo, meter, faults>>

\* handle_read_response_sn on what the wait returned.
OutcomeOfStaleFrame ==
    IF frame.apdu = "data"
    THEN [valid |-> TRUE, value |-> frame.entry, stamp |-> "now"]
    ELSE Unread
Outcome ==
    IF call = "frame" /\ frame.apdu = "data"
    THEN [valid |-> TRUE, value |-> frame.entry, stamp |-> "now"]
    ELSE Unread

ReadDone ==
    /\ state = "REQUEST_SENT" /\ call \in {"frame", "timeout"}
    /\ recvSeq' = IF call = "frame" THEN RecvSeqAfter(frame) ELSE recvSeq
    /\ state' = "CONNECTED" /\ call' = "none"
    /\ current' = current + 1
    /\ UNCHANGED <<frame, retry, sendSeq, rx, polls, errors, notified,
                   holder, up, fifo, meter>>

StoreUnlessTimedOut ==
    /\ holder = "free"
    /\ ReadDone
    /\ readings' = IF call = "timeout" THEN readings
                   ELSE [readings EXCEPT ![current] = Outcome]
    /\ UNCHANGED faults
StoreReading ==
    /\ holder = "free"
    /\ ReadDone
    /\ readings' = [readings EXCEPT ![current] = Outcome]
    /\ UNCHANGED faults

\* The mutex was not free within 100 ms: the reading is dropped.
StoreSkipped ==
    /\ holder = "reader" /\ SlowReaders /\ faults > 0
    /\ ReadDone
    /\ faults' = faults - 1
    /\ UNCHANGED readings

\* After the last entry: the callback gets client->readings, DISC is sent.
NotifyAndDisconnect ==
    /\ state = "CONNECTED" /\ current > NumObis
    /\ notified' = TRUE
    /\ SendAndWait(Disc)
    /\ state' = "DISCONNECTING"
    /\ UNCHANGED <<frame, retry, current, sendSeq, recvSeq, polls, errors,
                   readings, holder, fifo, meter, faults>>

\* Whatever came, or nothing: the cycle counts as completed.
FinishCycle ==
    /\ state = "DISCONNECTING" /\ call \in {"frame", "timeout"}
    /\ state' = "IDLE" /\ call' = "none"
    /\ polls' = (polls + 1) % CounterMod
    /\ UNCHANGED <<frame, retry, current, sendSeq, recvSeq, rx, errors,
                   notified, readings, holder, up, fifo, meter, faults>>

PollTask ==
    \/ FrameReceived \/ FrameDiscarded \/ WaitTimedOut
    \/ StartCycle \/ LinkEstablished \/ LinkRefused
    \/ SnrmRetried \/ SnrmGivenUp \/ BackedOff
    \/ Associated \/ AssociationFailed
    \/ SendReadRequest \/ StoreReading \/ StoreSkipped
    \/ NotifyAndDisconnect \/ FinishCycle

-----------------------------------------------------------------------------
(* dlms_client_get_reading / get_all_readings, called by other tasks.      *)

ReaderTakes ==
    /\ holder = "free" /\ holder' = "reader"
    /\ UNCHANGED <<client, readings, up, fifo, meter, faults>>

ReaderGives ==
    /\ holder = "reader" /\ holder' = "free"
    /\ UNCHANGED <<client, readings, up, fifo, meter, faults>>

-----------------------------------------------------------------------------
(* The meter, modelled from how the client uses it: an HDLC secondary that *)
(* answers requests in the order they come and passes over an I-frame that *)
(* is not the next in sequence.                                            *)

Reply(ctrl, apdu, entry) ==
    [ctrl |-> ctrl, ns |-> IF ctrl = "I" THEN vs ELSE 0, apdu |-> apdu,
     entry |-> entry, good |-> TRUE]

\* The reply reaches the UART whole, damaged or not at all.
Transmit(reply) ==
    \/ fifo' = Append(fifo, reply) /\ UNCHANGED faults
    \/ /\ faults > 0 /\ faults' = faults - 1
       /\ fifo' \in {fifo, Append(fifo, [reply EXCEPT !.good = FALSE])}

MeterLinks ==
    /\ Head(up).ctrl = "SNRM"
    /\ link' = "on" /\ vr' = 0 /\ vs' = 0
    /\ Transmit(Reply("UA", "none", 0))

MeterUnlinks ==
    /\ Head(up).ctrl = "DISC"
    /\ link' = "off" /\ UNCHANGED <<vr, vs>>
    /\ Transmit(Reply(IF link = "off" THEN "DM" ELSE "UA", "none", 0))

InSequence == Head(up).ctrl = "I" /\ link # "off" /\ Head(up).ns = vr

MeterAssociates ==
    /\ InSequence /\ Head(up).apdu = "AARQ"
    /\ link' = "associated" /\ vr' = NextSeq(vr) /\ vs' = NextSeq(vs)
    /\ Transmit(Reply("I", "AARE", 0))

MeterReads ==
    /\ InSequence /\ Head(up).apdu = "read"
    /\ vr' = NextSeq(vr) /\ vs' = NextSeq(vs) /\ UNCHANGED link
    /\ Transmit(IF link = "associated" THEN Reply("I", "data", Head(up).entry)
                ELSE Reply("I", "error", 0))

\* An I-frame on a link that is down, or out of sequence.
MeterRejects ==
    /\ Head(up).ctrl = "I" /\ ~ InSequence
    /\ IF link = "off" THEN Transmit(Reply("DM", "none", 0))
                       ELSE UNCHANGED <<fifo, faults>>
    /\ UNCHANGED meter

MeterAnswers ==
    /\ up # <<>>
    /\ up' = Tail(up)
    /\ \/ MeterLinks \/ MeterUnlinks \/ MeterAssociates
       \/ MeterReads \/ MeterRejects
    /\ UNCHANGED <<client, readings, holder>>

\* The meter is busy, rejects the association or has no such register.
MeterRefuses ==
    /\ up # <<>> /\ faults > 0
    /\ up' = Tail(up) /\ faults' = faults - 1
    /\ \/ /\ Head(up).ctrl = "SNRM"
          /\ fifo' = Append(fifo, Reply("DM", "none", 0))
          /\ link' = "off" /\ UNCHANGED <<vr, vs>>
       \/ /\ InSequence
          /\ fifo' = Append(fifo, Reply("I",
                        IF Head(up).apdu = "AARQ" THEN "AARE-rejected"
                                                  ELSE "error", 0))
          /\ vr' = NextSeq(vr) /\ vs' = NextSeq(vs) /\ UNCHANGED link
    /\ UNCHANGED <<client, readings, holder>>

RequestLost ==
    /\ up # <<>> /\ faults > 0
    /\ up' = Tail(up) /\ faults' = faults - 1
    /\ UNCHANGED <<client, readings, holder, fifo, meter>>

-----------------------------------------------------------------------------
Next ==
    \/ PollTask
    \/ ReaderTakes \/ ReaderGives
    \/ MeterAnswers \/ MeterRefuses \/ RequestLost

\* The poll task is never starved, a reader gives the mutex back and the
\* blocked writer is the one it goes to, the meter works off its requests.
Fairness ==
    /\ WF_vars(PollTask) /\ SF_vars(StoreReading)
    /\ WF_vars(ReaderGives) /\ WF_vars(MeterAnswers)

Spec     == Init /\ [][Next]_vars
FairSpec == Spec /\ Fairness
-----------------------------------------------------------------------------
(* Correctness                                                             *)

\* A reading marked valid holds the value of its own register: an answer is
\* never filed under another entry (do_poll_cycle pairs request and answer
\* by position alone, with neither N(R) nor an invoke-id checked).
Attribution == \A e \in Entries : readings[e].valid => readings[e].value = e

\* As long as nothing has gone wrong, the counters of client and meter agree
\* whenever the client is about to send: N(S) is the frame the meter waits
\* for, N(R) acknowledges all it has sent (send_seq, recv_seq, & 0x07).
SequenceAgreement ==
    faults = MaxFaults /\ state = "CONNECTED" => sendSeq = vr /\ recvSeq = vs

\* The callback never delivers, as valid, a reading of an earlier cycle:
\* a slot that was not read in this one has been marked invalid.
CallbackDeliversFresh ==
    [][NotifyAndDisconnect =>
         \A e \in Entries : readings[e].valid => readings[e].stamp = "now"]_vars

\* A cycle that has begun ends, however the line behaves: no wait, retry or
\* mutex keeps do_poll_cycle from returning to IDLE.
CycleEnds == state # "IDLE" ~> state = "IDLE"

\* Once the line, the meter and the readers stop failing, every cycle
\* reads every entry: nothing a fault leaves behind (frames in the UART,
\* sequence numbers, the meter's link state) outlives the cycle it hit.
Recovery ==
    <>[](state = "IDLE" =>
           \A e \in Entries :
              readings[e] = [valid |-> TRUE, value |-> e, stamp |-> "now"])

\* Where the cycle stands, and what a slot is worth to a reader.
Cursor ==
    CASE state \in {"IDLE", "ERROR", "DISCONNECTING"} -> 0
      [] state \in {"CONNECTING_HDLC", "CONNECTING_DLMS"} -> 1
      [] OTHER -> current

Worth(e) ==
    CASE ~ readings[e].valid -> "unread"
      [] readings[e].valid /\ readings[e].value # e -> "another's"
      [] OTHER -> IF readings[e].stamp = "now" THEN "fresh" ELSE "stale"

Promise == INSTANCE PollPromise WITH
    cursor <- Cursor, slot <- [e \in Entries |-> Worth(e)]

\* The poll task implements the promise made to its readers.
KeepsPromise == Promise!Spec
=============================================================================
