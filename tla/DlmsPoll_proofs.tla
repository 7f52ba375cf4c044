-------------------------- MODULE DlmsPoll_proofs --------------------------
(* Theorems about DlmsPoll, for any number of entries and any bounds.       *)
EXTENDS DlmsPoll, SequenceTheorems, TLAPS

-----------------------------------------------------------------------------
(* The receive buffer                                                      *)

\* What wait_for_frame looks at after reading n frames is a non-empty
\* sequence of frames, and so is what it leaves behind.
LEMMA BufferedFrames ==
    ASSUME TypeOK, NEW n \in 1 .. Len(fifo)
    PROVE  /\ Buffered(n) \in Seq(Frame)
           /\ Head(Buffered(n)) \in Frame
           /\ Tail(Buffered(n)) \in Seq(Frame)
           /\ SubSeq(fifo, n + 1, Len(fifo)) \in Seq(Frame)
<1>1. /\ fifo \in Seq(Frame) /\ rx \in Seq(Frame)
      /\ Len(fifo) \in Nat /\ n \in Nat /\ n <= Len(fifo) /\ 1 <= n
    BY LenProperties DEF TypeOK
<1>2. \A i \in 1 .. Len(fifo) : fifo[i] \in Frame
    BY <1>1, ElementOfSeq
<1>3. /\ SubSeq(fifo, 1, n) \in Seq(Frame)
      /\ Len(SubSeq(fifo, 1, n)) = n
  <2>1. \A i \in 1 .. n : fifo[i] \in Frame
      BY <1>1, <1>2
  <2>2. QED
      BY <1>1, <2>1, SubSeqProperties
<1>4. SubSeq(fifo, n + 1, Len(fifo)) \in Seq(Frame)
  <2>1. \A i \in n + 1 .. Len(fifo) : fifo[i] \in Frame
      BY <1>1, <1>2
  <2>2. QED
      BY <1>1, <2>1, SubSeqProperties
<1>5. /\ Buffered(n) \in Seq(Frame)
      /\ Len(Buffered(n)) = Len(rx) + n
    BY <1>1, <1>3, ConcatProperties DEF Buffered
<1>6. Buffered(n) # <<>>
    BY <1>1, <1>5, EmptySeq, LenProperties
<1>7. QED
    BY <1>4, <1>5, <1>6, HeadTailProperties

-----------------------------------------------------------------------------
(* Types                                                                   *)

LEMMA NextSeqTyped ==
    ASSUME NEW n \in Sequence
    PROVE  NextSeq(n) \in Sequence
BY PollAssumption DEF Sequence, NextSeq

LEMMA RecvSeqTyped ==
    ASSUME TypeOK
    PROVE  RecvSeqAfter(frame) \in Sequence
BY NextSeqTyped DEF TypeOK, RecvSeqAfter, Frame

\* A request joins the queue and the buffer is emptied.
LEMMA SendTyped ==
    ASSUME TypeOK, NEW req \in Request, SendAndWait(req)
    PROVE  /\ up' \in Seq(Request) /\ rx' \in Seq(Frame)
           /\ call' \in {"none", "waiting", "frame", "timeout"}
<1>1. up' \in Seq(Request)
    BY AppendProperties DEF TypeOK, SendAndWait
<1>2. QED
    BY <1>1, EmptySeq DEF SendAndWait

LEMMA RequestsTyped ==
    ASSUME TypeOK
    PROVE  /\ Snrm \in Request /\ Disc \in Request
           /\ IFrame(sendSeq, recvSeq, "AARQ", 0) \in Request
           /\ current <= NumObis =>
                IFrame(sendSeq, recvSeq, "read", current) \in Request
BY PollAssumption DEF TypeOK, Snrm, Disc, IFrame, Request, Sequence

\* What the meter may send back.
LEMMA ReplyTyped ==
    ASSUME TypeOK, up # <<>>
    PROVE  /\ Head(up) \in Request /\ Tail(up) \in Seq(Request)
           /\ \A ctrl \in {"UA", "DM", "I"} :
                \A apdu \in {"none", "AARE", "AARE-rejected", "data", "error"} :
                   \A entry \in 0 .. NumObis : Reply(ctrl, apdu, entry) \in Frame
<1>1. Head(up) \in Request /\ Tail(up) \in Seq(Request)
    BY HeadTailProperties DEF TypeOK
<1>2. 0 \in Sequence /\ vs \in Sequence
    BY PollAssumption DEF TypeOK, Sequence
<1>3. QED
    BY <1>1, <1>2 DEF Reply, Frame

LEMMA TransmitTyped ==
    ASSUME TypeOK, NEW reply \in Frame, Transmit(reply)
    PROVE  fifo' \in Seq(Frame) /\ faults' \in 0 .. MaxFaults
<1>1. [reply EXCEPT !.good = FALSE] \in Frame
    BY DEF Frame
<1>2. /\ Append(fifo, reply) \in Seq(Frame)
      /\ Append(fifo, [reply EXCEPT !.good = FALSE]) \in Seq(Frame)
    BY <1>1, AppendProperties DEF TypeOK
<1>3. fifo' \in {fifo, Append(fifo, reply),
                  Append(fifo, [reply EXCEPT !.good = FALSE])}
    BY DEF Transmit
<1>4. fifo' \in Seq(Frame)
    BY <1>2, <1>3 DEF TypeOK
<1>5. faults' = faults \/ (faults > 0 /\ faults' = faults - 1)
    BY DEF Transmit
<1>6. faults' \in 0 .. MaxFaults
    BY <1>5, PollAssumption DEF TypeOK
<1>7. QED
    BY <1>4, <1>6

LEMMA InitTyped == Init => TypeOK
<1>1. 0 \in Sequence /\ 0 \in 0 .. NumObis /\ 0 \in 0 .. CounterMod - 1
      /\ 0 \in 0 .. MaxRetries - 1 /\ 1 \in 1 .. NumObis + 1
      /\ MaxFaults \in 0 .. MaxFaults
    BY PollAssumption DEF Sequence
<1>2. NoFrame \in Frame /\ Unread \in Reading
    BY <1>1 DEF NoFrame, Frame, Unread, Reading
<1>3. QED
    BY <1>1, <1>2, EmptySeq DEF Init, TypeOK, States

\* A request is only ever sent for an entry: without it the loop index could
\* leave its range, so that TypeOK alone is not inductive.
InRange == state = "REQUEST_SENT" => current \in Entries

\* Client, reader and meter steps keep every variable in its type.
LEMMA StepTyped == TypeOK /\ InRange /\ [Next]_vars => TypeOK'
<1> SUFFICES ASSUME TypeOK, InRange, [Next]_vars PROVE TypeOK'
    OBVIOUS
<1>1. CASE FrameReceived
  <2>1. /\ frame' \in Frame /\ rx' \in Seq(Frame) /\ fifo' \in Seq(Frame)
      BY <1>1, BufferedFrames DEF FrameReceived, ReadUart
  <2>2. QED
      BY <1>1, <2>1 DEF TypeOK, FrameReceived, meter
<1>2. CASE FrameDiscarded
  <2>1. rx' \in Seq(Frame) /\ fifo' \in Seq(Frame)
      BY <1>2, BufferedFrames DEF FrameDiscarded, ReadUart
  <2>2. QED
      BY <1>2, <2>1 DEF TypeOK, FrameDiscarded, meter
<1>3. CASE WaitTimedOut
  <2>1. faults' \in 0 .. MaxFaults
      BY <1>3, PollAssumption DEF TypeOK, WaitTimedOut
  <2>2. QED
      BY <1>3, <2>1 DEF TypeOK, WaitTimedOut, meter
<1>4. CASE StartCycle
  <2>1. /\ up' \in Seq(Request) /\ rx' \in Seq(Frame)
        /\ call' \in {"none", "waiting", "frame", "timeout"}
      BY <1>4, RequestsTyped, SendTyped DEF StartCycle
  <2>2. 0 \in Sequence /\ 0 \in 0 .. MaxRetries - 1
      BY PollAssumption DEF Sequence
  <2>3. readings' \in [Entries -> Reading]
      BY <1>4 DEF StartCycle, TypeOK, Aged, Reading
  <2>4. QED
      BY <1>4, <2>1, <2>2, <2>3, EmptySeq
      DEF TypeOK, StartCycle, ResetProtocol, States, meter
<1>5. CASE LinkEstablished
  <2>1. /\ up' \in Seq(Request) /\ rx' \in Seq(Frame)
        /\ call' \in {"none", "waiting", "frame", "timeout"}
      BY <1>5, RequestsTyped, SendTyped DEF LinkEstablished
  <2>2. QED
      BY <1>5, <2>1, NextSeqTyped DEF TypeOK, LinkEstablished, States, meter
<1>6. CASE Fail
  <2>1. (errors + 1) % CounterMod \in 0 .. CounterMod - 1
      BY PollAssumption DEF TypeOK
  <2>2. QED
      BY <1>6, <2>1 DEF TypeOK, Fail, States, meter
<1>7. CASE SnrmRetried
  <2>1. /\ up' \in Seq(Request) /\ rx' \in Seq(Frame)
        /\ call' \in {"none", "waiting", "frame", "timeout"}
      BY <1>7, RequestsTyped, SendTyped DEF SnrmRetried
  <2>2. retry' \in 0 .. MaxRetries - 1
      BY <1>7, PollAssumption DEF TypeOK, SnrmRetried
  <2>3. QED
      BY <1>7, <2>1, <2>2 DEF TypeOK, SnrmRetried, meter
<1>8. CASE BackedOff
    BY <1>8 DEF TypeOK, BackedOff, States, meter
<1>9. CASE Associated
  <2>1. current' \in 1 .. NumObis + 1
      BY <1>9, PollAssumption DEF Associated
  <2>2. QED
      BY <1>9, <2>1, RecvSeqTyped DEF TypeOK, Associated, States, meter
<1>10. CASE AssociationFailed
  <2>1. /\ up' \in Seq(Request) /\ rx' \in Seq(Frame)
        /\ call' \in {"none", "waiting", "frame", "timeout"}
      BY <1>10, RequestsTyped, SendTyped DEF AssociationFailed
  <2>2. QED
      BY <1>10, <2>1, RecvSeqTyped
      DEF TypeOK, AssociationFailed, States, meter
<1>11. CASE SendReadRequest
  <2>1. /\ up' \in Seq(Request) /\ rx' \in Seq(Frame)
        /\ call' \in {"none", "waiting", "frame", "timeout"}
      BY <1>11, RequestsTyped, SendTyped DEF SendReadRequest
  <2>2. QED
      BY <1>11, <2>1, NextSeqTyped DEF TypeOK, SendReadRequest, States, meter
<1>12. CASE StoreReading \/ StoreSkipped
  <2>1. ReadDone
      BY <1>12 DEF StoreReading, StoreSkipped
  <2>2. current' \in 1 .. NumObis + 1
    <3>1. current \in Entries
        BY <2>1 DEF ReadDone, InRange
    <3>2. QED
        BY <2>1, <3>1, PollAssumption DEF Entries, ReadDone
  <2>3. Outcome \in Reading
      BY PollAssumption DEF TypeOK, Outcome, Unread, Reading, Frame
  <2>4. readings' \in [Entries -> Reading]
      BY <1>12, <2>3 DEF TypeOK, StoreReading, StoreSkipped
  <2>5. faults' \in 0 .. MaxFaults
      BY <1>12, PollAssumption DEF TypeOK, StoreReading, StoreSkipped
  <2>6. QED
      BY <2>1, <2>2, <2>4, <2>5, RecvSeqTyped DEF TypeOK, ReadDone, States, meter
<1>13. CASE NotifyAndDisconnect
  <2>1. /\ up' \in Seq(Request) /\ rx' \in Seq(Frame)
        /\ call' \in {"none", "waiting", "frame", "timeout"}
      BY <1>13, RequestsTyped, SendTyped DEF NotifyAndDisconnect
  <2>2. QED
      BY <1>13, <2>1 DEF TypeOK, NotifyAndDisconnect, States, meter
<1>14. CASE FinishCycle
  <2>1. (polls + 1) % CounterMod \in 0 .. CounterMod - 1
      BY PollAssumption DEF TypeOK
  <2>2. QED
      BY <1>14, <2>1 DEF TypeOK, FinishCycle, States, meter
<1>15. CASE ReaderTakes \/ ReaderGives
    BY <1>15 DEF TypeOK, ReaderTakes, ReaderGives, client, meter
<1>16. CASE MeterAnswers
  <2>1. up # <<>> /\ up' = Tail(up)
      BY <1>16 DEF MeterAnswers
  <2>2. Head(up).entry \in 0 .. NumObis /\ 0 \in 0 .. NumObis /\ 0 \in Sequence
      BY <2>1, ReplyTyped, PollAssumption DEF Request, Sequence
  <2>3. ASSUME NEW reply \in Frame, Transmit(reply)
        PROVE  fifo' \in Seq(Frame) /\ faults' \in 0 .. MaxFaults
      BY <2>3, TransmitTyped
  <2>4. /\ link' \in {"off", "on", "associated"}
        /\ vr' \in Sequence /\ vs' \in Sequence
        /\ fifo' \in Seq(Frame) /\ faults' \in 0 .. MaxFaults
    <3>1. CASE MeterLinks
        BY <3>1, <2>1, <2>2, <2>3, ReplyTyped DEF MeterLinks
    <3>2. CASE MeterUnlinks
        BY <3>2, <2>1, <2>2, <2>3, ReplyTyped DEF MeterUnlinks, TypeOK
    <3>3. CASE MeterAssociates
        BY <3>3, <2>1, <2>2, <2>3, ReplyTyped, NextSeqTyped
        DEF MeterAssociates, TypeOK
    <3>4. CASE MeterReads
        BY <3>4, <2>1, <2>2, <2>3, ReplyTyped, NextSeqTyped
        DEF MeterReads, TypeOK
    <3>5. CASE MeterRejects
        BY <3>5, <2>1, <2>2, <2>3, ReplyTyped DEF MeterRejects, TypeOK, meter
    <3>6. QED
        BY <1>16, <3>1, <3>2, <3>3, <3>4, <3>5 DEF MeterAnswers
  <2>5. QED
      BY <1>16, <2>1, <2>4, ReplyTyped DEF TypeOK, MeterAnswers, client
<1>17. CASE MeterRefuses
  <2>1. up # <<>> /\ up' = Tail(up)
      BY <1>17 DEF MeterRefuses
  <2>2. \A reply \in Frame : Append(fifo, reply) \in Seq(Frame)
      BY AppendProperties DEF TypeOK
  <2>3. 0 \in 0 .. NumObis
      BY PollAssumption
  <2>4. fifo' \in Seq(Frame)
      BY <1>17, <2>1, <2>2, <2>3, ReplyTyped DEF MeterRefuses
  <2>5. faults' \in 0 .. MaxFaults
      BY <1>17, PollAssumption DEF TypeOK, MeterRefuses
  <2>6. /\ link' \in {"off", "on", "associated"}
        /\ vr' \in Sequence /\ vs' \in Sequence
      BY <1>17, NextSeqTyped DEF TypeOK, MeterRefuses
  <2>7. QED
      BY <1>17, <2>1, <2>4, <2>5, <2>6, ReplyTyped
      DEF TypeOK, MeterRefuses, client
<1>18. CASE RequestLost
  <2>1. faults' \in 0 .. MaxFaults
      BY <1>18, PollAssumption DEF TypeOK, RequestLost
  <2>2. QED
      BY <1>18, <2>1, ReplyTyped DEF TypeOK, RequestLost, client, meter
<1>19. CASE UNCHANGED vars
    BY <1>19 DEF TypeOK, vars, client, meter
<1>20. QED
    BY <1>1, <1>2, <1>3, <1>4, <1>5, <1>6, <1>7, <1>8, <1>9, <1>10, <1>11,
       <1>12, <1>13, <1>14, <1>15, <1>16, <1>17, <1>18, <1>19
    DEF Next, PollTask, LinkRefused, SnrmGivenUp

LEMMA InRangeKept == TypeOK /\ InRange /\ [Next]_vars => InRange'
<1> SUFFICES ASSUME TypeOK, InRange, [Next]_vars, state' = "REQUEST_SENT"
             PROVE  current' \in Entries
    BY DEF InRange
<1>1. CASE SendReadRequest
    BY <1>1, PollAssumption DEF SendReadRequest, TypeOK, Entries
<1>2. CASE UNCHANGED <<state, current>>
    BY <1>2 DEF InRange
<1>3. QED
    BY <1>1, <1>2
    DEF Next, PollTask, vars, client, FrameReceived, FrameDiscarded,
        WaitTimedOut, StartCycle, LinkEstablished, LinkRefused, Fail,
        SnrmRetried, SnrmGivenUp, BackedOff, Associated, AssociationFailed,
        StoreReading, StoreSkipped, ReadDone, NotifyAndDisconnect,
        FinishCycle, ReaderTakes, ReaderGives, MeterAnswers, MeterRefuses,
        RequestLost

\* Every variable keeps its type, whatever the line, the meter and the
\* readers do: the sequence numbers stay below SeqMod, the SNRM retries
\* below MaxRetries, the loop index within one of the entries.
THEOREM TypeCorrect == Spec => [](TypeOK /\ InRange)
<1>1. Init => TypeOK /\ InRange
    BY InitTyped DEF Init, InRange
<1>2. TypeOK /\ InRange /\ [Next]_vars => (TypeOK /\ InRange)'
    BY StepTyped, InRangeKept
<1>3. QED
    BY <1>1, <1>2, PTL DEF Spec

-----------------------------------------------------------------------------
(* Attribution, for a meter that answers within the timeout.  The client   *)
(* pairs question and answer by position, so what has to be shown is that  *)
(* at most one of them is ever under way, and that it is about `current'.  *)

OnTime == ~ LateReplies /\ ReceiveTimeout > 0

Quiet == up = <<>> /\ fifo = <<>>

\* Between the steps of a cycle no wait is pending.
CallShape == state \in {"IDLE", "ERROR", "CONNECTED"} => call = "none"

OneInFlight ==
    /\ call # "waiting" => Quiet
    /\ call = "waiting" => /\ rx = <<>>
                           /\ \/ Quiet
                              \/ Len(up) = 1 /\ fifo = <<>>
                              \/ up = <<>> /\ Len(fifo) = 1

About(f) == f.apdu = "data" => f.entry = current

ForCurrent ==
    state = "REQUEST_SENT" =>
        /\ up # <<>> => Head(up).entry = current
        /\ fifo # <<>> => About(Head(fifo))
        /\ call = "frame" => About(frame)

PairInv == CallShape /\ OneInFlight /\ ForCurrent /\ Attribution

-----------------------------------------------------------------------------
LEMMA AppendToEmpty ==
    ASSUME NEW S, NEW x \in S, NEW q, q = <<>>
    PROVE  /\ Append(q, x) # <<>> /\ Len(Append(q, x)) = 1
           /\ Head(Append(q, x)) = x
<1>1. <<>> \in Seq(S) /\ Len(<<>>) = 0
    BY EmptySeq
<1>2. /\ Append(q, x) \in Seq(S) /\ Append(q, x) # <<>>
      /\ Len(Append(q, x)) = 1 /\ Append(q, x)[1] = x
    BY <1>1, AppendProperties
<1>3. QED
    BY <1>2

LEMMA TailOfOne ==
    ASSUME NEW S, NEW q \in Seq(S), Len(q) = 1
    PROVE  Tail(q) = <<>> /\ q # <<>>
<1>1. q # <<>>
    BY EmptySeq
<1>2. Tail(q) \in Seq(S) /\ Len(Tail(q)) = 0
    BY <1>1, HeadTailProperties
<1>3. QED
    BY <1>1, <1>2, EmptySeq

\* With one frame under way and an empty buffer, a read of the UART finds
\* that frame, and nothing is left.
LEMMA OneFrameRead ==
    ASSUME TypeOK, Len(fifo) = 1, rx = <<>>, NEW n \in 1 .. Len(fifo)
    PROVE  /\ Buffered(n) = fifo /\ Tail(Buffered(n)) = <<>>
           /\ SubSeq(fifo, n + 1, Len(fifo)) = <<>>
<1>1. n = 1 /\ fifo \in Seq(Frame)
    BY DEF TypeOK
<1>2. SubSeq(fifo, 1, n) = fifo
    BY <1>1, SubSeqFull
<1>3. Buffered(n) = fifo
    BY <1>1, <1>2, ConcatEmptySeq DEF Buffered
<1>4. SubSeq(fifo, n + 1, Len(fifo)) = <<>>
    BY <1>1, SubSeqEmpty
<1>5. QED
    BY <1>1, <1>3, <1>4, TailOfOne

\* A request sent on a quiet line is the only one.
LEMMA SendKeepsOne ==
    ASSUME TypeOK, NEW req \in Request, SendAndWait(req), up = <<>>, fifo' = <<>>
    PROVE  /\ OneInFlight' /\ call' = "waiting" /\ fifo' = <<>>
           /\ up' # <<>> /\ Head(up') = req
<1>1. up' # <<>> /\ Len(up') = 1 /\ Head(up') = req
    BY AppendToEmpty DEF SendAndWait
<1>2. QED
    BY <1>1 DEF SendAndWait, OneInFlight, Quiet

LEMMA PairInit == Init => PairInv
BY DEF Init, PairInv, CallShape, OneInFlight, Quiet, ForCurrent, Attribution,
       Unread

\* Actions that end a wait's processing without touching line or readings.
LEMMA PairKeptByClient ==
    ASSUME ReceiveTimeout > 0, WaitTimedOut => ~ Late,
           TypeOK, InRange, PairInv, PollTask
    PROVE  PairInv'
<1> USE DEF PairInv
<1>1. CASE FrameReceived
  <2>1. /\ call = "waiting" /\ fifo # <<>>
        /\ \E n \in 1 .. Len(fifo) : /\ frame' = Head(Buffered(n))
                                     /\ rx' = Buffered(n) /\ ReadUart(n)
      BY <1>1, EmptySeq DEF FrameReceived, Listening
  <2>2. Len(fifo) = 1 /\ rx = <<>> /\ up = <<>>
      BY <2>1, EmptySeq DEF OneInFlight, Quiet, TypeOK
  <2>3. frame' = Head(fifo) /\ fifo' = <<>>
      BY <2>1, <2>2, OneFrameRead DEF ReadUart
  <2>4. call' = "frame" /\ UNCHANGED <<state, up, current, readings>>
      BY <1>1 DEF FrameReceived
  <2>5. state \notin {"IDLE", "ERROR", "CONNECTED"}
      BY <2>1 DEF CallShape
  <2>6. QED
      BY <2>1, <2>2, <2>3, <2>4, <2>5
      DEF CallShape, OneInFlight, Quiet, ForCurrent, About, Attribution
<1>2. CASE FrameDiscarded
  <2>1. /\ call = "waiting" /\ fifo # <<>>
        /\ \E n \in 1 .. Len(fifo) : /\ rx' = Tail(Buffered(n))
                                     /\ ReadUart(n)
      BY <1>2, EmptySeq DEF FrameDiscarded, Listening
  <2>2. Len(fifo) = 1 /\ rx = <<>> /\ up = <<>>
      BY <2>1, EmptySeq DEF OneInFlight, Quiet, TypeOK
  <2>3. rx' = <<>> /\ fifo' = <<>>
      BY <2>1, <2>2, OneFrameRead DEF ReadUart
  <2>4. UNCHANGED <<state, call, frame, up, current, readings>>
      BY <1>2 DEF FrameDiscarded
  <2>5. QED
      BY <2>1, <2>2, <2>3, <2>4
      DEF CallShape, OneInFlight, Quiet, ForCurrent, About, Attribution
<1>3. CASE WaitTimedOut
  <2>1. Quiet \/ ~ Listening
      BY <1>3 DEF Late, Quiet
  <2>2. Quiet
      BY <1>3, <2>1 DEF WaitTimedOut, Listening
  <2>3. call = "waiting" /\ call' = "timeout"
        /\ UNCHANGED <<state, frame, up, fifo, current, readings>>
      BY <1>3 DEF WaitTimedOut
  <2>4. QED
      BY <2>2, <2>3
      DEF CallShape, OneInFlight, Quiet, ForCurrent, About, Attribution
<1>4. CASE StartCycle
  <2>1. up = <<>> /\ fifo' = <<>> /\ SendAndWait(Snrm)
      BY <1>4 DEF StartCycle, ResetProtocol
  <2>2. OneInFlight'
      BY <2>1, SendKeepsOne, RequestsTyped
  <2>3. Attribution'
      BY <1>4 DEF StartCycle, Attribution, Aged, TypeOK, Reading
  <2>4. QED
      BY <1>4, <2>2, <2>3 DEF StartCycle, CallShape, ForCurrent
<1>5. CASE \/ LinkEstablished \/ SnrmRetried \/ AssociationFailed
           \/ NotifyAndDisconnect
  <2>1. call # "waiting" /\ UNCHANGED <<fifo, readings>>
      BY <1>5 DEF LinkEstablished, SnrmRetried, SnrmUnanswered,
                  AssociationFailed, NotifyAndDisconnect, CallShape
  <2>2. \E req \in Request : SendAndWait(req)
      BY <1>5, RequestsTyped
      DEF LinkEstablished, SnrmRetried, AssociationFailed, NotifyAndDisconnect
  <2>3. up = <<>> /\ fifo' = <<>>
      BY <2>1 DEF OneInFlight, Quiet
  <2>4. OneInFlight'
      BY <2>2, <2>3, SendKeepsOne
  <2>5. state' \in {"CONNECTING_HDLC", "CONNECTING_DLMS", "DISCONNECTING"}
      BY <1>5 DEF LinkEstablished, SnrmRetried, SnrmUnanswered,
                  AssociationFailed, NotifyAndDisconnect
  <2>6. QED
      BY <2>1, <2>4, <2>5 DEF CallShape, ForCurrent, Attribution
<1>6. CASE Fail /\ call # "waiting"
    BY <1>6 DEF Fail, CallShape, OneInFlight, Quiet, ForCurrent, Attribution
<1>7. CASE BackedOff
    BY <1>7 DEF BackedOff, CallShape, OneInFlight, Quiet, ForCurrent,
                Attribution
<1>8. CASE Associated
    BY <1>8 DEF Associated, Accepted, CallShape, OneInFlight, Quiet,
                ForCurrent, Attribution
<1>9. CASE SendReadRequest
  <2> DEFINE req == IFrame(sendSeq, recvSeq, "read", current)
  <2>1. req \in Request /\ SendAndWait(req) /\ req.entry = current
      BY <1>9, RequestsTyped DEF SendReadRequest, IFrame
  <2>2. up = <<>> /\ fifo' = <<>> /\ UNCHANGED <<current, readings>>
      BY <1>9 DEF SendReadRequest, CallShape, OneInFlight, Quiet
  <2>3. OneInFlight' /\ call' = "waiting" /\ Head(up') = req
      BY <2>1, <2>2, SendKeepsOne
  <2>4. QED
      BY <1>9, <2>1, <2>2, <2>3
      DEF SendReadRequest, CallShape, ForCurrent, Attribution
<1>10. CASE StoreReading \/ StoreSkipped
  <2>1. ReadDone
      BY <1>10 DEF StoreReading, StoreSkipped
  <2>2. current \in Entries
      BY <2>1 DEF ReadDone, InRange
  <2>3. Outcome.valid => Outcome.value = current
      BY <2>1 DEF Outcome, Unread, ReadDone, ForCurrent, About
  <2>4. Attribution'
      BY <1>10, <2>2, <2>3
      DEF Attribution, StoreReading, StoreSkipped, TypeOK
  <2>5. QED
      BY <2>1, <2>4 DEF ReadDone, CallShape, OneInFlight, Quiet, ForCurrent
<1>11. CASE FinishCycle
    BY <1>11 DEF FinishCycle, CallShape, OneInFlight, Quiet, ForCurrent,
                 Attribution
<1>12. QED
    BY <1>1, <1>2, <1>3, <1>4, <1>5, <1>6, <1>7, <1>8, <1>9, <1>10, <1>11
    DEF PollTask, LinkRefused, SnrmGivenUp, SnrmUnanswered

\* What the meter sends answers the one request it has taken.
LEMMA PairKeptByMeter ==
    ASSUME TypeOK, PairInv, MeterAnswers \/ MeterRefuses \/ RequestLost
    PROVE  PairInv'
<1> USE DEF PairInv
<1>1. /\ up # <<>> /\ up' = Tail(up)
      /\ UNCHANGED <<state, call, frame, current, rx, readings>>
    BY DEF MeterAnswers, MeterRefuses, RequestLost, client
<1>2. call = "waiting" /\ Len(up) = 1 /\ fifo = <<>> /\ rx = <<>>
    BY <1>1, EmptySeq DEF OneInFlight, Quiet, TypeOK
<1>3. up' = <<>>
    BY <1>1, <1>2, TailOfOne DEF TypeOK
<1> DEFINE Answer(f) == /\ f \in Frame
                        /\ f.apdu = "data" => f.entry = Head(up).entry
<1>4. fifo' = <<>> \/ \E f \in Frame : Answer(f) /\ fifo' = Append(fifo, f)
  <2>1. \A reply \in Frame :
           /\ [reply EXCEPT !.good = FALSE] \in Frame
           /\ [reply EXCEPT !.good = FALSE].apdu = reply.apdu
           /\ [reply EXCEPT !.good = FALSE].entry = reply.entry
      BY DEF Frame
  <2>2. ASSUME NEW reply \in Frame, Answer(reply), Transmit(reply)
        PROVE  fifo' = <<>> \/ \E f \in Frame : Answer(f) /\ fifo' = Append(fifo, f)
      BY <1>2, <2>1, <2>2 DEF Transmit
  <2>3. /\ Head(up) \in Request /\ Head(up).entry \in 0 .. NumObis
        /\ 0 \in 0 .. NumObis
      BY <1>1, ReplyTyped, PollAssumption DEF Request
  <2>4. CASE MeterAnswers
    <3>1. CASE MeterLinks
        BY <3>1, <1>1, <2>2, <2>3, ReplyTyped DEF MeterLinks, Reply
    <3>2. CASE MeterUnlinks
        BY <3>2, <1>1, <2>2, <2>3, ReplyTyped DEF MeterUnlinks, Reply
    <3>3. CASE MeterAssociates
        BY <3>3, <1>1, <2>2, <2>3, ReplyTyped DEF MeterAssociates, Reply
    <3>4. CASE MeterReads
        BY <3>4, <1>1, <2>2, <2>3, ReplyTyped DEF MeterReads, Reply
    <3>5. CASE MeterRejects
        BY <3>5, <1>1, <1>2, <2>2, <2>3, ReplyTyped DEF MeterRejects, Reply
    <3>6. QED
        BY <2>4, <3>1, <3>2, <3>3, <3>4, <3>5 DEF MeterAnswers
  <2>5. CASE MeterRefuses
    <3>1. CASE fifo' = Append(fifo, Reply("DM", "none", 0))
        BY <3>1, <1>1, <2>3, ReplyTyped DEF Reply
    <3>2. CASE fifo' = Append(fifo, Reply("I", "AARE-rejected", 0))
        BY <3>2, <1>1, <2>3, ReplyTyped DEF Reply
    <3>3. CASE fifo' = Append(fifo, Reply("I", "error", 0))
        BY <3>3, <1>1, <2>3, ReplyTyped DEF Reply
    <3>4. QED
        BY <2>5, <3>1, <3>2, <3>3 DEF MeterRefuses
  <2>6. CASE RequestLost
      BY <2>6, <1>2 DEF RequestLost
  <2>7. QED
      BY <2>4, <2>5, <2>6
<1>5. fifo' = <<>> \/ (Len(fifo') = 1 /\ Answer(Head(fifo')))
    BY <1>2, <1>4, AppendToEmpty
<1>6. OneInFlight'
    BY <1>1, <1>2, <1>3, <1>5 DEF OneInFlight, Quiet
<1>7. ForCurrent'
    BY <1>1, <1>2, <1>3, <1>5 DEF ForCurrent, About
<1>8. QED
    BY <1>1, <1>6, <1>7 DEF CallShape, Attribution

LEMMA PairKept ==
    ASSUME OnTime
    PROVE  TypeOK /\ InRange /\ PairInv /\ [Next]_vars => PairInv'
<1> SUFFICES ASSUME TypeOK, InRange, PairInv, [Next]_vars PROVE PairInv'
    OBVIOUS
<1>1. CASE PollTask
  <2>1. WaitTimedOut => ~ Late
      BY DEF WaitTimedOut, OnTime
  <2>2. QED
      BY <1>1, <2>1, PairKeptByClient DEF OnTime
<1>2. CASE MeterAnswers \/ MeterRefuses \/ RequestLost
    BY <1>2, PairKeptByMeter
<1>3. CASE UNCHANGED <<client, readings, up, fifo>>
    BY <1>3 DEF client, PairInv, CallShape, OneInFlight, Quiet, ForCurrent,
                About, Attribution
<1>4. QED
    BY <1>1, <1>2, <1>3 DEF Next, ReaderTakes, ReaderGives, vars

\* With a meter that answers within the receive timeout, a valid reading
\* always carries its own register's value, whatever is lost or damaged on
\* the line and for any number of entries.
THEOREM AttributionHolds ==
    ASSUME OnTime
    PROVE  Spec => []Attribution
<1>1. Init => TypeOK /\ InRange /\ PairInv
    BY InitTyped, PairInit DEF Init, InRange
<1>2. TypeOK /\ InRange /\ PairInv /\ [Next]_vars
        => (TypeOK /\ InRange /\ PairInv)'
    BY StepTyped, InRangeKept, PairKept
<1>3. PairInv => Attribution
    BY DEF PairInv
<1>4. QED
    BY <1>1, <1>2, <1>3, PTL DEF Spec

-----------------------------------------------------------------------------
(* The poll task implements PollPromise.                                   *)

Slots == [e \in Entries |-> Worth(e)]

LEMMA PromiseInit == Init => Promise!Init
BY DEF Init, Promise!Init, Cursor, Worth, Unread, Entries

\* A step that leaves the readings alone leaves their worth alone.
LEMMA SlotsUnchanged ==
    ASSUME UNCHANGED readings
    PROVE  Slots' = Slots
BY DEF Slots, Worth

LEMMA PromiseStep ==
    ASSUME TypeOK, InRange, PairInv, PairInv', [Next]_vars
    PROVE  [Promise!Next]_<<Cursor, Slots>>
<1> USE DEF PairInv
<1>1. CASE StartCycle
  <2>1. Cursor = 0 /\ Cursor' = 1
      BY <1>1 DEF StartCycle, Cursor
  <2>2. \A e \in Entries : Worth(e)' = IF Worth(e) = "fresh" THEN "stale"
                                                            ELSE Worth(e)
    <3> SUFFICES ASSUME NEW e \in Entries
                 PROVE  Worth(e)' = IF Worth(e) = "fresh" THEN "stale"
                                                          ELSE Worth(e)
        OBVIOUS
    <3>1. readings[e] \in Reading /\ readings'[e] = Aged(readings[e])
        BY <1>1 DEF StartCycle, TypeOK
    <3>2. /\ readings'[e].valid = readings[e].valid
          /\ readings'[e].value = readings[e].value
          /\ readings'[e].stamp = IF readings[e].stamp = "now" THEN "old"
                                  ELSE readings[e].stamp
        BY <3>1 DEF Aged, Reading
    <3>3. readings[e].valid => readings[e].value = e
        BY DEF Attribution
    <3>4. QED
        BY <3>1, <3>2, <3>3 DEF Worth, Reading
  <2>3. Promise!Begin
      BY <2>1, <2>2 DEF Promise!Begin, Entries
  <2>4. QED
      BY <2>3 DEF Promise!Next
<1>2. CASE Fail /\ state = "CONNECTING_HDLC"
  <2>1. Cursor = 1 /\ Cursor' = 0 /\ Slots' = Slots
      BY <1>2, SlotsUnchanged DEF Fail, Cursor
  <2>2. Promise!GiveUp
      BY <2>1 DEF Promise!GiveUp, Slots
  <2>3. QED
      BY <2>2 DEF Promise!Next
<1>3. CASE AssociationFailed
  <2>1. Cursor = 1 /\ Cursor' = 0 /\ Slots' = Slots
      BY <1>3, SlotsUnchanged DEF AssociationFailed, Cursor
  <2>2. Promise!GiveUp
      BY <2>1 DEF Promise!GiveUp, Slots
  <2>3. QED
      BY <2>2 DEF Promise!Next
<1>4. CASE StoreReading \/ StoreSkipped
  <2>1. ReadDone /\ current \in Entries
      BY <1>4 DEF StoreReading, StoreSkipped, ReadDone, InRange
  <2>2. PICK c \in Entries : c = current
      BY <2>1
  <2>3. Cursor = c /\ Cursor' = c + 1 /\ Cursor \in 1 .. NumObis
      BY <2>1, <2>2 DEF ReadDone, Cursor, Entries
  <2>4. \A e \in Entries : e # c => Worth(e)' = Worth(e)
      BY <1>4, <2>2 DEF StoreReading, StoreSkipped, Worth, TypeOK
  <2>5. Worth(c)' \in {"unread", "fresh", Worth(c)}
    <3>1. CASE StoreSkipped
        BY <3>1 DEF StoreSkipped, Worth
    <3>2. CASE StoreReading
      <4>1. readings'[c] = Outcome
          BY <3>2, <2>2 DEF StoreReading, TypeOK
      <4>2. Outcome.valid => Outcome.value = c /\ Outcome.stamp = "now"
          BY <2>1, <2>2 DEF Outcome, Unread, ReadDone, ForCurrent, About
      <4>3. QED
          BY <4>1, <4>2 DEF Worth
    <3>3. QED
        BY <1>4, <3>1, <3>2
  <2>6. Slots' = [Slots EXCEPT ![Cursor] = Worth(c)'] /\ Slots[Cursor] = Worth(c)
      BY <2>3, <2>4 DEF Slots
  <2>7. Promise!Visit
      BY <2>3, <2>5, <2>6 DEF Promise!Visit, Slots
  <2>8. QED
      BY <2>7 DEF Promise!Next
<1>5. CASE NotifyAndDisconnect
  <2>1. current = NumObis + 1
      BY <1>5, PollAssumption DEF NotifyAndDisconnect, TypeOK
  <2>2. Cursor = NumObis + 1 /\ Cursor' = 0 /\ Slots' = Slots
      BY <1>5, <2>1, SlotsUnchanged DEF NotifyAndDisconnect, Cursor
  <2>3. Promise!Complete
      BY <2>2 DEF Promise!Complete, Slots
  <2>4. QED
      BY <2>3 DEF Promise!Next
<1>6. CASE UNCHANGED <<state, current, readings>>
    BY <1>6, SlotsUnchanged DEF Cursor
<1>7. CASE LinkEstablished \/ Associated \/ SendReadRequest \/ BackedOff
           \/ FinishCycle
  <2>1. UNCHANGED readings /\ Cursor' = Cursor
      BY <1>7 DEF LinkEstablished, Associated, SendReadRequest, BackedOff,
                  FinishCycle, Cursor
  <2>2. QED
      BY <2>1, SlotsUnchanged
<1>8. QED
    BY <1>1, <1>2, <1>3, <1>4, <1>5, <1>6, <1>7
    DEF Next, PollTask, vars, client, FrameReceived, FrameDiscarded,
        WaitTimedOut, LinkRefused, SnrmRetried, SnrmGivenUp, SnrmUnanswered,
        ReaderTakes, ReaderGives, MeterAnswers, MeterRefuses, RequestLost

\* With a meter that answers in time the poll task implements PollPromise:
\* one pass over the entries in order, each slot left with its own value, a
\* failure mark or what it held.
THEOREM KeepsPromiseHolds ==
    ASSUME OnTime
    PROVE  Spec => KeepsPromise
<1>1. Init => TypeOK /\ InRange /\ PairInv /\ Promise!Init
    BY InitTyped, PairInit, PromiseInit DEF Init, InRange
<1>2. TypeOK /\ InRange /\ PairInv /\ [Next]_vars
        => (TypeOK /\ InRange /\ PairInv)'
    BY StepTyped, InRangeKept, PairKept
<1>3. TypeOK /\ InRange /\ PairInv /\ PairInv' /\ [Next]_vars
        => [Promise!Next]_<<Cursor, Slots>>
    BY PromiseStep
<1>4. QED
    BY <1>1, <1>2, <1>3, PTL DEF Spec, KeepsPromise, Promise!Spec, Slots

-----------------------------------------------------------------------------
(* The counters of client and meter, up to the first fault.  In each state *)
(* of the cycle: what is under way, and how far the two sides have counted *)

LinkAnswer(f) == /\ f.good /\ f.ctrl = "UA"
                 /\ link # "off" /\ vr = 0 /\ vs = 0

Linking ==
    state = "CONNECTING_HDLC" =>
        /\ sendSeq = 0
        /\ up # <<>> => Head(up).ctrl = "SNRM"
        /\ fifo # <<>> => LinkAnswer(Head(fifo))
        /\ call = "frame" => LinkAnswer(frame)

AssociationAnswer(f) ==
    /\ f.good /\ f.ctrl = "I" /\ f.ns = 0
    /\ link = "associated" /\ vr = sendSeq /\ vs = NextSeq(0)

Associating ==
    state = "CONNECTING_DLMS" =>
        /\ sendSeq = NextSeq(0)
        /\ up # <<>> => /\ Head(up).ctrl = "I" /\ Head(up).apdu = "AARQ"
                        /\ Head(up).ns = 0
                        /\ link # "off" /\ vr = 0 /\ vs = 0
        /\ fifo # <<>> => AssociationAnswer(Head(fifo))
        /\ call = "frame" => AssociationAnswer(frame)

ReadAnswer(f) == /\ f.good /\ f.ctrl = "I"
                 /\ vr = sendSeq /\ vs = NextSeq(f.ns)

ReadingEntry ==
    state = "REQUEST_SENT" =>
        /\ call \in {"waiting", "frame"} /\ link = "associated"
        /\ call = "waiting" => ~ Quiet
        /\ up # <<>> => /\ Head(up).ctrl = "I" /\ Head(up).apdu = "read"
                        /\ Head(up).ns = vr /\ sendSeq = NextSeq(vr)
        /\ fifo # <<>> => ReadAnswer(Head(fifo))
        /\ call = "frame" => ReadAnswer(frame)

BetweenReads ==
    state = "CONNECTED" =>
        link = "associated" /\ sendSeq = vr /\ recvSeq = vs

Counters == Linking /\ Associating /\ ReadingEntry /\ BetweenReads

\* Without a receive timeout no answer is ever read, so that the cycle does
\* not get past its first wait.
Deaf == ReceiveTimeout = 0 =>
            /\ state \in {"IDLE", "CONNECTING_HDLC", "ERROR"}
            /\ call # "frame"

AgreeInv ==
    /\ Deaf
    /\ faults = MaxFaults /\ ReceiveTimeout > 0 => PairInv /\ Counters

-----------------------------------------------------------------------------
\* Faults are only ever used up; a step that uses none is on time and loses
\* and damages nothing.
LEMMA FaultFree ==
    ASSUME TypeOK, [Next]_vars, faults' = MaxFaults
    PROVE  /\ faults = MaxFaults
           /\ WaitTimedOut => ~ Late
           /\ ~ MeterRefuses /\ ~ RequestLost
<1>1. \A m, n \in Nat : m > 0 /\ m <= n => m - 1 # n
    OBVIOUS
<1>2. faults \in Nat /\ MaxFaults \in Nat /\ faults <= MaxFaults
    BY PollAssumption DEF TypeOK
<1>3. faults > 0 => faults - 1 # faults'
    BY <1>1, <1>2
<1>4. \A reply : Transmit(reply) => faults' = faults
    BY <1>3 DEF Transmit
<1>5. /\ MeterAnswers => faults' = faults
      /\ WaitTimedOut => ~ Late /\ faults' = faults
      /\ ~ MeterRefuses /\ ~ RequestLost /\ ~ StoreSkipped
  <2>1. MeterAnswers => faults' = faults
      BY <1>4 DEF MeterAnswers, MeterLinks, MeterUnlinks, MeterAssociates,
                  MeterReads, MeterRejects
  <2>2. WaitTimedOut => ~ Late /\ faults' = faults
      BY <1>3 DEF WaitTimedOut
  <2>3. ~ MeterRefuses /\ ~ RequestLost /\ ~ StoreSkipped
      BY <1>3 DEF MeterRefuses, RequestLost, StoreSkipped
  <2>4. QED
      BY <2>1, <2>2, <2>3
<1>6. faults' = faults
    BY <1>5
    DEF Next, PollTask, vars, FrameReceived, FrameDiscarded, StartCycle,
        LinkEstablished, LinkRefused, Fail, SnrmRetried, SnrmGivenUp,
        BackedOff, Associated, AssociationFailed, SendReadRequest,
        StoreReading, NotifyAndDisconnect, FinishCycle, ReaderTakes,
        ReaderGives
<1>7. QED
    BY <1>5, <1>6

LEMMA DeafKept == TypeOK /\ Deaf /\ [Next]_vars => Deaf'
<1> SUFFICES ASSUME TypeOK, Deaf, [Next]_vars, ReceiveTimeout = 0 PROVE Deaf'
    BY DEF Deaf
<1>1. /\ state \in {"IDLE", "CONNECTING_HDLC", "ERROR"} /\ call # "frame"
      /\ ~ Listening
    BY DEF Deaf, Listening
<1>2. QED
    BY <1>1
    DEF Deaf, Next, PollTask, vars, client, FrameReceived, FrameDiscarded,
        WaitTimedOut, StartCycle, SendAndWait, LinkEstablished, LinkRefused,
        Fail, SnrmRetried, SnrmGivenUp, SnrmUnanswered, BackedOff, Associated,
        Accepted, AssociationFailed, SendReadRequest, StoreReading,
        StoreSkipped, ReadDone, NotifyAndDisconnect, FinishCycle, ReaderTakes,
        ReaderGives, MeterAnswers, MeterRefuses, RequestLost

LEMMA CountersKeptByClient ==
    ASSUME ReceiveTimeout > 0, WaitTimedOut => ~ Late,
           TypeOK, PairInv, Counters, PollTask
    PROVE  Counters'
<1>1. CASE FrameReceived
  <2>1. /\ call = "waiting" /\ fifo # <<>>
        /\ \E n \in 1 .. Len(fifo) : frame' = Head(Buffered(n)) /\ ReadUart(n)
      BY <1>1, EmptySeq DEF FrameReceived, Listening
  <2>2. Len(fifo) = 1 /\ rx = <<>> /\ up = <<>>
      BY <2>1, EmptySeq DEF PairInv, OneInFlight, Quiet, TypeOK
  <2>3. frame' = Head(fifo) /\ fifo' = <<>>
      BY <2>1, <2>2, OneFrameRead DEF ReadUart
  <2>4. call' = "frame" /\ UNCHANGED <<state, sendSeq, recvSeq, up, meter>>
      BY <1>1 DEF FrameReceived
  <2>5. QED
      BY <2>1, <2>2, <2>3, <2>4
      DEF Counters, Linking, LinkAnswer, Associating, AssociationAnswer,
          ReadingEntry, ReadAnswer, BetweenReads, Quiet, meter
<1>2. CASE FrameDiscarded
  <2>1. /\ call = "waiting" /\ fifo # <<>>
        /\ \E n \in 1 .. Len(fifo) : ~ Head(Buffered(n)).good
      BY <1>2, EmptySeq DEF FrameDiscarded, Listening
  <2>2. Len(fifo) = 1 /\ rx = <<>>
      BY <2>1, EmptySeq DEF PairInv, OneInFlight, Quiet, TypeOK
  <2>3. ~ Head(fifo).good
      BY <2>1, <2>2, OneFrameRead
  <2>4. state \notin {"CONNECTING_HDLC", "CONNECTING_DLMS", "REQUEST_SENT",
                      "CONNECTED"}
      BY <2>1, <2>3
      DEF Counters, Linking, LinkAnswer, Associating, AssociationAnswer,
          ReadingEntry, ReadAnswer, PairInv, CallShape
  <2>5. state' = state
      BY <1>2 DEF FrameDiscarded
  <2>6. QED
      BY <2>4, <2>5
      DEF Counters, Linking, Associating, ReadingEntry, BetweenReads
<1>3. CASE WaitTimedOut
  <2>1. Quiet /\ call = "waiting"
      BY <1>3 DEF WaitTimedOut, Late, Listening, Quiet
  <2>2. /\ call' = "timeout"
        /\ UNCHANGED <<state, sendSeq, recvSeq, up, fifo, meter>>
      BY <1>3 DEF WaitTimedOut
  <2>3. QED
      BY <2>1, <2>2
      DEF Counters, Linking, Associating, ReadingEntry, BetweenReads, Quiet,
          PairInv, CallShape, meter
<1>4. CASE StartCycle \/ SnrmRetried
  <2>1. /\ state' = "CONNECTING_HDLC" /\ SendAndWait(Snrm)
        /\ up = <<>> /\ fifo' = <<>> /\ sendSeq' = 0
      BY <1>4 DEF StartCycle, ResetProtocol, SnrmRetried, SnrmUnanswered,
                  Counters, Linking, PairInv, OneInFlight, Quiet
  <2>2. call' = "waiting" /\ Head(up') = Snrm
      BY <2>1, SendKeepsOne, RequestsTyped
  <2>3. QED
      BY <2>1, <2>2
      DEF Counters, Linking, Associating, ReadingEntry, BetweenReads, Snrm
<1>5. CASE LinkEstablished
  <2> DEFINE req == IFrame(sendSeq, recvSeq, "AARQ", 0)
  <2>1. /\ state' = "CONNECTING_DLMS" /\ sendSeq' = NextSeq(sendSeq)
        /\ SendAndWait(req) /\ UNCHANGED <<fifo, meter>>
      BY <1>5 DEF LinkEstablished
  <2>2. /\ up = <<>> /\ fifo = <<>>
        /\ sendSeq = 0 /\ link # "off" /\ vr = 0 /\ vs = 0
      BY <1>5 DEF LinkEstablished, Counters, Linking, LinkAnswer, PairInv,
                  OneInFlight, Quiet
  <2>3. call' = "waiting" /\ Head(up') = req
      BY <2>1, <2>2, SendKeepsOne, RequestsTyped
  <2>4. QED
      BY <2>1, <2>2, <2>3
      DEF Counters, Linking, Associating, ReadingEntry, BetweenReads, IFrame,
          meter
<1>6. CASE Associated
  <2>1. frame.ctrl = "I" /\ AssociationAnswer(frame) /\ frame.ns = 0
      BY <1>6 DEF Associated, Accepted, Counters, Associating,
                  AssociationAnswer
  <2>2. /\ state' = "CONNECTED" /\ recvSeq' = NextSeq(0)
        /\ UNCHANGED <<sendSeq, meter>>
      BY <1>6, <2>1 DEF Associated, RecvSeqAfter
  <2>3. QED
      BY <2>1, <2>2
      DEF Counters, Linking, Associating, AssociationAnswer, ReadingEntry,
          BetweenReads, meter
<1>7. CASE SendReadRequest
  <2> DEFINE req == IFrame(sendSeq, recvSeq, "read", current)
  <2>1. /\ state = "CONNECTED" /\ state' = "REQUEST_SENT"
        /\ sendSeq' = NextSeq(sendSeq)
        /\ req \in Request /\ SendAndWait(req) /\ UNCHANGED <<fifo, meter>>
      BY <1>7, RequestsTyped DEF SendReadRequest
  <2>2. /\ up = <<>> /\ fifo = <<>> /\ link = "associated" /\ sendSeq = vr
      BY <2>1 DEF Counters, BetweenReads, PairInv, CallShape, OneInFlight,
                  Quiet
  <2>3. call' = "waiting" /\ up' # <<>> /\ Head(up') = req
      BY <2>1, <2>2, SendKeepsOne
  <2>4. QED
      BY <2>1, <2>2, <2>3
      DEF Counters, Linking, Associating, ReadingEntry, BetweenReads, IFrame,
          Quiet, meter
<1>8. CASE StoreReading \/ StoreSkipped
  <2>1. ReadDone
      BY <1>8 DEF StoreReading, StoreSkipped
  <2>2. call = "frame" /\ ReadAnswer(frame) /\ link = "associated"
      BY <2>1 DEF ReadDone, Counters, ReadingEntry
  <2>3. /\ state' = "CONNECTED" /\ recvSeq' = NextSeq(frame.ns)
        /\ UNCHANGED <<sendSeq, meter>>
      BY <2>1, <2>2 DEF ReadDone, ReadAnswer, RecvSeqAfter
  <2>4. QED
      BY <2>2, <2>3
      DEF Counters, Linking, Associating, ReadingEntry, ReadAnswer,
          BetweenReads, meter
<1>9. CASE Fail \/ BackedOff \/ AssociationFailed \/ NotifyAndDisconnect
           \/ FinishCycle
  <2>1. state' \in {"ERROR", "IDLE", "DISCONNECTING"}
      BY <1>9 DEF Fail, BackedOff, AssociationFailed, NotifyAndDisconnect,
                  FinishCycle
  <2>2. QED
      BY <2>1 DEF Counters, Linking, Associating, ReadingEntry, BetweenReads
<1>10. QED
    BY <1>1, <1>2, <1>3, <1>4, <1>5, <1>6, <1>7, <1>8, <1>9
    DEF PollTask, LinkRefused, SnrmGivenUp

LEMMA CountersKeptByMeter ==
    ASSUME TypeOK, PairInv, Counters, MeterAnswers, faults' = faults
    PROVE  Counters'
<1>1. /\ up # <<>> /\ up' = Tail(up)
      /\ UNCHANGED <<state, call, frame, sendSeq, recvSeq>>
    BY DEF MeterAnswers, client
<1>2. call = "waiting" /\ Len(up) = 1 /\ fifo = <<>>
    BY <1>1, EmptySeq DEF PairInv, OneInFlight, Quiet, TypeOK
<1>3. up' = <<>> /\ Head(up) \in Request
    BY <1>1, <1>2, TailOfOne, ReplyTyped DEF TypeOK
<1>4. ASSUME NEW reply \in Frame, Transmit(reply)
      PROVE  fifo' # <<>> /\ Head(fifo') = reply
  <2>1. faults - 1 # faults
      BY PollAssumption DEF TypeOK
  <2>2. fifo' = Append(fifo, reply)
      BY <1>4, <2>1 DEF Transmit
  <2>3. QED
      BY <1>2, <2>2, AppendToEmpty
<1>5. CASE state = "CONNECTING_HDLC"
  <2>1. Head(up).ctrl = "SNRM" /\ MeterLinks
      BY <1>1, <1>5 DEF MeterAnswers, MeterLinks, MeterUnlinks, InSequence,
                        MeterAssociates, MeterReads, MeterRejects, Counters,
                        Linking
  <2>2. fifo' # <<>> /\ Head(fifo') = Reply("UA", "none", 0)
    <3>1. 0 \in 0 .. NumObis
        BY PollAssumption
    <3>2. QED
        BY <1>1, <1>4, <2>1, <3>1, ReplyTyped DEF MeterLinks
  <2>3. link' = "on" /\ vr' = 0 /\ vs' = 0
      BY <2>1 DEF MeterLinks
  <2>4. QED
      BY <1>1, <1>2, <1>3, <1>5, <2>2, <2>3
      DEF Counters, Linking, LinkAnswer, Associating, ReadingEntry,
          BetweenReads, Reply
<1>6. CASE state = "CONNECTING_DLMS"
  <2>1. /\ Head(up).ctrl = "I" /\ Head(up).apdu = "AARQ" /\ Head(up).ns = 0
        /\ link # "off" /\ vr = 0 /\ vs = 0 /\ sendSeq = NextSeq(0)
      BY <1>1, <1>6 DEF Counters, Associating
  <2>2. MeterAssociates
      BY <2>1 DEF MeterAnswers, MeterLinks, MeterUnlinks, MeterReads,
                  MeterRejects, InSequence
  <2>3. fifo' # <<>> /\ Head(fifo') = Reply("I", "AARE", 0)
    <3>1. 0 \in 0 .. NumObis
        BY PollAssumption
    <3>2. QED
        BY <1>1, <1>4, <2>2, <3>1, ReplyTyped DEF MeterAssociates
  <2>4. link' = "associated" /\ vr' = NextSeq(0) /\ vs' = NextSeq(0)
      BY <2>1, <2>2 DEF MeterAssociates
  <2>5. QED
      BY <1>1, <1>2, <1>3, <1>6, <2>1, <2>3, <2>4
      DEF Counters, Linking, Associating, AssociationAnswer, ReadingEntry,
          BetweenReads, Reply
<1>7. CASE state = "REQUEST_SENT"
  <2>1. /\ Head(up).ctrl = "I" /\ Head(up).apdu = "read" /\ Head(up).ns = vr
        /\ link = "associated" /\ sendSeq = NextSeq(vr)
      BY <1>1, <1>7 DEF Counters, ReadingEntry
  <2>2. MeterReads
      BY <2>1 DEF MeterAnswers, MeterLinks, MeterUnlinks, MeterAssociates,
                  MeterRejects, InSequence
  <2>3. fifo' # <<>> /\ Head(fifo') = Reply("I", "data", Head(up).entry)
      BY <1>1, <1>3, <1>4, <2>1, <2>2, ReplyTyped DEF MeterReads, Request
  <2>4. link' = "associated" /\ vr' = NextSeq(vr) /\ vs' = NextSeq(vs)
      BY <2>1, <2>2 DEF MeterReads
  <2>5. QED
      BY <1>1, <1>2, <1>3, <1>7, <2>1, <2>3, <2>4
      DEF Counters, Linking, Associating, ReadingEntry, ReadAnswer,
          BetweenReads, Reply, Quiet
<1>8. CASE state \notin {"CONNECTING_HDLC", "CONNECTING_DLMS", "REQUEST_SENT"}
  <2>1. state # "CONNECTED"
      BY <1>2 DEF PairInv, CallShape
  <2>2. QED
      BY <1>1, <1>8, <2>1
      DEF Counters, Linking, Associating, ReadingEntry, BetweenReads
<1>9. QED
    BY <1>5, <1>6, <1>7, <1>8

LEMMA AgreeKept == TypeOK /\ InRange /\ AgreeInv /\ [Next]_vars => AgreeInv'
<1> SUFFICES ASSUME TypeOK, InRange, AgreeInv, [Next]_vars PROVE AgreeInv'
    OBVIOUS
<1>1. Deaf'
    BY DeafKept DEF AgreeInv
<1>2. ASSUME faults' = MaxFaults, ReceiveTimeout > 0
      PROVE  PairInv' /\ Counters'
  <2>1. /\ faults = MaxFaults
        /\ WaitTimedOut => ~ Late
        /\ ~ MeterRefuses /\ ~ RequestLost
      BY <1>2, FaultFree
  <2>2. PairInv /\ Counters
      BY <1>2, <2>1 DEF AgreeInv
  <2>3. CASE PollTask
      BY <1>2, <2>1, <2>2, <2>3, PairKeptByClient, CountersKeptByClient
  <2>4. CASE MeterAnswers
      BY <1>2, <2>1, <2>2, <2>4, PairKeptByMeter, CountersKeptByMeter
  <2>5. CASE UNCHANGED <<client, readings, up, fifo, meter>>
    <3>1. PairInv'
        BY <2>2, <2>5
        DEF client, PairInv, CallShape, OneInFlight, Quiet, ForCurrent,
            About, Attribution
    <3>2. Counters'
        BY <2>2, <2>5
        DEF client, meter, Counters, Linking, LinkAnswer, Associating,
            AssociationAnswer, ReadingEntry, ReadAnswer, BetweenReads, Quiet
    <3>3. QED
        BY <3>1, <3>2
  <2>6. QED
      BY <2>1, <2>3, <2>4, <2>5 DEF Next, ReaderTakes, ReaderGives, vars
<1>3. QED
    BY <1>1, <1>2 DEF AgreeInv

\* As long as nothing has gone wrong on the line, N(S) and N(R) of the client
\* are V(R) and V(S) of the meter whenever it is about to send, for any
\* modulus, any number of entries and any timeout.
THEOREM SequenceAgreementHolds == Spec => []SequenceAgreement
<1>1. Init => TypeOK /\ InRange /\ AgreeInv
  <2>1. Init => Deaf /\ Counters
      BY DEF Init, Deaf, Counters, Linking, Associating, ReadingEntry,
             BetweenReads
  <2>2. QED
      BY <2>1, InitTyped, PairInit DEF Init, InRange, AgreeInv
<1>2. TypeOK /\ InRange /\ AgreeInv /\ [Next]_vars
        => (TypeOK /\ InRange /\ AgreeInv)'
    BY StepTyped, InRangeKept, AgreeKept
<1>3. AgreeInv => SequenceAgreement
    BY PollAssumption
    DEF AgreeInv, Deaf, Counters, BetweenReads, SequenceAgreement
<1>4. QED
    BY <1>1, <1>2, <1>3, PTL DEF Spec

-----------------------------------------------------------------------------
(* What the callback is given.                                             *)

\* While the entries are read, those already visited hold a reading of this
\* cycle or none.
VisitedFresh ==
    state \in {"CONNECTED", "REQUEST_SENT"} =>
        \A e \in Entries :
           e < current /\ readings[e].valid => readings[e].stamp = "now"

LEMMA VisitedFreshKept ==
    ASSUME ~ SlowReaders
    PROVE  TypeOK /\ InRange /\ VisitedFresh /\ [Next]_vars => VisitedFresh'
<1> SUFFICES ASSUME TypeOK, InRange, VisitedFresh, [Next]_vars
             PROVE  VisitedFresh'
    OBVIOUS
<1>1. CASE StoreReading
  <2>1. ReadDone /\ readings' = [readings EXCEPT ![current] = Outcome]
      BY <1>1 DEF StoreReading
  <2>2. state = "REQUEST_SENT" /\ current \in Entries
      BY <2>1 DEF ReadDone, InRange
  <2>3. PICK c \in Entries : c = current
      BY <2>2
  <2>4. current' = c + 1
      BY <2>1, <2>3 DEF ReadDone
  <2>5. \A e \in Entries : e < c + 1 => e < c \/ e = c
      BY PollAssumption DEF Entries
  <2>6. Outcome.valid => Outcome.stamp = "now"
      BY DEF Outcome, Unread
  <2>7. ASSUME NEW e \in Entries, e < current', readings'[e].valid
        PROVE  readings'[e].stamp = "now"
    <3>1. CASE e = c
        BY <2>1, <2>3, <2>6, <2>7, <3>1 DEF TypeOK
    <3>2. CASE e # c
      <4>1. e < current /\ readings'[e] = readings[e]
          BY <2>1, <2>3, <2>4, <2>5, <2>7, <3>2 DEF TypeOK
      <4>2. QED
          BY <2>2, <2>7, <4>1 DEF VisitedFresh
    <3>3. QED
        BY <3>1, <3>2
  <2>8. QED
      BY <2>7 DEF VisitedFresh
<1>2. CASE Associated
  <2>1. current' = 1 /\ \A e \in Entries : ~ (e < 1)
      BY <1>2, PollAssumption DEF Associated, Entries
  <2>2. QED
      BY <2>1 DEF VisitedFresh
<1>3. CASE state' \notin {"CONNECTED", "REQUEST_SENT"}
    BY <1>3 DEF VisitedFresh
<1>4. CASE SendReadRequest
    BY <1>4 DEF SendReadRequest, VisitedFresh
<1>5. CASE UNCHANGED <<state, current, readings>>
    BY <1>5 DEF VisitedFresh
<1>6. QED
    BY <1>1, <1>2, <1>3, <1>4, <1>5
    DEF Next, PollTask, vars, client, FrameReceived, FrameDiscarded,
        WaitTimedOut, StartCycle, LinkEstablished, LinkRefused, Fail,
        SnrmRetried, SnrmGivenUp, SnrmUnanswered, BackedOff,
        AssociationFailed, StoreSkipped, NotifyAndDisconnect, FinishCycle,
        ReaderTakes, ReaderGives, MeterAnswers, MeterRefuses, RequestLost

\* Where no reader holds readings_mutex over 100 ms, the callback never gets
\* a reading of an earlier cycle as valid, however the line behaves.
THEOREM CallbackFreshHolds ==
    ASSUME ~ SlowReaders
    PROVE  Spec => CallbackDeliversFresh
<1>1. Init => TypeOK /\ InRange /\ VisitedFresh
    BY InitTyped DEF Init, InRange, VisitedFresh
<1>2. TypeOK /\ InRange /\ VisitedFresh /\ [Next]_vars
        => (TypeOK /\ InRange /\ VisitedFresh)'
    BY StepTyped, InRangeKept, VisitedFreshKept
<1>3. ASSUME TypeOK, VisitedFresh, NotifyAndDisconnect
      PROVE  \A e \in Entries : readings[e].valid => readings[e].stamp = "now"
  <2>1. state = "CONNECTED" /\ current > NumObis
      BY <1>3 DEF NotifyAndDisconnect
  <2>2. \A e \in Entries : e < current
      BY <1>3, <2>1, PollAssumption DEF TypeOK, Entries
  <2>3. QED
      BY <1>3, <2>1, <2>2 DEF VisitedFresh
<1>4. QED
    BY <1>1, <1>2, <1>3, PTL DEF Spec, CallbackDeliversFresh
=============================================================================
