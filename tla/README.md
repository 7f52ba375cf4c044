# Verification of the DLMS smart-meter reader

TLA+ models, TLC configurations and TLAPS proofs for the ESP32-C3 firmware in
`src/`: a gateway that reads an electricity meter over a serial line and shows
the readings on a web page and over MQTT. Paths below are relative to `src/`;
`client` is `components/dlms_client/dlms_client.c`, `main` is `main/main.c`.

## 1. The system

| Component | State it keeps | Operations | Modelled by |
|---|---|---|---|
| Poll client (`client`) | protocol state, N(S), N(R), `rx_buffer`, `readings[]` and its mutex, statistics | `do_poll_cycle`, `wait_for_frame`, `dlms_client_get_*` | `DlmsPoll`, `PollPromise` |
| HDLC framing (`dlms_hdlc.c`) | none; works on the callers' buffers | build, parse, find a frame | `HdlcFraming` |
| A-XDR codec (`dlms_axdr.c`) | none | decoders, `axdr_parse_value` | `AxdrBlock` |
| E450 push listener (`main: e450_push_task`) | `rx_buf`, `push_obis_list`, `push_value_idx` | read, cut frames, walk blocks, file values | `HdlcFraming`, `AxdrBlock`, `E450Push` |
| Readings cache (`main`) | `g_dashboard_readings`, `g_readings_mutex` | `cache_readings`, `get_cached_reading`, `get_dashboard_json` | `ReadingsCache` |
| MQTT publisher | connected flag, outbox, template | `mqtt_publish_readings`, event handler, last will | `Uplink`; what a message says: `E450Push` |
| Wi-Fi manager | retry count, event bits | event handler | `Uplink` |
| ASCII listeners (`main/ascii_parsers.c`) | one line buffer each | `am550_ascii_task`, `iec62056_21_task` | `AsciiListener` |
| Debug and trace rings (`main`) | two ring buffers, a mutex, a spinlock | append, clear, read out | `Ring`, `LastOctets` |
| Web server, stored configuration | NVS namespace `config`; in the browser, the page | settings page, `/api/config`, save and restart | `Settings`, `SettingsPage` |
| Boot (`app_main`) | - | reads the settings, starts one meter task | `Settings`, `Gateway`; the E570 configuration: `MCDlmsPoll` |
| DLMS push task (`client`) | shares all of the poll client's | `dlms_client_push_task` | never started, not modelled |

`app_main` reads `meter_type` from NVS and starts exactly one meter task. That
task owns UART 1. The E450 and ASCII tasks hand every value to
`mqtt_publish_readings` and to `cache_readings`; the web server reads the cache
from the HTTP task, and `mqtt_publish_readings` reads it too, because a state
message is a template filled in from the cache and not from its argument. The
poll client keeps a table of its own, guarded by its own mutex, and hands it to
a callback once per cycle.

**What is hard in it.** There is no acknowledgement beyond the answer itself:
the poll client pairs answer and request by position, the push listener pairs
value and definition by counting, and both framing loops must find frames in a
stream cut at arbitrary places. Faults are the normal case on an RS-485 or
optical line: lost and damaged frames, answers after the timeout, meters that
refuse. The tasks share tables under mutexes that a writer takes with a
timeout. `PROJECT.json` ("hazards") lists these dangers at the lines where they
bite and the properties that watch them.

**What makes each part correct.**

* Poll client: a valid reading is that of its own register; a cycle ends; what
  a fault leaves behind does not outlive its cycle; the callback gets this
  cycle's readings; both ends agree on the sequence numbers.
* Framing: on a clean line no intact frame is lost, on any line at most the one
  that runs over the end of a full buffer; none is handed on twice or out of
  order, and the buffer never stays full.
* A-XDR: a block is taken apart into what the meter put into it, and nothing is
  made up where it is cut.
* Push listener: a value is filed under its own code; a push that has been
  received is shown; after a loss the listener finds back into step.
* Cache: one entry per code.
* ASCII listeners: where the octets are cut into reads makes no difference; a
  stale octet ends no session; after any fault telegrams are read again.
* Rings: what the debug page shows is the latest octets, in order.
* Settings: a whole save stores what was entered; what a page was told and the
  user left alone is stored as it was told; a save cut short leaves each setting
  old or new; the device runs on what is stored.
* Uplink: the station gives up only after all its tries; what the broker shows
  of the gateway ("online") is always taken back in the end, and comes back.

## 2. The modules

**`DlmsPoll`** - one poll cycle as actions, one for each place where
`do_poll_cycle` waits, branches or leaves: `StartCycle` (reset, flush, SNRM),
`LinkEstablished`, `LinkRefused`, `SnrmRetried`, `SnrmGivenUp`, `BackedOff`,
`Associated`, `AssociationFailed`, `SendReadRequest`, `StoreReading` or
`StoreSkipped`, `NotifyAndDisconnect`, `FinishCycle`. `wait_for_frame` is a
sub-state (`call`): the wait reads any number of the frames in the UART at once
(`FrameReceived`, `FrameDiscarded`) or times out. A sent frame always starts a
wait, which forgets what was left in `rx_buffer` but not what is still in the
UART; only the start of a cycle flushes that. Readers of the table take and
give its mutex. The meter is external: an HDLC secondary that answers requests
in order and passes over I-frames that are out of sequence; a reply may be
lost, damaged or a refusal. A reading's value is abstracted to the register it
was read from. `MaxFaults` bounds all faults of a run, `LateReplies` says
whether an answer may miss its timeout, `SlowReaders` whether a reader may hold
the mutex for more than the 100 ms the writer waits. No reader of this firmware
copies that long; `poll_late` allows it all the same, and its properties hold.

**`PollPromise`** - what that task is worth to everybody else, without a line:
a cursor that gives up before the first entry or visits the entries once each
in order, and slots left fresh, marked unread, or as they were. `DlmsPoll`
instantiates it with a refinement mapping (`Cursor`, `Worth`).

**`HdlcFraming`** - octets. Both loops that call `dlms_hdlc_find_frame` are
here: the endless one of `e450_push_task` (`Listen`, `TextLine`) and
`wait_for_frame` (`WaitBegins`, `WaitReads`, `WaitTimesOut`); which of them
reads the line is chosen at the start. The line carries frames with their own
or shared flags, frames with 0x7E inside, noise, M-Bus telegrams and text
lines; octets may get lost. The checksum is an oracle: a candidate parses if
and only if it is a frame as it was sent.
`intact` is a history variable of the meter and the line alone: a frame leaves it
when the line loses part of it, never by what a loop does to its own buffer.

**`AxdrBlock`** - real octets of one push block, through the header skips of
`e450_push_task` and its loop into `axdr_parse_value` with all type tags and
length forms. Numbers are the eight octets of the union in `dlms_reading_t`.
The parser's recursion into arrays and structures is a recursive function on
octets: `ElementsUsed[b][n]` is how many octets the first `n` values in `b`
take, by what it is for the shorter rests of `b`. What the meter writes is
external: `Encoding(W)` says that each value of `W` is written in one of the
ways A-XDR has for it, values of an array or structure being in `W` themselves,
and `WellFormed(m, W)` that a block is objects and such values behind one of
the openings the task knows.

**`ReadingsCache`** - the table as one value; each function call is one step
because it runs under the mutex. Until the mutex exists every call does nothing.

**`E450Push`** - EXTENDS `ReadingsCache` and takes blocks of items: the list of
definitions, the counting index, the start-over rule, the thirty-entry limit,
values passed over, published and cached, one frame taken per read.

**`Ring`** - the code that is there twice, for `g_debug_buf` and `g_trace_buf`:
`BeginWrite` takes the lock with the octets to append, `WriteOctet` is one pass
of the loop, `ClearRing` the handler of the debug page; `ShownAsHex` is what
`get_debug_json` prints, with its limit on the length of the text.
**`LastOctets`** is what it promises; `Ring` instantiates it with a refinement
mapping, and `ShowsLatest` ties its steps to those of the ring.

**`AsciiListener`** - EXTENDS `ReadingsCache` and `Ring`. Both tasks over one C
string: `ReadUart` stores octets and a zero, `ParseLine` is one pass of the loop
over the lines (it writes zeros into the line and hands the reading to MQTT and
to the cache), `LinesDone` is the `memmove`, which leaves the zero behind, the
listener's limit of 1000 octets and the search for `!`. `Wake`, `ReadIdent`,
`TimesOut` and `PauseEnds` are the session of `iec62056_21_task`. A line is
three octets, a code, a value and the line end. The string functions see what
they see in memory: octets up to the first zero, from `malloc`, from this
telegram or from an earlier one.

**`Settings`** - NVS and `post_handler`, which takes any form from any client.
`Post` is the part of the body that `httpd_req_recv` returned and the clearing of
`mqtt_en`; `SetField` one pass of the loop; each write, the clearing too, may fail
unnoticed. `Reply`, `Restart`, `PowerCut` and `BootSettings` are the rest of the
life of a save. Three settings stand for all (they are treated alike but for the
three cases these represent): the checkbox, which is cleared first; a setting the
page is told; one it is not told.

**`SettingsPage`** - EXTENDS `Settings`, and adds a browser. `OpenPage` loads the
page with its own defaults, `ConfigArrives` fills in what `/api/config` returns,
whatever the user has changed by then, `FetchFails` is the empty `catch`; `Edit`
is the user, `Submit` sends what the page holds, at any time and any number of
times, and `OtherSession` is a save by somebody else. So a page may be stale, or
submitted before it was ever filled in. An edit or an answer in the middle of a
save is taken before or after it: neither touches what the other looks at.

**`Uplink`** - the Wi-Fi event handler, and the MQTT client with its flag, the
`"online"` in its outbox, the session at the broker with its last will, and a
publish that tests the flag first and hands its message over later.

**`Gateway`** - composes `Settings` and `Uplink`: `Boot` reads the settings and starts the
station, MQTT runs only if enabled, a restart or a power cut ends client and
station but not the session at the broker.

`HdlcFraming` gives whole frames to the other two levels: what it shows (an
intact frame is handed on, in order) is what `DlmsPoll` and `E450Push` assume of
a frame that is not damaged, and what it does not show (frames with 0x7E inside,
losses, a frame that runs over the end of a buffer full of other octets) appears
there as a lost or damaged frame. Likewise `AxdrBlock` gives
`E450Push` its items: a block that arrives is a sequence of items, a value that
does not parse is `unknown`. The exception `AxdrBlock` names (`Mistakable`) is
outside `E450Push`.

`MC*` modules give the constants their values and state, quoting the line, what
a comment of the code claims where a run finds the code doing otherwise.

## 3. The runs

Passing runs:

| Run | Instance | Shows |
|---|---|---|
| `poll_on_time` | 3 registers, sequence modulus 4, 3 faults, answers in time | `Attribution`, `SequenceAgreement`, `CallbackDeliversFresh`, refinement of `PollPromise` |
| `poll_late` | 2 registers, modulus 2, 3 faults, late answers, slow readers | `CycleEnds`, `Recovery` (liveness) |
| `push_listen` | push of 3 blocks and 4 objects, list limit 6, 2 faults | `Unique`, `FiledRight`, `ShowsLastPush`, `BackInStep` (liveness) |
| `framing` | buffer of 6, 3 frames, line of 8 octets, 2 faults | `NothingIntactLost`, `CleanLineLosesNone`, `InOrder`, `RoomLeft`, `GivesUpRightly` |
| `ascii` | buffer of 6, limit 4, ring of 2, telegrams of 2 lines, 1 fault | `CutsDoNotMatter`, `LeavesAtEnd`, `RoomLeft`, `KeepsReading` (liveness), refinement of `LastOctets` |
| `settings` | 3 settings, 3 meter types offered, 1 edited setting per page | `SavedAsEntered`, `UneditedAsTold`, `UsedIsStored`, `TornSave` |
| `gateway` | 3 settings, 1 meter type offered, 1 retry | `GivesUpRightly`, `OnlineIsRevocable`, `BackInReach`, `BackOnline`, `StatusFollows` (liveness) |
| `push_block` | 1 or 2 items of every type, 4 openings, whole or cut anywhere | `AsSent`, `NothingMadeUp` |

Why the bounds suffice. Three registers make an answer go astray to a
neighbour, and beyond; modulus 4 wraps within a cycle of one association and
three reads, as 8 does for a real register list. Three faults cover every
combination of a lost request, a damaged reply and a refusal in one cycle and
also the three SNRM attempts all failing. `poll_late` has modulus 2 because
liveness needs the smaller graph; two registers are enough for a late answer to
meet the wrong request. The two statistics counters are 32 bits wide in the
code and are taken modulo 2: nothing reads them. Pushes are told apart modulo
2, one old and one new being all that a stale value needs. The list limit 6 is
one and a half pushes, so that two pushes whose values are lost run into it. The
framing buffer holds one and a half frames, so that frames straddle reads and
noise fills it. The buffer of `ascii` takes two lines but not a telegram of
eight octets, so that lines are split, moved and followed by stale ones; its
limit 4 leaves a line of three octets alone, as 1000 does. Its ring has two
cells; `RingShowsLatest` is the statement for every size. One fault, of any
kind and at any time, is what `KeepsReading` has to survive. One retry makes
the station connect again once and then give up; `GivesUpOnlyAfterAllTries` is
the statement for every number. Power cuts, restarts, failed writes and cut
bodies are bounded neither in `settings` nor in `gateway`, nor is the coming and
going of the access point. In `settings` neither are saves, of the page and of
others, nor how often a page is opened; one edited setting leaves two that were
not, one the page is told and one it is not. In `gateway` it matters only
whether MQTT is on and whether a task runs, and settings written and not, cut
values among them, give both with one meter type offered.

`Undisturbed` (no fault yet) restricts `FiledRight` and `ShowsLastPush`, and the
same restricts `SequenceAgreement`: what a fault does to them is the subject of
`BackInStep`, `Recovery` and of the violation runs.

Runs that find the code at odds with what it says of itself, each with a
finding in `PROJECT.json`:

| Run | Claim | What happens |
|---|---|---|
| `poll_misfiled` | a reading marked valid was "successfully read" | one late answer, and the rest of the cycle is filed one register off |
| `poll_e570` | "Starting E570 DLMS poll task" | the configuration leaves the timeout at zero: the task never hears the meter |
| `push_misfiled` | "this must be a new cycle" | values lost, definitions pile up, the next whole push is misfiled |
| `push_backlog` | "keeping the trailing flag for back-to-back frames" | kept, but not looked at before more octets come |

The bounds of these are the smallest at which the case occurs.

**Fairness.** The poll task is a FreeRTOS task with nothing of higher priority
that runs for long: weak fairness on `PollTask`, which includes that a wait
ends by its timeout. Strong fairness on `StoreReading` says that a writer
blocked on the mutex, repeatedly free, gets it: FreeRTOS hands a mutex to the
highest-priority task waiting for it, and the readers wait no longer than it.
Readers only copy and give the mutex back (`ReaderGives`), and the meter works
off what reaches it (`MeterAnswers`). Faults and late answers are not fair:
the line may fail but need not. In `E450Push` the listener runs when it has
work (`StartTask`, `HandleItem`), octets on the wire are delivered, and the
meter goes on pushing (`MeterPushes`); nothing is assumed of losses or of the
broker. In `AsciiListener` the task runs (`Handle`, `Session`), so that a session
with nothing more to come times out, and the meter sends what it is asked for or
pushes on (`MeterIdentifies`, `MeterSends`). In `Gateway` power comes back
(`Boot`), a request that has begun is carried out and followed by its restart,
the driver reports address or failure, the MQTT library connects, delivers and
notices a dead connection (keep-alive), the broker gives up sessions nobody
keeps alive, and the meter task goes on. Nothing is assumed of power cuts, of
users or of the access point: `BackInReach` and `BackOnline` say what follows if
they leave the device alone. The other modules check safety alone.

**Deadlock** is checked except in `framing` and `push_block`. There the bounded
sender falls silent with the listener waiting for octets, and the walk over a
block ends.

## 4. The proofs

Checked by TLAPS from the constants' named assumptions, for every number of
registers, faults, retries, slots, octets of buffer and every layout. A theorem
that needs more says so as a hypothesis; each such hypothesis is one the code
meets on some instance, and a run or an `ASSUME` of an MC module exhibits it.

**Poll client** (`DlmsPoll_proofs`).
* `TypeCorrect`: `TypeOK` together with `InRange`, that a request is outstanding
  only for an existing entry. `TypeOK` alone is not inductive: after the last
  read `current` is one beyond the table, and only the protocol state says that
  nothing is stored there.
* `AttributionHolds`, assuming `OnTime` (no answer misses its timeout, and the
  timeout is not zero). `Attribution` needs to know where answers can come
  from, and the invariant says that in three parts: the wait has the shape its
  protocol state implies (`CallShape`), there is at most one request or answer
  under way and none outside a wait (`OneInFlight`), and a data frame anywhere
  belongs to the entry being read (`ForCurrent`). Without `OnTime` the second
  part breaks, and `poll_misfiled` shows how.
* `KeepsPromiseHolds`, same assumption: the initial state maps to an initial
  state of `PollPromise`, and under the invariant above every step maps to one
  of its steps or to a stutter.
* `SequenceAgreementHolds`, no assumption. The property speaks of one state of
  the task; its invariant `AgreeInv` follows both pairs of counters through a
  request and its answer, as long as there has been no fault: what the client
  has counted and what the meter has may differ by one, and by whose turn it is
  (`Linking`, `Associating`, `ReadingEntry`, `BetweenReads`). With a timeout of
  zero the task never hears the meter and gets no further than its first wait
  (`Deaf`).
* `CallbackFreshHolds`, assuming `~ SlowReaders`: an entry that has been visited
  in this cycle and is valid was read in this cycle (`VisitedFresh`). A reader
  that sits on the mutex for longer than the writer waits would make it skip the
  entry; none in this firmware does.

**Framing** (`HdlcFraming_proofs`), all six properties of `framing`.
`FramingAssumption` says that the octets which are not part of a frame differ
from each other and from those which are.
* `FramingTypeCorrect` and `RoomLeftHolds`: the listener's buffer is never full
  between two reads, because a full one without a frame is emptied and a frame
  or a telegram taken from it makes room.
* `NothingIntactLostHolds`, an action property: if the listener's buffer holds a
  frame, it begins with a flag (`FlagFirst`), so that it is not taken for a text
  line; what is dropped before a flag, behind a frame or before a telegram holds
  no part of a whole frame (`NothingElseLost`). That leaves the clearing of a
  full buffer without a frame. A frame lost by it begins in the last three octets
  of the buffer, and two whole frames cannot both do that (`OneAcrossTheEnd`).
* `CleanLineLosesNoneHolds`: as long as only frames are sent, of any three octets
  in a row one is a flag and one is not, and the buffer begins with a flag
  (`CleanInv`); so a buffer of five octets or more holds a candidate and is never
  cleared.
* `InOrderHolds`: frames in buffer and line are in the order sent (`Ascending`)
  and all behind the last one handed on (`Ahead`); reading moves octets from one
  to the other, and a loss only thins them out (`Thinner`).
* `GivesUpRightlyHolds`, an action property: unless its last read was spent on
  discarding a candidate, `wait_for_frame` has overlooked none (`NoneOverlooked`),
  and a whole frame is a candidate.

**Push listener** (`E450Push_proofs`, `ReadingsCache_proofs`).
* `CacheUnique`: `Put` changes at most one slot, and a free one only if no slot
  in use holds the code; the least element of a non-empty set of slots exists by
  well-foundedness. `PushUnique`: every action of the listener either leaves the
  table alone, creates the mutex or is `CacheReading`.
* `PushTypeCorrect`: among others that the list never outgrows its room.
* `FiledRightHolds`, for every push that is `n` definitions and then values,
  value `i` belonging to definition `i + 1`, the definitions fitting the list
  (`Numbered`, `Matched`, where `first[b]` is the number of items before block
  `b`). The invariant says where in the push the task is (`InTurn`): what it has
  on the table is the rest of one block, what waits in `rx_buf` and on the line
  are the blocks that follow it, push after push (`Chain`), and list and index
  are what that place implies (`Position`, `ListRight`). It holds however many
  blocks a read brings.
* `ShowsLastPushHolds` needs more: each value has a definition (`Covered`), the
  table has a slot for each code (`RoomInCache`), and no read brings more than
  one block (`~ Bursts`); `push_backlog` shows what happens otherwise. Each value
  of the last push is shown or still to come, on the table or on the line, and
  while the rest of an older block is on the table the whole push is on the line
  (`Showing`). That there is a free slot for a new code is the pigeonhole
  principle, with `Unique`. `MCMatched` checks all four of these on the checked
  push.

**A-XDR** (`AxdrBlock_proofs`, `SequenceLemmas`), all three properties of
`push_block`.
* `BlockTypeCorrect`: the walk stays within `frame.info` whatever octets are in
  it. It needs to know of the parser only that it never uses more octets than
  there are and stores octets. That is an induction over how arrays nest, which
  a recursive function defined by what it is on shorter sequences allows:
  `ElementsUsed` is first shown to satisfy its own recursion (functions on the
  sequences up to a length that satisfy it agree, `Reaches`, and together make
  up one on all of them), then facts about all sequences up to a length follow
  by induction on natural numbers, carried out with the least counterexample.
* `BlocksAreReadAsSent` and `StumpsMakeNothingUp`, for any blocks `WellFormed`
  over values in an `Encoding`, nested to any depth. Octets behind a value do not
  change how it is parsed (`ParseWithMore`, `ElementsWithMore`), a definition and
  every value written is read whole, as what it stands for (`DefinitionIsRead`,
  `EncodingIsRead`), the headers are skipped exactly (`HeadersSkipped`), and a
  beginning of a value that is not the whole does not parse. The invariant
  `WalkInv` says that the walk is always between two parts: `pos` is behind the
  opening and the first `k` parts, and the `k` items stored are those of these
  parts (`Followed`). `MCWellFormed` checks the hypotheses on the blocks of
  `push_block`.
* `SequenceLemmas` holds what these and the other proofs need about sequences:
  rests, prefixes, and the recursion of `FlattenSeq`, a fold.

**Rings and ASCII tasks** (`AsciiListener_proofs`).
* `RingTypeCorrect` and `RingShowsLatest`, for every size of at least two and any
  octets: `Held` never exceeds the size less one, the limit on the text never
  bites (`AllShown`), and one pass of the loop appends the octet to what is shown,
  less its first if the ring was full (`WriteAdds`). Indices modulo the size are
  first turned into a case distinction (`SuccWraps`, `AfterWraps`), which the
  solver can handle.
* `ListenerHasRoom`: `RoomLeft` needs only that no more than the buffer is ever
  in use (`Within`), since a rest that does not begin at the front is shorter
  than the buffer.
* `AsciiTypeCorrect`: `TypeOK` is not inductive, `line_start` could pass `rx_len`
  if a line end were found behind the text. `Ended` excludes that: while lines
  are split there is a zero at `rx_len`, which no parse removes.
* `DebugPageShowsLatest`: every step of the tasks is one of the ring or leaves it
  alone, so that `RingShowsLatest` holds of the program that uses it, which is
  what `ascii` checks.
* `CutsDoNotMatterHolds`: what is in the buffer from `line_start` on and what is
  on the line make up one text (`Unread`). Reading and the `memmove` leave it
  as it is, the former because reading starts at the front (`FromFront`);
  parsing takes the first line off it (`ParseTakesLine`). That the values of a
  text are that of its first line and those of the rest (`ValuesFromFirst`)
  comes from the fold's own recursion (`FlattenConcat`).
* `LeavesAtEndHolds`: the invariant `LeaveInv` follows a session of
  `iec62056_21_task` without faults: its identification, the telegram, then an
  end of a telegram in which the `!` is in the last line (`Ending`); and while
  lines are split there is a zero just before `line_start`, and a `!` further
  to the front only if the whole text has been parsed (`InSession`). So where
  the search finds a `!`, in the rest or in what `memmove` left, nothing is
  owed (`EndSeenRightly`). `AsciiAssumption` says that `!` and the zero octet
  are no part of codes, values or line ends.

**Settings** (`Gateway_proofs`). `UsedAlwaysStored`, `TornSaveHolds` and
`SavedAsEnteredHolds` are theorems of `SettingsSpec`, in which anybody may save any
form. `PageSavesAsSpecified` and `GatewaySavesAsSpecified` carry them over to the
page and to the whole gateway, whose every step is, seen from the settings, one of
theirs or none. `SettingsAssumption` says that no choice on the page is the empty
string, and that a piece of "on" is not "on".
* `TornSaveHolds` needs that the fields still to be stored are those of the form
  but for one cut value (`TodoFromForm`).
* `SavedAsEnteredHolds`: while a save is under way, what is no longer to be stored
  has been, unless its write failed (`PartSaved`), with the checkbox, cleared first
  and set only if sent, as its special case (`Checkbox`); the reply comes after the
  last field (`RepliesLast`).
* `UneditedAsToldHolds`: the page shows of each setting it was told and that was
  not edited since what `Shown` makes of it (`Shows`); a save the page submitted
  is of such a form, and what is left is `SavedAsEntered`.
* `UsedAlwaysStored` is inductive as it stands.

**Uplink** (`Gateway_proofs`). Every step of the device is, seen from the uplink,
one of its own (`Parts`), so that its invariants hold of the whole.
* `GatewayTypeCorrect` and `GivesUpOnlyAfterAllTries` need `StationCounts`, which
  ties the retry counter to the disconnections seen.
* `OnlineAlwaysRevocable` is inductive as it stands.

Each of these inductive invariants was checked by TLC on the instance of its run
before it was proved.

**Only model-checked.** The seven liveness properties (`CycleEnds`, `Recovery`,
`BackInStep`, `KeepsReading`, `BackInReach`, `BackOnline`, `StatusFollows`), which
the prover does not reach. Every invariant and action property that a passing
run checks, and both refinements, are theorems.

## 5. What the models show beside the properties

Behaviour of the code that nothing in the repository promises otherwise, so that
no run claims the contrary, but that the models had to reproduce:

* Under the two ASCII tasks nobody creates `g_readings_mutex`: `cache_readings`
  returns at once, the dashboard stays empty and a state message has every field
  null.
* When noise fills the listener's buffer the clearing takes along the beginning of
  a frame that is half in it; the rest, when it comes, is no frame any more.
  `NothingIntactLost` says that this is the only loss of the listener's own.
* A state message is filled in from the cache, and `e450_push_task` caches the
  value it is sent for only after that call: each message is one value behind,
  the first null. `E450Push` has the same order.
* `iec62056_21_task` searches for `!` only in what is left after the last whole
  line. If the `!` comes in one read with its own line end it is consumed as a
  line, and the session ends by its five seconds.
* No block check is made: if octets between a code and a later value are lost,
  a line may give a reading that was never sent. `CutsDoNotMatter` is about how
  the octets are cut, not about losing them.
* A line of the length of the buffer leaves `iec62056_21_task` with no room
  until its session times out; `KeepsReading` shows that it recovers.
* `wait_for_frame` discards a broken candidate and does not search what is left
  before further octets come: a whole frame in its buffer may then go
  unnoticed until the timeout. `GivesUpRightly` excludes this case, and no other.
* `/api/config` does not return the settings of the E450, so any save stores
  the page's choice for them, parity `none`, where the task's default is `even`;
  and on a new device the page shows `e570` while the E450 task runs, so that
  the first save of something else changes the meter. A page submitted
  before it was filled in, or whose fetch failed, stores its defaults, MQTT on
  among them, over what was stored.
* A page filled in before another session's save sends back what was stored
  before it and undoes it. `UneditedAsTold` says what is stored: for what was
  stored when the page was told and the user left alone, what the page was told.
* The clearing of `mqtt_en` is as unchecked as the other writes: if it fails, MQTT
  stays on though the form has it off. `TornSave` names the case.
* The page offers `mbus`, for which `app_main` starts no task, and does not offer
  the ASCII types; a stored type it does not offer is not sent back.
* The stored `ssid` is not used: the station's network is a constant.
* A message handed over on a dead connection is lost (QoS 0) although
  `mqtt_publish_readings` returns `ESP_OK`; `BackOnline` says that this ends.
* `clear_trace_buf` is never called.

## 6. What is not modelled, and why

Time is abstracted to whether a timeout may expire. Checksums are an oracle,
and control octets and addresses are record fields. Floating point (scalers,
FLOAT64 shown through `float_val`) is beyond the tools. The register set and the
configuration do not change while a task runs. In `E450Push`
`mqtt_publish_readings` is one step; `Uplink` splits it. In `AsciiListener` the
meter speaks between, not during, the splitting of what was read: its steps
touch other octets and commute. The five seconds of a session cover a telegram;
where they do not, that is one of the faults. Of a number only its identity is
kept, and numbers are not cut by a lost octet into other numbers. The broker
itself does not fail. URL decoding, JSON layout and authentication are left
out. `mqtt_publish_ha_discovery` is never called, and neither is
`dlms_client_push_task`: no `meter_type` leads to it, so there is no composition
of the firmware in which it runs. `dlms_helpers.c` is stateless text conversion.
`tools/pc_test` (a desktop tool), the patch scripts, `e450_push.c` at the top
and the build tree are not part of the firmware.

## 7. Plan

Done, in this order because the first is what the device is for: `DlmsPoll` and
`PollPromise`, `ReadingsCache`, `E450Push`, `HdlcFraming`, `AxdrBlock`, `Ring`,
`AsciiListener`, `Settings`, `SettingsPage`, `Uplink` and `Gateway`, all with
proofs.

Every safety property a passing run checks is a theorem. Open are theorems
about what no run checks: the statistics counters of `DlmsPoll`, which nothing
reads, and the composition of `AxdrBlock` with `E450Push`, whose items are those
of a block as section 2 says but which are checked and proved apart.
