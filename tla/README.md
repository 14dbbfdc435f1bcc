# A TLA+ model of the Haidi BMS driver

The driver talks to a Haidi battery management system over a half-duplex serial
bus. The application polls (`poll_*`, `set_*_mos`), hands received bytes to
`feed()` and the time to `tick()`; the driver answers with events. There are no
threads and there is no blocking: what makes the code hard is that handlers call
back into the object that is calling them, that replies come late, in part, twice
or never, and that time and counters wrap.

Paths are relative to the repository root (`include/`, `src/`, `tests/`, `docs/`).

## 1. Inventory

| Part | State | Operations | Status |
|---|---|---|---|
| Session, `HaidiBMS` (`src/haidi_bms.cpp`, `include/haidi_bms.hpp`) | request ring, transaction state, clock and deadline, retries, reassembly counters, learnt pack size, `dispatching_`, handlers and timeouts | 40-odd `poll_*`/`set_*_mos`, `feed` (through `on_frame`, `on_frame_error`), `tick`, `reset`, setters | `HaidiBMS`; what it promises in `RequestQueue`; the bytes of paginated and streamed replies in `Reassembly` |
| Frame parser (`haidi_frame_parser.{hpp,cpp}`) | `buf_`, `len_`, `discarded_` | `feed`, `reset` | `FrameParser` |
| Protocol tables (`haidi_protocol.*`, `haidi_decode.*`) | none | whitelist, alarm grid, pagination, frame counts, checksum, encoding, unit conversions | `Protocol` (tables), `Payloads` (encoding, checksum, conversions) |
| Payload decoders (`src/haidi_decode.cpp`, `include/haidi_payloads.hpp`) | none | `decode_single`, `decode_multi`, fault records | dispatch in `Protocol`, the union in `EventPayload`, field layouts in `Payloads`, paginated items and fault records in `Reassembly` |
| Events (`haidi_event.*`) | a tagged union | `as_*()` accessors, `to_string()` | `EventPayload` |
| Examples (`examples/`) | place in the sweep, the open line, the signal, time to the next sweep | `poll_loop`, `dump_all` | `Examples`; their tables in `ExampleTables` |
| Serial bus and BMS | outside the repository | | any frame at any time in `HaidiBMS`; a pack that answers, a line that loses and a clock that runs on in `Link` |

How the parts meet. `HaidiBMS::feed()` gives bytes to the parser, which calls
back `on_frame()` and `on_frame_error()` between two bytes. The session asks the
tables how a reply is paginated, the decoders to fill the event, and calls
`emit()`, which runs the handler of the request and then the session-wide one.
A handler may poll, `reset()`, change a setter, and nothing stops it from calling
`feed()` or `tick()`; `emit()` then returns into a caller (`handle_single`,
`finish_multi`, `handle_stream`, `tick`) that goes on with state the handler may
have changed.

What is hard, and what correctness means here:

* **Session.** The ring keeps its requests and their order through wraps, full
  queues and resets from inside handlers; every accepted request gets exactly one
  outcome, and eventually does; one request at a time is on the bus; nothing is
  transmitted from inside a handler and nothing queued there is forgotten; what
  the final event says of the traffic is true; a request is resent only after
  silence; a read of the pack is sized by the newest count.
* **Parser.** After loss or corruption no genuine frame is dropped, no byte is
  delivered twice, the count of discarded bytes is exact, the buffer never
  overflows.
* **Reassembly.** However frames are lost, repeated, shuffled or numbered, a
  reading is reported in its place or not at all, and never from another reply.
* **Link.** A reply is told from a leftover by its Data ID alone, and a deadline is
  armed from the time of the last `tick()`: both are right only with timeouts that
  cover the line and the loop.
* **Examples.** What is printed under a label is about that probe; nothing is
  refused; a dump ends, with or without a signal, whatever the pack does.
* **Events.** The union is read only through the member that was written.
* **Tables.** Tables written apart from one another (known commands, pagination,
  decoders, structs, accessors, schedule, printers) agree on all 256 Data IDs; no pair of bytes cast to an alarm class and level asks for another command.

`PROJECT.json` lists the hazards one by one, at their lines, with the properties
that cover them.

## 2. Modules

| Module | Role |
|---|---|
| `Protocol` | Data IDs, `is_known_data_id`, the alarm grid, `multiframe_info`, `frames_for`, which ID has a decoder |
| `EventPayload` | which member of the payload is written, and which each accessor reads; extends `Protocol` |
| `Payloads` | `encode`, checksum, conversions, the structs and the terms that fill them; extends `EventPayload` |
| `ExampleTables` | `poll_*` by Data ID, `issue`, `build_schedule`, the printers; extends `EventPayload` |
| `MCProtocol` | one state per pair of bytes; the agreement of all these tables |
| `RequestQueue` | the abstract session: accepted requests, served in order, one outcome each |
| `HaidiBMS` | the session; extends `Protocol`, and has the refinement mapping to `RequestQueue` |
| `MCHaidiBMS` | requests and frames for the session's runs |
| `HaidiBMS_proofs` | theorems about the session: the ring, stranded work, transmission from handlers |
| `HaidiBMS_outcome_proofs` | one outcome each, one request on the wire, the refinement of `RequestQueue`; extends `HaidiBMS_proofs` |
| `HaidiBMS_traffic_proofs` | retries, sizes, verdicts and deadlines; extends `HaidiBMS_outcome_proofs` |
| `FrameParser` | the framer |
| `FrameParser_proofs` | theorems about the framer |
| `Link`, `MCLink` | session, application loop, line and pack composed; extends `HaidiBMS` |
| `Link_proofs` | theorems about them; extends `Link` and `HaidiBMS_traffic_proofs` |
| `Examples`, `MCExamples` | `dump_all` and `poll_loop` over the session; extends `HaidiBMS` |
| `Examples_proofs` | theorems about the two programs; extends `Examples` and `HaidiBMS_proofs` |
| `Reassembly`, `MCReassembly` | the bytes of paginated and streamed replies; extends `Protocol` |
| `Reassembly_proofs` | theorems about those bytes |

### `HaidiBMS`

`bms` is the object: a record with one field per member, under the member's name
without its trailing underscore. A private method that does not dispatch is an
operator from record to record and includes what it calls: `complete(b)` pops the
head if the transaction is still awaited, goes idle and pumps, as lines 167-180
do. `emit()` cannot be an operator, since the application runs inside it. It is
split where control leaves the library:

* the action that calls `emit` pushes an activation on `stack`: the event, the
  request it belongs to (copied before any handler runs, as the code copies the
  handler and its context), the handler now running, and what the caller does
  after `emit` returns: nothing, `complete()`, or the end of a fault record;
* while a handler runs, the application's actions (`Poll`, `Reset`, the setters
  and, up to `MaxDepth`, `feed` and `tick`) are enabled;
* `SessionHandlerRuns` passes from the request's handler to the session's;
  `EmitReturns` restores `dispatching` and performs the caller's remainder in the
  same step, for no application code runs in between.

| Code | Actions |
|---|---|
| `poll_*`, `set_*_mos`, `request*`, `enqueue` | `Poll`; `queue_status` is the result, a refusal changes nothing |
| `reset`, `set_*` | `Reset`, `SetTxHandler`, `SetEventHandler`, `SetResponseTimeout`, `SetInterframeTimeout`, `SetMaxRetries` |
| `on_frame_error` | `OnFrameError` |
| `on_frame` | `RejectIdle`, `RejectSource`, `RejectId`, else one of the handlers |
| `handle_single` | `HandleSingle` (with `note_counts`) |
| `handle_multi`, `finish_multi` | `RejectFrameNo`, `HandleMultiLast`, `HandleMultiMore` |
| `handle_stream` | `HandleStreamEnd`, `HandleStreamMore`, `HandleStreamRecord` |
| `tick` | `TickQuiet`, `TickFinishes`, `TickTruncates`, `TickRetries`, `TickTimesOut` |

History, not members: `sent` (the request last handed to the TX handler and how
often), `heard` (frames accepted into the current reply) and `fate` (the outcome
of every accepted request, by serial number; the serial number stands for
`on_event_ctx`). Guards never read `sent`; `heard` is read only by the bound
`MaxReplyFrames`, and the length of `fate` gives the next serial number and is
bounded by `MaxRequests`.

Widths: the clock counts modulo `ClockMod` (2^32 in the code) and `expired` is the
signed comparison of line 19; `frames_seen` of a stream and the sums in
`note_counts` wrap at 256.

Not kept: the bytes in `assembly_` and `record_`. No branch of the session reads
them. (The first data byte of a frame, its counter, is kept.)

### `RequestQueue`

The outcome of every accepted request and the one being served. The mapping from
`HaidiBMS` takes `fate` as it is and lets `bus` be the request in flight while it
has no outcome: from the moment the final event is dispatched until `complete()`
pumps, nothing is served. `reset()` drops everything, also from inside a handler,
and the request polled next is served at once or when the handler's caller pumps.

### `Link`

The loop of the examples in steps: `tick()`, then `feed()` of each thing read, with
polls anywhere between, handlers included. `late` is how far `now_ms_` is behind the
clock. When the session transmits, the pack puts its reply on the line; a frame
arrives within its bound, or is lost or arrives broken, and then waits in the port
until it is read. Every frame carries, as history, the transmission it answers.

`LinkAssumption` is what the timeouts must cover: the response timeout the pack's
delay, the gaps between all `MaxFrames` frames of a reply, and two turns of the loop
(one because the deadline is armed from an old `now_ms_`, one because `tick()` comes
before the read); the inter-frame timeout all the gaps and two turns. One gap is not
enough there: the next frame may be lost, and a deadline that passes before the frame
after it would end the request with that frame still on its way, to be read as an answer
to the next one. `ReplyFits` says no reply asked for is longer than `MaxFrames`,
whatever pack size a read without a hint is sized by (16 frames at most). The
assumption is tight: in `link`, with the response timeout one smaller TLC finds
`AnswersItsOwn` violated, with the inter-frame timeout one smaller `PromptReplyHeard`;
with replies of three frames and an inter-frame timeout that covers one gap,
`AnswersItsOwn`. With the code's 250 ms and the examples' loop of 2 ms it leaves some
246 ms to the pack and all its gaps.

### `Examples`

`app` is the program: where it is, `g_line_open`, `g_trace`, `g_stop`, `this_probe`,
and the time since the probe was sent or, in the pause, 2 for every turn, whatever the
clock says. One turn of the crank is
`PumpTicks`, any number of `PumpFeeds` up to what a read holds, and the code after
it; handlers only print, so that `Return` is the only other step. A step of the
session that calls a handler or, with the trace on, transmits or reads, ends the
open line (`Printed`).

| Code | Actions |
|---|---|
| `pump()`, the loop body of `poll_loop` | `PumpTicks`, `PumpFeeds`, `PumpFails`, `HandlerReturns` |
| `run_sweep()` | `StartProbe`, `HeedSignal`, `GiveUp`, `NextTurn`, `ProbeSettled`, `CloseProbe` |
| `main()` of `dump_all` | `Main`, `EndSweep`, `PauseTurns`, `EndPause`; `on_signal` is `Signal` |
| `main()` of `poll_loop` | `Main`, `AskNext`, `AskedAll`, `StartSweep`, `NoSweep` |

### `Payloads` and `ExampleTables`

Operators only. A struct is the sequence of its members' types (arrays written out);
an initialiser list is a sequence of terms, each a conversion and the byte it starts
at. `issue` composes the `switch` of `dump_all` with the Data ID each `poll_*`
requests. A printer is the result of the first accessor of its chain that answers.

### `Reassembly`

The same methods as the paginated part of `HaidiBMS`, with the buffer and without
the rest of the session: a transaction starts, frames of the pack's reply arrive in
any order, any number of times or never, and the reply ends when all expected
frames are in or at the deadline. A byte is its origin, a pair of the reply and the
position in it, so that a shifted, stale or blank byte is told from the right one.
A fault stream sends its frames in order; up to `MaxDamage` of them are lost or
repeated. `Decoded` is `decode_multi()`: pairs of bytes for cells, single bytes otherwise. The
tables are those of the code, with frames of seven bytes and a buffer of 119. The
pack (`ReplyFrames`, `FrameByte`) is external.

### `EventPayload`

Operators only. An event is its kind, Data ID, error, and the member of the union
that was written, `capacity_voltage` (the first) when none was. `Emitted` is what
the session's calls of `emit()` produce for a Data ID. An accessor is an operator from the event, and
for alarm thresholds a level, to the member it hands out.

### `FrameParser`

One step consumes one byte. `buf` is the filled part of `buf_`, so `len_` is its
length. Since `sink` and `on_error` are called after the members are up to date,
and the loop reads them again only for the next byte, a callback that resets the
parser is the action `Reset` between two bytes. `stream` (the bytes since the
last reset) and `frames` (where each delivered frame began) are history.

## 3. What is checked

Passing runs:

| Run | Instance | Shows |
|---|---|---|
| `session` | 2 slots, 3 requests: a MOSFET write, the size of the pack, the cells with a hint and without, the fault stream and an unknown ID; right and wrong frames, framing errors, ticks, resets, handlers that poll | `TypeOK`, `QueueInOrder`, `NoStrandedWork`, `OneOutcome`, `WireMatchesHead`, `SizedByLatestCount`, `VerdictMatchesTraffic`, `OneOutstanding`, `ResendOnlyWhenSilent`, `NoTxInsideHandler`, and the refinement `KeepsPromise` |
| `reconfigured` | all setters at any moment, also from handlers; a two-frame read and the fault stream; a clock of 6 that wraps; fair ticks, any bus | `DeadlineAhead`, `NoStrandedWork`, `EventuallySettled` |
| `framer` | every stream of up to 12 bytes over three byte values, in 6-byte frames | `TypeOK`, `ByteAccounting`, `FramesFromStream`, `NoGenuineFrameLost` |
| `tables` | all 65,536 pairs of bytes, as Data ID or class and level; every event of that Data ID, every accessor | `EveryAcceptedCommandDecodes`, `AlarmPairNeverAliases`, `FramesCarryTheItems`, `AccessorsReadWhatWasWritten`, `OneAccessorAnswers`, `DecodersFillTheirStructs`, `EncodedFramesAreSound`, `EveryReplyPrinted`, `ScheduleReadsEverythingOnce` |
| `reassembly` | text of 16 and 32 bytes, a version, 8 cells and 8 or 21 sensors with the count known, unknown, too small and too large, 48 cells over 16 frames numbered from 1; both numberings; a stream of three fault records, two frames of it lost or repeated; replies one after another | `ReadingsInPlace`, `NothingForeign`, `RecordsInOrder` |
| `link` | two slots, three requests: a MOSFET write on or off, a two-frame read (`MaxFrames` of 2), the fault records; loop period, delay and gap of 1, timeouts of 5 and 4 | `AnswersItsOwn`, `PromptReplyHeard` |
| `examples` | `dump_all` with the fault records and a plain read, two sweeps, trace on or off, a signal at any moment; `poll_loop` with a start-up and a sweep that fill the ring; any traffic | `LinesClosed`, `OutcomeUnderItsLabel`, `NothingRefused`, `NoneStoredIsSaidRightly`, `Finishes` |

Violations, each a disagreement between the code and what its comments promise:

| Run | Property | What happens |
|---|---|---|
| `stranded` | `NoStrandedWork` | A stray frame, or a framing error, is reported while the session is idle; a handler polls. `dispatching_` keeps `enqueue()` from pumping, and these two callers of `emit()` do not pump when it returns. The request was accepted (`QUEUED`), is never sent, never times out, and leaves with the next poll. |
| `long_stream` | `ResendOnlyWhenSilent` | After 256 frames of a fault stream `frames_seen_`, a `uint8_t`, is 0 and the deadline resends a request that was being answered. |
| `framer_length` | `LengthFieldEnforced` | After a checksum failure `resync()` can stop at a start flag whose length field is already buffered; the field is compared only in the step that stores it, so the candidate is delivered with a wrong one. |
| `first_frame_lost` | `TruncatedAtFirstMissing` | The base of a transfer is the lowest counter that arrived. When the first frame is the one lost, the others are reported as a success from the first item on: cell 4 as cell 1. `ReadingsInPlace` says that this is the only loss that does it. |
| `scalings` | `ScalingsExact` | `to_current_da()` narrows to `int16_t`: raw readings from 62768 on come out as a discharge. |

The first is why the passing runs set `PollWhenIdle = FALSE` (a handler of an
event that ends no request polls only while `busy()`). They also set `MaxDepth = 1`
(no `feed()`/`tick()` from a handler): `complete()` pumps regardless of
`dispatching_`, so with `MaxDepth = 2` a handler that feeds the end of a fault stream
makes the session transmit under the outer handler, and `NoTxInsideHandler` fails.
Both are conditions on the application, not on the code; the proofs state them as
hypotheses.

Smaller disagreements met on the way, which no run is spent on: `dump_all` may print
"gave up" after the probe's outcome, since the guard is looked at before `busy()`, and
gives up in earnest when retries times timeout exceed 30 s (line 1049: "only if the
session somehow never settles").

Four more are in the models, and hazards in `PROJECT.json`, without a run of their own:

* One frame of a fault stream lost or repeated shifts every later record of it: the next
  event carries the end of one record behind the beginning of another
  (`include/haidi_payloads.hpp:278`: "one Event carries one record"), and the advisory
  `checksum_ok` is all that tells. `RecordsInOrder` is what is left: the records before
  the damage, and the next stream.
* The board counts of 0x51 are summed in a `uint8_t`: 255, 2 and 1 cells are cached as 2
  (`include/haidi_bms.hpp:747`: "the sum over the three acquisition boards").
  `SizedByLatestCount` reads the count as cached, wrapped or not.
* `run_sweep()` looks at `g_stop` after every turn: a signal has `dump_all` leave its
  probe with the request in flight (its line 1130: "Leave the sweep to finish the probe it
  is on, then stop cleanly"). `Finishes` and `LinesClosed` hold all the same.
* A fault stream that ends with part of its only record in emits nothing, and `dump_all`
  prints "none stored" (its line 1094 takes the silence for "an empty log").
  `NoneStoredIsSaidRightly` is what holds: never after a whole record.

### Bounds, and why they are enough

* `QUEUE_CAPACITY = 2`, `MaxRequests = 3`: the ring fills, refuses, wraps past
  its end, and a third request is accepted while the first is still dispatched.
  The theorem `QueueOrdered` covers every capacity.
* `ClockMod` 4 or 6 (8 in `examples`, 12 in `link`) with timeouts of at most its half: the clock goes
  round many times. `reconfigured` uses steps of 2 against timeouts of 1, 2 and 3, so
  a tick lands before, on and after a deadline. Timeouts beyond half the clock (2^31 ms)
  expire at once; the setters accept them, the runs do not.
* `MaxReplyFrames = 4` in `session` completes one fault record (four frames) and
  a two-frame reply with duplicates; 256 in `long_stream`, where the wrap is.
  `reconfigured` uses 2 frames and 2 requests: a read is left half in, or completed, with
  another request behind it. Handlers are set, cleared and set again; timeouts and
  the number of retries are changed once, at any moment.
* `SizedByLatestCount` meets four cells and a hint for three in `session`, so that the two
  sizes differ; sensors and the counts of 0x51 are left to the theorem, which covers every
  count and hint.
* `framer` scales the frame to 6 bytes with the length field at index 2 (13 and
  3 in the code) and 12 bytes of stream: two whole frames, or a broken one with a
  genuine one beginning at each of its bytes. The alphabet is a start flag, a
  length flag and another byte, with checksums modulo 3. `discarded` wraps at 4.
  The theorems cover every length, alphabet and stream.
* `reassembly` uses the real sizes. Two tags tell a reply from
  the one before it; behaviours have any number of replies. Every set of frames
  received is a state, so order and repetition are covered without a bound. In a
  stream two frames are damaged, in different records, in one, or the same frame
  twice, and a loss after a repetition may undo its shift.
* `link`: three requests through two slots, so that one is queued behind the one on
  the line and a third follows a timeout; one retry; the bounds of the line are one
  unit each, the least at which early, late and just in time differ. The theorems
  cover every bound and every length of reply.
* `examples`: a guard of 3 against timeouts of 2 with one retry, so that a probe can
  settle before, in the same turn as, and after the guard; a ring of two that the
  sweep fills; four requests, two sweeps of `dump_all` or the start-up and one sweep
  of `poll_loop`. The bound `MaxRequests` ends its sweeps, not its loop. `interval_ms` is 3,
  so that a pause takes two turns of 2.
* `tables` is exhaustive. `bytes_per_frame` and `total_bytes` of the pack-sized
  reads are zero in the table and are not compared.

Deadlock is checked in every run but those of `MCExamples`, where `dump_all` ends.

### Fairness

In `reconfigured`: `WF(Return)`: handlers return. `SF` of `tick()` with a
clock that has moved: the application's loop calls `tick()` in every turn, as the
examples do, and so infinitely often with no handler on the stack; strong
fairness, because between two turns a handler may be running and disable it.
Nothing is assumed of the bus, of polls or of resets. `MaxReplyFrames` does carry
weight here: each accepted frame, duplicates included, re-arms the inter-frame
deadline, so a device that repeats one frame for ever keeps a read of unknown
length open for ever. The property says: as long as a reply has finitely many
frames.

In `examples`: weak fairness of the program's own steps. It is one thread that never
blocks: both programs open the port `O_NONBLOCK` with `VMIN` and `VTIME` zero and
sleep two milliseconds a turn. `PumpTicks` moves the clock, as `monotonic_ms()` does.
Nothing is assumed of the pack or of the signal. `Finishes` is about a given number
of sweeps; with `-n 0` the program is meant to go on.

## 4. What is proved

TLAPS checks the theorems below for every value of the constants that satisfies
the named assumptions: a capacity of at least one, an even clock modulus, inputs
of the right types; for the framer, a length field after the start flag and
before the checksum; for reassembly, reads of paginated commands; for the examples,
probes of known Data IDs, a start-up and a sweep that fit into the ring (two and seven
requests against 24 slots) and a positive guard; for the line, timeouts that cover it
(`LinkAssumption`, section 2) and are at most half the range of the clock. The bounds
`MaxRequests`, `MaxReplyFrames`, `MaxFed` and `MaxDamage` are arbitrary naturals.
Where a theorem needs more, it says so itself:

| Hypothesis | What it says of the code | Without it |
|---|---|---|
| `MaxDepth = 1` | no handler calls `feed()` or `tick()` | `complete()` may run under an outer handler, and pumps there (section 3) |
| `~PollWhenIdle` | no poll from the handler of a stray frame or framing error of an idle session | the run `stranded` |
| `TxHandlers \subseteq {TRUE}` | the TX handler is replaced, if at all, by another one and never by none | `transmit()` returns without sending, and the session awaits what it never sent |
| `MaxReplyFrames < 256` | a reply has fewer frames than `frames_seen_` counts | the run `long_stream` |
| `Paced` | timeouts and the steps of the clock are at most half its range (2^31 ms) | the signed comparison of line 19 takes a deadline ahead for one that has passed |

`HaidiBMS_proofs`:

* `TypeCorrect` (`TypeOK`) and `QueueOrdered` (`QueueInOrder`), at every depth of
  re-entrance. Neither is inductive: `complete()` on an empty ring would wrap
  `queue_count_`, and nothing in `TypeOK` says the ring is not empty. `Good` adds
  that an awaited transaction has a request in the ring. This is also what makes
  the guard of line 174 right: a `reset()` from the handler leaves the session
  idle, so nothing is popped, and if the handler goes on to poll, the request
  waits for the `pump()` at the end of `complete()`.
* `NothingStranded` (`NoStrandedWork`) and `TransmitsOnlyBetweenHandlers`
  (`NoTxInsideHandler`), for `MaxDepth = 1` and `~PollWhenIdle`. `Disciplined`
  adds `Flat` (at most one activation, `dispatching_` says whether there is one,
  and it is not nested) and `NothingWaits`: an idle session may hold requests
  only under an activation whose caller will pump. `NoStrandedWork` alone says
  nothing of the time a handler runs, and so is not preserved by its return.

  The proofs go method by method (what `pump`, `complete`, `enqueue` and the rest do to a
  well-formed object), then shape by shape: `NextShape` shows that every action
  polls, resets, returns from `emit`, emits, retires a request, or leaves ring
  and stack alone.

`FrameParser_proofs`:

* `TypeCorrect`, `BytesAccounted`, `FramesInPlace`, `GenuineFramesSurvive`, for
  every frame length, alphabet and stream. The invariant is `Parsed` with
  `Counted`. `Parsed` says the buffer is the tail of the stream, the frames lie in
  order before it, and every earlier position is inside a delivered frame or
  `Refuted`: a wrong start flag, length field or checksum has been seen there.
  `Refuted` is stable, since later bytes change nothing that was fed, and that is
  what carries "no genuine frame lost" through each `resync()`. The checksum is
  never unfolded: only that it is a function of the window matters.

`HaidiBMS_outcome_proofs`, all for `MaxDepth = 1`, whatever handlers poll or reset:

* `EveryRequestHasOneOutcome` (`OneOutcome`). `QueueOrdered` says the ring holds the
  requests accepted last, so which are still in it is a matter of their numbers:
  the oldest is `First`. `Accounted` says a request before `First` has its outcome and
  one from `First` on has none, with one exception: the head, while its final event
  is being dispatched (`Closing`). The exception is what needs care, because a
  `reset()` of the handler ends it without an event and `complete()` must then pop
  nothing.
* `OneRequestOutstanding` (`OneOutstanding`), from `SentInOrder`: what was sent last is
  not behind the head, and is before it when the session is idle.
* `SessionKeepsPromise` (`KeepsPromise`): every step of the session is a step of
  `RequestQueue` or a stutter. `NextMoves` sorts the twenty-odd actions into six
  moves (rest, close with an event, end silently, accept, drop all, go on), and the
  three theorems argue on the moves, once each.

`HaidiBMS_traffic_proofs`. The invariant is `Booked`, at every depth of re-entrance:
`Good` with four parts, each relating a member to what happened on the wire.
`SentBefore` makes every start of a transaction the first transmission of its
request; `Sized` keeps `expected_frames_` what it would be if the read started now,
through a count that arrives while the read is in flight or queued; `Tallied` relates `frames_seen_`,
`seen_mask_` and `record_len_` to the frames heard; `Wired` says what is in flight
was sent once more than `retries_` counts.

* `AwaitsWhatItSent` (`WireMatchesHead`), with `TxHandlers \subseteq {TRUE}`.
* `SizedFromStartToEnd` (`SizedByLatestCount`), with no hypothesis.
* `ResendsOnlySilence` (`ResendOnlyWhenSilent`), for replies below 256 frames.
  `SentBefore` excludes the other way to send a request twice, by starting it again;
  `Tallied` says the retry of `tick()` happens only with nothing heard.
* `VerdictsAreTrue` (`VerdictMatchesTraffic`), with `MaxDepth = 1` and both
  hypotheses above: the event is true when it is made (from `Tallied` and `Wired`)
  and stays so while its handlers run, for `heard` and `sent` belong to the request
  in flight and no handler starts another one.
* `DeadlineNeverMissed` (`DeadlineAhead`), with `MaxDepth = 1` and `Paced`, across
  every wrap of the clock. `Timely` says the deadline is ahead also under a handler
  whose caller will not touch the deadline again; under the others it may have
  passed, and their return re-arms it or goes idle. `ClockSteps` sorts the actions
  into those that leave the deadline, arm it, or have spent it.

`Reassembly_proofs`, for every set of reads, stream length and damage:

* `ReadingsKeepTheirPlace` (`ReadingsInPlace`) and `NoForeignBytes` (`NothingForeign`).
  The invariant is `Reassembled`. Its heart is `Holds`: every frame in `seen_mask_`
  belongs to the reply and lies in `assembly_` at its counter times the frame size,
  with the pack's bytes. Filing a frame keeps the others (`FramesApart`);
  `DecodedBytes` then shows that the items cut from the leading run of the mask are
  the pack's, and `CountAsDocumented` that there are as many as documented, as a
  minimum of three lengths in bytes against a minimum of counts in items.
* `RecordsKeepTheirOrder` (`RecordsInOrder`). `Building` holds after any damage: the
  record is whole frames of this stream, at most three of them between steps.
  `Aligned` holds until the first: the record is where the pack is. `Reported` is
  what remains of it afterwards.

`Examples_proofs`, with no hypothesis but `ExamplesAssumption`: the handlers of the
programs print and never call the session, so what the session's theorems assume of
the application is here a property of the model.

* `NoLineLeftOpen` (`LinesClosed`), from `Cranked`: the program's state alone. `Closed`
  adds that a probe with an event has its line closed, which is what makes the test of
  `this_probe` in `CloseProbe` enough.
* `EveryPollAccepted` (`NothingRefused`) and `EventsUnderTheirLabel`
  (`OutcomeUnderItsLabel`), from `Turned`, which relates the program's place to the
  session. `InTurn`: no handler runs between two turns, what is left of a sweep fits into
  the ring, and dump_all comes to its next probe with a session that has nothing to do,
  unless it was interrupted. `OneProbe`: the probe is the only request in the ring and
  the last one accepted, so the event of a request in flight is its own. `Spares` says
  what a turn needs of the session: no step of `feed()`, `tick()` or a returning handler
  takes a slot, removes the TX handler or gives an idle session work.
* `NoneStoredMeansNone` (`NoneStoredIsSaidRightly`), from `Collecting`: while the fault
  records are waited for and nothing was printed, no handler has run and `record_len_`
  is seven times the frames heard, so that the fourth would have been an event. It needs
  `Flat` again, here for what the programs do: a probe sent with `dispatching_` left on
  would wait with the counters of the reply before it.

`Link_proofs`, with no hypothesis but `LinkAssumption`: `ReadsItsOwnAnswers`
(`AnswersItsOwn`) and `PromptRepliesHeard` (`PromptReplyHeard`), for every ring, clock,
mix of requests, length of reply, delay, gap and loop period, every loss and every
corruption, and wherever the loop or a handler polls. Both follow from one invariant,
`LinkInv`, since neither carries itself: that nothing stale is read depends on no
deadline passing while a frame is on its way, and a deadline that passes is the line's
fault only if every frame that was not lost has been counted. Its parts:

* `LinkSession`: the session is `Booked` and `Flat`, with the default timeouts, and
  `InHand` relates `frames_seen_`, `seen_mask_` and `expected_frames_` of what is in
  flight. The pack of `Link` has no fault records, so no event of a stream is dispatched.
* `OnLine` and `OnUart`: while an answer is awaited (`Waiting`), the line holds the end
  of its reply in order, and the port other frames of it, whole or corrupt, no counter twice
  and none already in `seen_mask_`. Otherwise both are empty, also while the outcome is being
  dispatched: so `complete()` finds a free line.
* `Balance`: frames counted, unread and still with the pack add up to the reply, unless
  the transmission is in `lost`. It makes the frame that completes a reply the last one
  on its way (`LastIsLast`), and an expired deadline the line's fault.
* `InTime`: the time left to the deadline exceeds the age of `now_ms_`, all the pack may
  still take, and one turn of the loop. `TickNears` carries it across the wrap of the
  clock, so `tick()` finds the deadline passed only with line and port empty
  (`TickInTime`); transmitting and filing a frame establish it (`ReplyOpens`,
  `FiledBooks`) from `LinkAssumption`.

The lemmas up to `FiledBooks` speak of a session record, a line and a port as plain
parameters; after it there is one per action. TLC checked `LinkInv` on the instance of
`link` before it was proved.

Only model-checked:

* `EventuallySettled` and `Finishes`: liveness under fairness.
* The properties of the tables and of the accessors: their run is exhaustive, and
  there is no parameter left to prove them for.

## 5. What is not modelled

* A TX handler that calls back into the session: `transmit()` is one step.
* `to_string()` and the formatting of values; `dump_all`'s argument parsing; opening
  and configuring the port; the advisory sum of a fault record (`checksum_ok`).
* A pack with stored fault records in `Link`: its answer to 0x64 is the end of the stream.
* `reset()` and the setters in `Link`. An echo on its way when the application calls
  `reset()` and writes again is taken for the new one's: the protocol has nothing to
  tell them apart by.
* The parser inside the session: `HaidiBMS` takes frames and errors from
  `Frames` and `FrameErrors`, in any order, and `reset()` of the parser is an
  action of `FrameParser`. Frames of one `feed()` call are separate steps, between
  which the application may act; the code allows this from handlers only, so the
  model has at least the code's behaviours.

## 6. Plan

Parser and session composed byte by byte, with a `reset()` from a handler in the
middle of a chunk. Apart, they already cover it: `Reset` of the parser is an
action between any two bytes, and the session takes any frame after any step.
