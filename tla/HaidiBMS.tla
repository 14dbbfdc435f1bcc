------------------------------ MODULE HaidiBMS ------------------------------
(***************************************************************************)
(* The session of src/haidi_bms.cpp: the request ring, the transaction on  *)
(* the bus, its deadline and retries, the counting of multi-frame replies  *)
(* and the dispatch of events to handlers.                                 *)
(*                                                                         *)
(* The object is one record, bms, whose fields are the members of the      *)
(* class; a method that other methods call is an operator from record to   *)
(* record, so that complete() is complete(b), with the pump() it ends in.  *)
(* emit() is where the library gives up control: it calls the              *)
(* application's handlers, which call back into the session before emit()  *)
(* returns and its caller goes on.  stack holds the activations of emit()  *)
(* under way, innermost last, each with what its caller does next.         *)
(*                                                                         *)
(* A frame is what the parser delivers: source, Data ID and eight data     *)
(* bytes.  The bytes of a paginated reply and of a fault record are data   *)
(* that no decision of the session depends on: only their number is kept.  *)
(***************************************************************************)
EXTENDS Protocol, Sequences, FiniteSets

CONSTANTS
    QUEUE_CAPACITY,       \* slots of the request ring
    ClockMod,             \* the clock is a counter modulo this (2^32 in the code)
    BmsAddress,           \* bms_address_
    DEFAULT_RESPONSE_TIMEOUT_MS, DEFAULT_INTERFRAME_TIMEOUT_MS, DEFAULT_MAX_RETRIES,
    ResponseTimeouts, InterframeTimeouts, RetryLimits,  \* values the setters get
    TxHandlers, EventHandlers,  \* values the handler setters get: TRUE is non-null
    Polls,                \* the requests the application makes
    Frames,               \* the frames the bus can deliver
    FrameErrors,          \* the errors the parser can report
    TickSteps,            \* by how much the clock advances between two ticks
    MaxRequests,          \* bound: requests accepted in a behaviour
    MaxReplyFrames,       \* bound: frames accepted into one multi-frame reply
    MaxDepth,             \* activations of emit() at once; 1: no re-entrant feed/tick
    PollWhenIdle          \* may a handler poll from a non-final event while idle?

Timeout  == 0..(ClockMod - 1)
Data     == [0..7 -> Byte]
PollArgs == [id : Byte, on : BOOLEAN, hint : Byte, fn : BOOLEAN]

ASSUME CapacityAssumption == QUEUE_CAPACITY \in Nat /\ QUEUE_CAPACITY > 0
ASSUME ClockAssumption    == ClockMod \in Nat /\ ClockMod > 1 /\ ClockMod % 2 = 0
ASSUME TimingAssumption   ==
    /\ ResponseTimeouts \subseteq Timeout /\ DEFAULT_RESPONSE_TIMEOUT_MS \in Timeout
    /\ InterframeTimeouts \subseteq Timeout /\ DEFAULT_INTERFRAME_TIMEOUT_MS \in Timeout
    /\ RetryLimits \subseteq Byte /\ DEFAULT_MAX_RETRIES \in Byte
    /\ TickSteps \subseteq Timeout
ASSUME InputAssumption ==
    /\ TxHandlers \subseteq BOOLEAN /\ EventHandlers \subseteq BOOLEAN
    /\ BmsAddress \in Byte
    /\ Polls \subseteq PollArgs
    /\ Frames \subseteq [src : Byte, id : Byte, data : Data]
    /\ FrameErrors \subseteq {"CHECKSUM", "BAD_LENGTH"}
ASSUME BoundAssumption ==
    MaxRequests \in Nat /\ MaxReplyFrames \in Nat /\ MaxDepth \in Nat /\ PollWhenIdle \in BOOLEAN

VARIABLES
    bms,    \* the HaidiBMS object
    stack,  \* activations of emit()
    fate    \* history: what became of each accepted request, by serial number

vars == <<bms, stack, fate>>

MAX_FRAME_INDEX  == 16
FAULT_BUFFER_LEN == 28
FRAME_NO_END     == 255

Slots == 0..(QUEUE_CAPACITY - 1)

(* on_event_ctx is the serial number of the request: the pointer with      *)
(* which the application recognises it.  on is data[0] of a MOSFET write.  *)
Request == [id : Byte, on : BOOLEAN, hint : Byte, fn : BOOLEAN, ctx : Nat]

NoRequest == [id |-> CAPACITY_VOLTAGE, on |-> FALSE, hint |-> 0, fn |-> FALSE, ctx |-> 0]

(* The last two fields are history, not members: the request last handed   *)
(* to the TX handler with the number of times it was, and the frames of    *)
(* the current reply accepted so far.  seen_mask is the set of its bits.   *)
Object ==
    [tx_fn : BOOLEAN, event_fn : BOOLEAN,
     response_timeout_ms : Timeout, interframe_timeout_ms : Timeout, max_retries : Byte,
     queue : [Slots -> Request], queue_head : Slots, queue_count : 0..QUEUE_CAPACITY,
     state : {"IDLE", "AWAITING"},
     now_ms : Timeout, deadline_ms : Timeout, retries : Byte, dispatching : BOOLEAN,
     seen_mask : SUBSET (0..MAX_FRAME_INDEX), frames_seen : Byte,
     expected_frames : Byte, expected_items : Byte, record_len : 0..FAULT_BUFFER_LEN,
     cached_cell_count : Byte, cached_temp_count : Byte,
     sent : [ctx : Nat, tries : Nat], heard : Nat]

Event == [kind : {"RESPONSE", "TIMEOUT", "PROTOCOL_ERROR"}, id : Byte,
          error : {"NONE", "CHECKSUM", "BAD_SOURCE_ADDRESS", "BAD_LENGTH", "UNEXPECTED_DATA_ID",
                   "UNKNOWN_DATA_ID", "FRAME_SEQUENCE", "TRUNCATED", "WRITE_REJECTED"},
          retries : Byte, frames : Byte]

(* owner is the request the event belongs to, 0 when there is none; run is *)
(* the handler running now; then is what the caller of emit() does next.   *)
Activation == [event : Event, owner : Nat, run : {"request", "session", "none"},
               then : {"return", "complete", "stream"}, nested : BOOLEAN]

(* pending: no outcome yet; reported: its final event was dispatched, or   *)
(* its fault stream ended; dropped: abandoned by reset(); twice: reported  *)
(* again.                                                                  *)
Fates == {"pending", "reported", "dropped", "twice"}

-----------------------------------------------------------------------------
(* Methods that do not dispatch events.                                    *)

head(b) == b.queue[b.queue_head]

(* int32(now - deadline) >= 0: the difference lies in the lower half.      *)
expired(now, deadline) == (now - deadline) % ClockMod < ClockMod \div 2

(* A mutant: the deadline of the previous transaction stays.               *)
transmit_without_rearm(b) ==
    [b EXCEPT !.sent = IF ~b.tx_fn THEN @
                       ELSE [ctx   |-> head(b).ctx,
                             tries |-> IF @.ctx = head(b).ctx THEN @.tries + 1 ELSE 1]]

transmit(b) ==
    [b EXCEPT !.sent = IF ~b.tx_fn THEN @
                       ELSE [ctx   |-> head(b).ctx,
                             tries |-> IF @.ctx = head(b).ctx THEN @.tries + 1 ELSE 1],
              !.deadline_ms = (b.now_ms + b.response_timeout_ms) % ClockMod]

(* The items and the frames begin_awaiting() expects: counted when the     *)
(* transaction starts, from the hint or from the pack's last known size.   *)
ItemsExpected(b) ==
    CASE head(b).id = CELL_VOLTAGES ->
             IF head(b).hint # 0 THEN head(b).hint ELSE b.cached_cell_count
      [] head(b).id = CELL_TEMPERATURES ->
             IF head(b).hint # 0 THEN head(b).hint ELSE b.cached_temp_count
      [] OTHER -> 0

FramesExpected(b) ==
    CASE head(b).id = CELL_VOLTAGES     -> cell_voltage_frames(ItemsExpected(b))
      [] head(b).id = CELL_TEMPERATURES -> cell_temperature_frames(ItemsExpected(b))
      [] OTHER -> multiframe_info(head(b).id).frame_count

(* A mutant: the frames of the previous transaction are still counted.     *)
begin_awaiting_keeps_frames(b) ==
    [b EXCEPT !.record_len = 0, !.retries = 0, !.heard = 0,
              !.expected_items = ItemsExpected(b), !.expected_frames = FramesExpected(b)]

begin_awaiting(b) ==
    [b EXCEPT !.seen_mask = {}, !.frames_seen = 0, !.record_len = 0, !.retries = 0, !.heard = 0,
              !.expected_items = ItemsExpected(b), !.expected_frames = FramesExpected(b)]

(* A mutant: starts the transaction and puts nothing on the wire.          *)
pump_without_transmit(b) ==
    IF b.state # "IDLE" \/ b.queue_count = 0 THEN b
    ELSE begin_awaiting([b EXCEPT !.state = "AWAITING"])

pump(b) ==
    IF b.state # "IDLE" \/ b.queue_count = 0 THEN b
    ELSE transmit(begin_awaiting([b EXCEPT !.state = "AWAITING"]))

pop(b) == [b EXCEPT !.queue_head = (@ + 1) % QUEUE_CAPACITY, !.queue_count = @ - 1]

(* A mutant: pops although a handler has already reset the session.        *)
complete_always_pops(b) ==
    pump([(IF b.queue_count > 0 THEN pop(b) ELSE b) EXCEPT !.state = "IDLE"])

(* A mutant: leaves the next request to whoever polls next.                *)
complete_without_pump(b) ==
    [(IF b.state = "AWAITING" THEN pop(b) ELSE b) EXCEPT !.state = "IDLE"]

complete(b) ==
    pump([(IF b.state = "AWAITING" THEN pop(b) ELSE b) EXCEPT !.state = "IDLE"])

(* reset() clears the parser too: see module FrameParser.                  *)
reset(b) ==
    [b EXCEPT !.queue_head = 0, !.queue_count = 0, !.state = "IDLE", !.retries = 0,
              !.seen_mask = {}, !.frames_seen = 0, !.expected_frames = 0,
              !.expected_items = 0, !.record_len = 0]

(* A mutant: the ring has room for one request more than it has slots.     *)
queue_status_off_by_one(b, id) ==
    IF ~b.tx_fn THEN "NO_TX_HANDLER"
    ELSE IF ~is_known_data_id(id) THEN "BAD_REQUEST"
    ELSE IF b.queue_count > QUEUE_CAPACITY THEN "QUEUE_FULL"
    ELSE "QUEUED"

(* What enqueue() returns: the reasons to refuse, in the code's order.     *)
queue_status(b, id) ==
    IF ~b.tx_fn THEN "NO_TX_HANDLER"
    ELSE IF ~is_known_data_id(id) THEN "BAD_REQUEST"
    ELSE IF b.queue_count >= QUEUE_CAPACITY THEN "QUEUE_FULL"
    ELSE "QUEUED"

(* A mutant: transmits although the head request is not yet retired.       *)
enqueue_always_pumps(b, req) ==
    pump([b EXCEPT !.queue[(b.queue_head + b.queue_count) % QUEUE_CAPACITY] = req,
                   !.queue_count = @ + 1])

(* A mutant: files the request behind the head, whatever is queued.        *)
enqueue_behind_head(b, req) ==
    LET filed == [b EXCEPT !.queue[(b.queue_head + 1) % QUEUE_CAPACITY] = req,
                           !.queue_count = @ + 1]
    IN  IF b.dispatching THEN filed ELSE pump(filed)

(* What enqueue() does with a request it does not refuse.                  *)
enqueue(b, req) ==
    LET filed == [b EXCEPT !.queue[(b.queue_head + b.queue_count) % QUEUE_CAPACITY] = req,
                           !.queue_count = @ + 1]
    IN  IF b.dispatching THEN filed ELSE pump(filed)

note_counts(b, id, data) ==
    CASE id = STATUS_INFO ->
             [b EXCEPT !.cached_cell_count = data[0], !.cached_temp_count = data[1]]
      [] id = BMU_CELL_TEMP_COUNT ->
             [b EXCEPT !.cached_cell_count = (data[1] + data[2] + data[3]) % 256,
                       !.cached_temp_count = (data[4] + data[5] + data[6]) % 256]
      [] OTHER -> b

(* Accepting a frame of a multi-frame reply re-arms the deadline.          *)
await_next_frame(b) ==
    [b EXCEPT !.deadline_ms = (b.now_ms + b.interframe_timeout_ms) % ClockMod]

(* A mutant: a stream that a handler ended with reset() does not pump.     *)
after_record_without_pump(b) ==
    IF b.state # "AWAITING" THEN [b EXCEPT !.record_len = 0]
    ELSE await_next_frame([b EXCEPT !.record_len = 0])

(* What handle_stream() does once a full record has been dispatched.       *)
after_record(b) ==
    IF b.state # "AWAITING" THEN pump([b EXCEPT !.record_len = 0])
    ELSE await_next_frame([b EXCEPT !.record_len = 0])

-----------------------------------------------------------------------------
(* Dispatch.  emit() pushes an activation; while its handler runs, the     *)
(* actions of the application are enabled; EmitReturns ends it.            *)

Top == stack[Len(stack)]

ResponseEvent(id, frames) ==
    [kind |-> "RESPONSE", id |-> id, error |-> "NONE", retries |-> 0, frames |-> frames]

TimeoutEvent(id, retries) ==
    [kind |-> "TIMEOUT", id |-> id, error |-> "NONE", retries |-> retries, frames |-> 0]

ErrorEvent(id, error, frames) ==
    [kind |-> "PROTOCOL_ERROR", id |-> id, error |-> error, retries |-> 0, frames |-> frames]

InFlight(b) == IF b.state = "AWAITING" /\ b.queue_count > 0 THEN head(b).ctx ELSE 0

FirstHandler(b) ==
    IF InFlight(b) # 0 /\ head(b).fn THEN "request"
    ELSE IF b.event_fn THEN "session" ELSE "none"

Reported(f, ctx) ==
    [f EXCEPT ![ctx] = IF @ = "pending" THEN "reported" ELSE "twice"]

(* emit(event) called by a method that goes on with `then`.  A method that *)
(* goes on with complete() is reporting the outcome of its request.        *)
emit(b, event, then) ==
    /\ bms' = [b EXCEPT !.dispatching = TRUE]
    /\ stack' = Append(stack, [event |-> event, owner |-> InFlight(b), run |-> FirstHandler(b),
                               then |-> then, nested |-> b.dispatching])
    /\ fate' = IF then = "complete" THEN Reported(fate, InFlight(b)) ELSE fate

(* The per-request handler has returned: the session-wide one is next.     *)
SessionHandlerRuns ==
    /\ stack # <<>> /\ Top.run = "request" /\ bms.event_fn
    /\ stack' = [stack EXCEPT ![Len(stack)].run = "session"]
    /\ UNCHANGED <<bms, fate>>

EndDispatch(b, nested) == IF nested THEN b ELSE [b EXCEPT !.dispatching = FALSE]

Resume(b, then) ==
    CASE then = "complete" -> complete(b)
      [] then = "stream"   -> after_record(b)
      [] then = "return"   -> b

(* The last handler has returned, and so does emit(), into its caller.     *)
EmitReturns(then) ==
    /\ stack # <<>> /\ Top.then = then
    /\ Top.run = "request" => ~bms.event_fn
    /\ bms' = Resume(EndDispatch(bms, Top.nested), then)
    /\ stack' = SubSeq(stack, 1, Len(stack) - 1)
    /\ UNCHANGED fate

-----------------------------------------------------------------------------
(* The application's calls, from its own loop or from inside a handler.    *)

MayCall == stack # <<>> => Top.run # "none"

(* feed() and tick(); from inside a handler only when MaxDepth allows it.  *)
MayDrive == MayCall /\ Len(stack) < MaxDepth

(* Without PollWhenIdle, a handler of an event that ends no request polls  *)
(* only while busy().                                                      *)
MayPoll == stack # <<>> /\ Top.then = "return" /\ ~PollWhenIdle => bms.state = "AWAITING"

(* Every poll_*() and set_*_mos(): request*(), then enqueue().  A refused  *)
(* request changes nothing.                                                *)
Poll(p) ==
    /\ MayCall /\ MayPoll
    /\ Len(fate) < MaxRequests
    /\ queue_status(bms, p.id) = "QUEUED"
    /\ bms' = enqueue(bms, [id |-> p.id, on |-> p.on, hint |-> p.hint, fn |-> p.fn,
                            ctx |-> Len(fate) + 1])
    /\ fate' = Append(fate, "pending")
    /\ UNCHANGED stack

(* The i-th request of the ring, counted from the head.                    *)
Queued(b, i) == b.queue[(b.queue_head + i) % QUEUE_CAPACITY]

Live(b, s) == \E i \in 0..(b.queue_count - 1) : Queued(b, i).ctx = s

Reset ==
    /\ MayCall
    /\ bms' = reset(bms)
    /\ fate' = [s \in DOMAIN fate |->
                   IF fate[s] = "pending" /\ Live(bms, s) THEN "dropped" ELSE fate[s]]
    /\ UNCHANGED stack

Configure(b) == MayCall /\ bms' = b /\ UNCHANGED <<stack, fate>>

SetTxHandler(fn)    == bms.tx_fn # fn /\ Configure([bms EXCEPT !.tx_fn = fn])
SetEventHandler(fn) == bms.event_fn # fn /\ Configure([bms EXCEPT !.event_fn = fn])
SetResponseTimeout(ms) ==
    bms.response_timeout_ms # ms /\ Configure([bms EXCEPT !.response_timeout_ms = ms])
SetInterframeTimeout(ms) ==
    bms.interframe_timeout_ms # ms /\ Configure([bms EXCEPT !.interframe_timeout_ms = ms])
SetMaxRetries(n) == bms.max_retries # n /\ Configure([bms EXCEPT !.max_retries = n])

-----------------------------------------------------------------------------
(* Receiving: on_frame_error() and the paths of on_frame().                *)

OnFrameError(error) ==
    /\ MayDrive
    /\ emit(bms, ErrorEvent(IF bms.state = "AWAITING" THEN head(bms).id ELSE CAPACITY_VOLTAGE,
                            error, 0), "return")

RejectIdle(f) ==
    /\ MayDrive /\ bms.state # "AWAITING"
    /\ emit(bms, ErrorEvent(f.id, "UNEXPECTED_DATA_ID", 0), "return")

RejectSource(f) ==
    /\ MayDrive /\ bms.state = "AWAITING" /\ f.src # BmsAddress
    /\ emit(bms, ErrorEvent(f.id, "BAD_SOURCE_ADDRESS", 0), "return")

(* A mutant: the counts are noted before the Data ID is compared.          *)
RejectIdNotingCounts(f) ==
    /\ MayDrive /\ bms.state = "AWAITING" /\ f.src = BmsAddress /\ f.id # head(bms).id
    /\ emit(note_counts(bms, f.id, f.data), ErrorEvent(f.id, "UNEXPECTED_DATA_ID", 0), "return")

RejectId(f) ==
    /\ MayDrive /\ bms.state = "AWAITING" /\ f.src = BmsAddress /\ f.id # head(bms).id
    /\ emit(bms, ErrorEvent(f.id, "UNEXPECTED_DATA_ID", 0), "return")

(* The frame answers the request in flight, whose layout is this one.      *)
Reply(f, multi, streaming) ==
    /\ MayDrive /\ bms.state = "AWAITING" /\ f.src = BmsAddress /\ f.id = head(bms).id
    /\ multiframe_info(f.id).multi = multi /\ multiframe_info(f.id).streaming = streaming

(* note_counts() only acts on replies of one frame.                        *)
SingleEvent(f) ==
    IF f.id \in MosControl
    THEN IF head(bms).on = (f.data[0] # 0) THEN ResponseEvent(f.id, 1)
         ELSE ErrorEvent(f.id, "WRITE_REJECTED", 1)
    ELSE IF decode_single(f.id) THEN ResponseEvent(f.id, 1)
         ELSE ErrorEvent(f.id, "UNKNOWN_DATA_ID", 1)

HandleSingle(f) ==
    /\ Reply(f, FALSE, FALSE)
    /\ emit(note_counts(bms, f.id, f.data), SingleEvent(f), "complete")

RejectFrameNo(f) ==
    /\ Reply(f, TRUE, FALSE) /\ f.data[0] > MAX_FRAME_INDEX
    /\ emit(bms, ErrorEvent(f.id, "FRAME_SEQUENCE", 0), "return")

(* The frame filed under its counter; a duplicate adds no frame.           *)
FileFrame(b, frame_no) ==
    [b EXCEPT !.seen_mask = @ \cup {frame_no},
              !.frames_seen = Cardinality(b.seen_mask \cup {frame_no}),
              !.heard = @ + 1]

AcceptFrame(f) ==
    /\ Reply(f, TRUE, FALSE) /\ f.data[0] <= MAX_FRAME_INDEX
    /\ bms.heard < MaxReplyFrames

(* A mutant: the reply is taken for complete one frame early.              *)
AllFramesInEarly(b) == b.expected_frames # 0 /\ b.frames_seen + 1 >= b.expected_frames

AllFramesIn(b) == b.expected_frames # 0 /\ b.frames_seen >= b.expected_frames

(* finish_multi(): the payload is decoded as far as it is unbroken, then   *)
(* reported and retired.                                                   *)
finish_multi(b, id) ==
    emit(b, IF decode_multi(id) THEN ResponseEvent(id, b.frames_seen)
            ELSE ErrorEvent(id, "UNKNOWN_DATA_ID", b.frames_seen), "complete")

HandleMultiLast(f) ==
    /\ AcceptFrame(f) /\ AllFramesIn(FileFrame(bms, f.data[0]))
    /\ finish_multi(FileFrame(bms, f.data[0]), f.id)

HandleMultiMore(f) ==
    /\ AcceptFrame(f) /\ ~AllFramesIn(FileFrame(bms, f.data[0]))
    /\ bms' = await_next_frame(FileFrame(bms, f.data[0]))
    /\ UNCHANGED <<stack, fate>>

(* The sentinel retires the request without an event.                      *)
HandleStreamEnd(f) ==
    /\ Reply(f, TRUE, TRUE) /\ f.data[0] = FRAME_NO_END
    /\ bms' = complete(bms)
    /\ fate' = Reported(fate, head(bms).ctx)
    /\ UNCHANGED stack

(* A mutant: six more bytes of the record for every frame.                 *)
FileRecordShort(b) ==
    [b EXCEPT !.record_len = IF @ + 6 > FAULT_BUFFER_LEN THEN FAULT_BUFFER_LEN ELSE @ + 6,
              !.frames_seen = (@ + 1) % 256,
              !.heard = @ + 1]

(* Seven more bytes of the record; frames_seen_ is a uint8_t.              *)
FileRecord(b) ==
    [b EXCEPT !.record_len = IF @ + 7 > FAULT_BUFFER_LEN THEN FAULT_BUFFER_LEN ELSE @ + 7,
              !.frames_seen = (@ + 1) % 256,
              !.heard = @ + 1]

AcceptRecord(f) ==
    /\ Reply(f, TRUE, TRUE) /\ f.data[0] # FRAME_NO_END
    /\ bms.heard < MaxReplyFrames

HandleStreamMore(f) ==
    /\ AcceptRecord(f) /\ FileRecord(bms).record_len < FAULT_BUFFER_LEN
    /\ bms' = await_next_frame(FileRecord(bms))
    /\ UNCHANGED <<stack, fate>>

HandleStreamRecord(f) ==
    /\ AcceptRecord(f) /\ FileRecord(bms).record_len >= FAULT_BUFFER_LEN
    /\ emit(FileRecord(bms), ResponseEvent(f.id, 4), "stream")

-----------------------------------------------------------------------------
(* Time: tick(now_ms), where now_ms is d later than at the last tick.      *)

At(d) == [bms EXCEPT !.now_ms = (@ + d) % ClockMod]

TickQuiet(d) ==
    /\ MayDrive
    /\ bms.state = "AWAITING" => ~expired(At(d).now_ms, bms.deadline_ms)
    /\ bms' = At(d)
    /\ UNCHANGED <<stack, fate>>

Due(d) == MayDrive /\ bms.state = "AWAITING" /\ expired(At(d).now_ms, bms.deadline_ms)

Multi(b)     == multiframe_info(head(b).id).multi
Streaming(b) == multiframe_info(head(b).id).streaming

TickFinishes(d) ==
    /\ Due(d) /\ Multi(bms) /\ ~Streaming(bms) /\ bms.frames_seen > 0
    /\ finish_multi(At(d), head(bms).id)

TickTruncates(d) ==
    /\ Due(d) /\ Streaming(bms) /\ bms.frames_seen > 0
    /\ emit(At(d), ErrorEvent(head(bms).id, "TRUNCATED", bms.frames_seen), "complete")

(* A mutant: retries whatever has come in.                                 *)
DueWhateverCameIn(d) == Due(d)

(* No frame of a multi-frame reply has come in: the request is unanswered. *)
Unanswered(d) == Due(d) /\ ~(Multi(bms) /\ bms.frames_seen > 0)

TickRetries(d) ==
    /\ Unanswered(d) /\ bms.retries < bms.max_retries
    /\ bms' = transmit([At(d) EXCEPT !.retries = @ + 1])
    /\ UNCHANGED <<stack, fate>>

TickTimesOut(d) ==
    /\ Unanswered(d) /\ bms.retries >= bms.max_retries
    /\ emit(At(d), TimeoutEvent(head(bms).id, bms.retries), "complete")

-----------------------------------------------------------------------------
Init ==
    /\ bms = [tx_fn |-> FALSE, event_fn |-> FALSE,
              response_timeout_ms |-> DEFAULT_RESPONSE_TIMEOUT_MS,
              interframe_timeout_ms |-> DEFAULT_INTERFRAME_TIMEOUT_MS,
              max_retries |-> DEFAULT_MAX_RETRIES,
              queue |-> [i \in Slots |-> NoRequest], queue_head |-> 0, queue_count |-> 0,
              state |-> "IDLE", now_ms |-> 0, deadline_ms |-> 0, retries |-> 0,
              dispatching |-> FALSE, seen_mask |-> {}, frames_seen |-> 0,
              expected_frames |-> 0, expected_items |-> 0, record_len |-> 0,
              cached_cell_count |-> 0, cached_temp_count |-> 0,
              sent |-> [ctx |-> 0, tries |-> 0], heard |-> 0]
    /\ stack = <<>>
    /\ fate = <<>>

Application ==
    \/ \E p \in Polls : Poll(p)
    \/ Reset
    \/ \E fn \in TxHandlers : SetTxHandler(fn)
    \/ \E fn \in EventHandlers : SetEventHandler(fn)
    \/ \E ms \in ResponseTimeouts : SetResponseTimeout(ms)
    \/ \E ms \in InterframeTimeouts : SetInterframeTimeout(ms)
    \/ \E n \in RetryLimits : SetMaxRetries(n)

(* on_frame(f), whichever of its paths the frame takes.                    *)
OnFrame(f) ==
    \/ RejectIdle(f) \/ RejectSource(f) \/ RejectId(f)
    \/ HandleSingle(f)
    \/ RejectFrameNo(f) \/ HandleMultiLast(f) \/ HandleMultiMore(f)
    \/ HandleStreamEnd(f) \/ HandleStreamMore(f) \/ HandleStreamRecord(f)

Feed ==
    \/ \E error \in FrameErrors : OnFrameError(error)
    \/ \E f \in Frames : OnFrame(f)

Tick(d) ==
    \/ TickQuiet(d) \/ TickFinishes(d) \/ TickTruncates(d) \/ TickRetries(d) \/ TickTimesOut(d)

Return == SessionHandlerRuns \/ \E then \in {"return", "complete", "stream"} : EmitReturns(then)

Next == Application \/ Feed \/ (\E d \in TickSteps : Tick(d)) \/ Return

Spec == Init /\ [][Next]_vars

(* The application's loop calls tick() with a clock that moves on, in      *)
(* every turn and so again and again with no handler running; a handler    *)
(* returns.  Nothing is assumed of the bus or of polls.                    *)
Fairness ==
    /\ WF_vars(Return)
    /\ SF_vars(\E d \in TickSteps \ {0} : Tick(d))

FairSpec == Spec /\ Fairness

-----------------------------------------------------------------------------
(* Properties.                                                             *)

(* Every member keeps the range its C++ type or its use gives it.          *)
TypeOK ==
    /\ bms \in Object
    /\ stack \in Seq(Activation)
    /\ fate \in Seq(Fates)

(* The ring holds exactly the requests accepted last, oldest at the head:  *)
(* wherever reset() or a wrap has left queue_head_, enqueue() overwrites   *)
(* no request still queued and complete() retires them in order.           *)
QueueInOrder ==
    \A i \in 0..(bms.queue_count - 1) :
        Queued(bms, i).ctx = Len(fate) - bms.queue_count + 1 + i

(* Once control is back in the application, queued work is on the bus:     *)
(* "they queue and go out once dispatch finishes".  No tick() and no       *)
(* timeout would send it later.                                            *)
NoStrandedWork == stack = <<>> /\ bms.state = "IDLE" => bms.queue_count = 0

(* Every accepted request gets one outcome: it leaves the ring only after  *)
(* its final event, the end of its fault stream, or reset(); none is       *)
(* reported twice; one already reported stays only while its final event   *)
(* is being dispatched.                                                    *)
OneOutcome ==
    \A s \in DOMAIN fate :
        /\ fate[s] # "twice"
        /\ fate[s] = "pending" => Live(bms, s)
        /\ Live(bms, s) /\ fate[s] # "pending" =>
               \E k \in DOMAIN stack : stack[k].owner = s /\ stack[k].then = "complete"

(* The session waits for the answer to what it put on the wire last.       *)
WireMatchesHead == bms.state = "AWAITING" => bms.sent.ctx = head(bms).ctx

(* "At most one request is ever outstanding": a request is put on the wire *)
(* only when the one before it has had its outcome, and in order.          *)
OneOutstandingStep ==
    bms'.sent.ctx # bms.sent.ctx /\ bms.sent.ctx # 0 =>
        /\ fate'[bms.sent.ctx] \in {"reported", "dropped"}
        /\ bms'.sent.ctx > bms.sent.ctx
OneOutstanding == [][OneOutstandingStep]_vars

(* "A request is resent only when its deadline passes with no frame of its *)
(* reply accepted."                                                        *)
ResendOnlyWhenSilentStep ==
    bms'.sent.ctx = bms.sent.ctx /\ bms'.sent # bms.sent => bms.heard = 0
ResendOnlyWhenSilent == [][ResendOnlyWhenSilentStep]_vars

(* Nothing is transmitted "from inside the callback": no step that leaves  *)
(* a handler running calls the TX handler.                                 *)
NoTxInsideHandlerStep == stack' # <<>> => bms'.sent = bms.sent
NoTxInsideHandler == [][NoTxInsideHandlerStep]_vars

(* What the final event claims of the traffic is what was on the wire: a   *)
(* timeout means silence through that many retransmissions, TRUNCATED      *)
(* counts the frames of the stream, and a paginated reply has frames.      *)
VerdictMatchesTraffic ==
    \A k \in DOMAIN stack :
        LET e == stack[k].event IN
        /\ e.kind = "TIMEOUT" => bms.heard = 0 /\ e.retries = bms.sent.tries - 1
        /\ e.error = "TRUNCATED" => e.frames = bms.heard /\ bms.heard > 0
        /\ e.kind = "RESPONSE" /\ multiframe_info(e.id).multi => 0 < e.frames /\ e.frames <= bms.heard

(* A read of the cells or sensors without a hint is sized, from start to   *)
(* end, by the count the pack reported last, also when that report was     *)
(* queued just before it; one with a hint is sized by the hint.            *)
SizedByLatestCount ==
    LET items(cached) == IF head(bms).hint # 0 THEN head(bms).hint ELSE cached IN
    /\ bms.state = "AWAITING" /\ head(bms).id = CELL_VOLTAGES =>
           bms.expected_frames = cell_voltage_frames(items(bms.cached_cell_count))
    /\ bms.state = "AWAITING" /\ head(bms).id = CELL_TEMPERATURES =>
           bms.expected_frames = cell_temperature_frames(items(bms.cached_temp_count))

(* A session left awaiting has a deadline ahead of it that the clock has   *)
(* not passed, whatever the wrap: the reply is never given up early, and   *)
(* never waited for longer than the longest timeout.                       *)
Timeouts == ResponseTimeouts \cup InterframeTimeouts
                \cup {DEFAULT_RESPONSE_TIMEOUT_MS, DEFAULT_INTERFRAME_TIMEOUT_MS}
DeadlineAhead ==
    stack = <<>> /\ bms.state = "AWAITING" =>
        \E ms \in Timeouts : (bms.deadline_ms - bms.now_ms) % ClockMod \in 1..ms

(* Whatever the application has asked for gets its outcome once it stops   *)
(* asking, however many stray or corrupt frames arrive, as long as a reply *)
(* has finitely many frames.  Requests are settled in order, so this is    *)
(* the outcome of each.                                                    *)
AllSettled == \A s \in DOMAIN fate : fate[s] \in {"reported", "dropped"}
EventuallySettled == ~AllSettled ~> AllSettled

(* The session keeps the promise of module RequestQueue: a request is      *)
(* being served from its transmission to its final event, which is before  *)
(* complete() frees its slot.                                              *)
Promise ==
    INSTANCE RequestQueue WITH
        outcome <- fate,
        bus     <- IF InFlight(bms) # 0 /\ fate[InFlight(bms)] = "pending" THEN InFlight(bms) ELSE 0
KeepsPromise == Promise!Spec
=============================================================================
