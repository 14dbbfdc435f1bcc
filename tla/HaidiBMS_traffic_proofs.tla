----------------------- MODULE HaidiBMS_traffic_proofs -----------------------
(***************************************************************************)
(* Proofs about the session and the wire: what it waits for is what it     *)
(* sent, what it expects is what the pack reported, what it says of the    *)
(* traffic is what happened, and the deadline it waits for lies ahead.     *)
(* Only the last two need the application to leave feed() and tick() out   *)
(* of its handlers.                                                        *)
(***************************************************************************)
EXTENDS HaidiBMS_outcome_proofs

(* The request sent last is not behind the head of the ring, and is before *)
(* it when nothing is in flight: starting a transaction always sends a     *)
(* request that was never sent before.                                     *)
SentBefore(b, n) ==
    b.sent.ctx <= n - b.queue_count + (IF b.state = "AWAITING" THEN 1 ELSE 0)

(* A read of the cells or sensors awaits the frames it would await if it   *)
(* started now.                                                            *)
Sized(b) ==
    b.state = "AWAITING" /\ head(b).id \in {CELL_VOLTAGES, CELL_TEMPERATURES} =>
        b.expected_frames = FramesExpected(b)

(* frames_seen_ and record_len_ against the frames of this reply, as long  *)
(* as frames_seen_ does not wrap.                                          *)
Tallied(b) ==
    MaxReplyFrames < 256 /\ b.state = "AWAITING" =>
        /\ b.heard <= MaxReplyFrames
        /\ ~Multi(b) => b.heard = 0
        /\ Multi(b) /\ ~Streaming(b) =>
               /\ b.frames_seen = Cardinality(b.seen_mask) /\ b.frames_seen <= b.heard
               /\ b.frames_seen = 0 => b.heard = 0
        /\ Streaming(b) => b.frames_seen = b.heard /\ b.record_len <= 7 * b.heard

(* With a TX handler that is never taken away, what is in flight has been  *)
(* sent, once more than retries_ says.                                     *)
Wired(b) ==
    TxHandlers \subseteq {TRUE} =>
        /\ b.queue_count > 0 => b.tx_fn
        /\ b.state = "AWAITING" => b.sent = [ctx |-> head(b).ctx, tries |-> b.retries + 1]

Traffic(b, n) == Sound(b, n) /\ SentBefore(b, n) /\ Sized(b) /\ Tallied(b) /\ Wired(b)

-----------------------------------------------------------------------------
(* What the methods do to it.                                              *)

(* The members that the traffic depends on are the same.                   *)
SameTalk(b, c) ==
    /\ c \in Object /\ SameQueue(b, c)
    /\ c.state = b.state /\ c.sent = b.sent /\ c.tx_fn = b.tx_fn
    /\ c.seen_mask = b.seen_mask /\ c.frames_seen = b.frames_seen
    /\ c.expected_frames = b.expected_frames /\ c.record_len = b.record_len
    /\ c.retries = b.retries /\ c.heard = b.heard
    /\ c.cached_cell_count = b.cached_cell_count /\ c.cached_temp_count = b.cached_temp_count

(* Methods that leave the ring alone leave the request in flight alone.    *)
LEMMA SameHead ==
    ASSUME NEW b, NEW c, SameQueue(b, c)
    PROVE  head(c) = head(b) /\ Multi(c) = Multi(b) /\ Streaming(c) = Streaming(b)
BY DEF SameQueue, head, Multi, Streaming

(* With the same head and counts the same frames are expected.             *)
LEMMA SameExpected ==
    ASSUME NEW b, NEW c, head(c) = head(b),
           c.cached_cell_count = b.cached_cell_count, c.cached_temp_count = b.cached_temp_count
    PROVE  FramesExpected(c) = FramesExpected(b) /\ ItemsExpected(c) = ItemsExpected(b)
BY DEF FramesExpected, ItemsExpected

(* A method that touches none of those members keeps the traffic as it is. *)
LEMMA SameTalkTraffic ==
    ASSUME NEW b, NEW c, NEW n, Traffic(b, n), SameTalk(b, c)
    PROVE  Traffic(c, n)
<1>1. /\ head(c) = head(b) /\ Multi(c) = Multi(b) /\ Streaming(c) = Streaming(b)
      /\ FramesExpected(c) = FramesExpected(b)
  BY SameHead, SameExpected DEF SameTalk
<1>2. Sound(c, n)
  BY SameQueueSound DEF SameTalk, Traffic
<1>3. SentBefore(c, n)
  BY DEF Traffic, SentBefore, SameTalk, SameQueue
<1>4. Sized(c)
  BY <1>1 DEF Traffic, Sized, SameTalk
<1>5. Tallied(c)
  BY <1>1 DEF Traffic, Tallied, SameTalk
<1>6. Wired(c)
  BY <1>1 DEF Traffic, Wired, SameTalk, SameQueue
<1> QED
  BY <1>2, <1>3, <1>4, <1>5, <1>6 DEF Traffic

(* An idle session has no traffic to account for.                          *)
LEMMA IdleTraffic ==
    ASSUME NEW b, NEW n, Sound(b, n), b.state = "IDLE", SentBefore(b, n),
           TxHandlers \subseteq {TRUE} /\ b.queue_count > 0 => b.tx_fn
    PROVE  Traffic(b, n)
BY DEF Traffic, Sized, Tallied, Wired

(* What transmit() hands to the TX handler.                                *)
Handed(b) ==
    IF ~b.tx_fn THEN b.sent
    ELSE [ctx   |-> head(b).ctx,
          tries |-> IF b.sent.ctx = head(b).ctx THEN b.sent.tries + 1 ELSE 1]

(* The object after pump() has started the head request.                   *)
LEMMA PumpStarts ==
    ASSUME NEW b \in Object, b.state = "IDLE", b.queue_count > 0, NEW c, c = pump(b)
    PROVE  /\ SameQueue(b, c)
           /\ c.state = "AWAITING" /\ c.tx_fn = b.tx_fn /\ c.sent = Handed(b)
           /\ c.seen_mask = {} /\ c.frames_seen = 0 /\ c.record_len = 0
           /\ c.retries = 0 /\ c.heard = 0
           /\ c.expected_frames = FramesExpected(b)
           /\ c.cached_cell_count = b.cached_cell_count
           /\ c.cached_temp_count = b.cached_temp_count
           /\ c.now_ms = b.now_ms
           /\ c.deadline_ms = (b.now_ms + b.response_timeout_ms) % ClockMod
           /\ c.response_timeout_ms = b.response_timeout_ms
           /\ c.interframe_timeout_ms = b.interframe_timeout_ms
<1> DEFINE started == [b EXCEPT !.state = "AWAITING"]
           items == ItemsExpected(started)
           frames == FramesExpected(started)
           cleared == [started EXCEPT !.seen_mask = {}, !.frames_seen = 0, !.record_len = 0,
                                      !.retries = 0, !.heard = 0,
                                      !.expected_items = items, !.expected_frames = frames]
           new == IF ~cleared.tx_fn THEN cleared.sent
                  ELSE [ctx   |-> head(cleared).ctx,
                        tries |-> IF cleared.sent.ctx = head(cleared).ctx
                                  THEN cleared.sent.tries + 1 ELSE 1]
           deadline == (cleared.now_ms + cleared.response_timeout_ms) % ClockMod
<1>1. b.queue_count # 0
  BY DEF Object
<1>2. pump(b) = transmit(begin_awaiting(started))
  BY <1>1 DEF pump
<1>3. begin_awaiting(started) = cleared
  BY DEF begin_awaiting
<1>4. transmit(cleared) = [cleared EXCEPT !.sent = new, !.deadline_ms = deadline]
  BY DEF transmit
<1>5. /\ head(started) = head(b) /\ started.cached_cell_count = b.cached_cell_count
      /\ started.cached_temp_count = b.cached_temp_count
  BY DEF Object, head
<1>6. frames = FramesExpected(b)
  <2> HIDE DEF started
  <2> QED
    BY <1>5, SameExpected
<1> HIDE DEF items, frames
<1>7. /\ cleared.tx_fn = b.tx_fn /\ cleared.sent = b.sent /\ head(cleared) = head(b)
      /\ cleared.now_ms = b.now_ms /\ cleared.response_timeout_ms = b.response_timeout_ms
  BY DEF Object, head
<1>8. new = Handed(b) /\ deadline = (b.now_ms + b.response_timeout_ms) % ClockMod
  <2> HIDE DEF cleared
  <2> QED
    BY <1>7 DEF Handed
<1> HIDE DEF new, deadline
<1>9. c = [cleared EXCEPT !.sent = new, !.deadline_ms = deadline]
  <2> HIDE DEF cleared, started
  <2> QED
    BY <1>2, <1>3, <1>4
<1> QED
  BY <1>6, <1>8, <1>9 DEF Object, SameQueue

(* pump() starts a transaction with its books open and empty.              *)
LEMMA PumpTraffic ==
    ASSUME NEW b, NEW n \in Nat, Traffic(b, n)
    PROVE  Traffic(pump(b), n)
<1>0. Sound(b, n) /\ b \in Object
  BY DEF Traffic, Sound
<1>1. CASE b.state # "IDLE" \/ b.queue_count = 0
  BY <1>1 DEF pump
<1>2. CASE b.state = "IDLE" /\ b.queue_count # 0
  <2> DEFINE c == pump(b)
  <2>1. b.queue_count > 0 /\ b.queue_count \in Nat /\ b.sent \in [ctx : Nat, tries : Nat]
    BY <1>0, <1>2 DEF Object
  <2>2. /\ SameQueue(b, c)
        /\ c.state = "AWAITING" /\ c.tx_fn = b.tx_fn /\ c.sent = Handed(b)
        /\ c.seen_mask = {} /\ c.frames_seen = 0 /\ c.record_len = 0
        /\ c.retries = 0 /\ c.heard = 0
        /\ c.expected_frames = FramesExpected(b)
        /\ c.cached_cell_count = b.cached_cell_count
        /\ c.cached_temp_count = b.cached_temp_count
    BY <1>0, <1>2, <2>1, PumpStarts
  <2>3. Sound(c, n)
    BY <1>0, PumpFacts
  <2> HIDE DEF c
  <2>4. /\ head(c) = head(b) /\ FramesExpected(c) = FramesExpected(b)
    BY <2>2, SameHead, SameExpected
  <2>5. head(b).ctx = n - b.queue_count + 1 /\ b.sent.ctx <= n - b.queue_count
    BY <1>0, <1>2, <2>1, HeadIsFirst DEF Traffic, SentBefore, FirstOf
  <2>6. SentBefore(c, n)
    <3>1. c.queue_count = b.queue_count
      BY <2>2 DEF SameQueue
    <3>2. Handed(b).ctx <= n - b.queue_count + 1
      BY <2>1, <2>5 DEF Handed
    <3> QED
      BY <2>2, <3>1, <3>2 DEF SentBefore
  <2>7. Sized(c)
    BY <2>2, <2>4 DEF Sized
  <2>8. Tallied(c)
    <3>1. Cardinality({}) = 0
      BY FS_EmptySet
    <3> QED
      BY <2>2, <3>1, BoundAssumption DEF Tallied
  <2>9. Wired(c)
    <3>1. TxHandlers \subseteq {TRUE} => b.tx_fn
      BY <2>1 DEF Traffic, Wired
    <3>2. b.tx_fn => Handed(b) = [ctx |-> head(b).ctx, tries |-> 1]
      BY <2>1, <2>5 DEF Handed
    <3>3. c.retries + 1 = 1
      BY <2>2
    <3>4. TxHandlers \subseteq {TRUE} =>
              c.tx_fn /\ c.sent = [ctx |-> head(c).ctx, tries |-> c.retries + 1]
      BY <2>2, <2>4, <3>1, <3>2, <3>3, Zenon
    <3> QED
      BY <3>4, Zenon DEF Wired
  <2> QED
    BY <2>3, <2>6, <2>7, <2>8, <2>9 DEF Traffic, c
<1> QED
  BY <1>1, <1>2

(* complete() closes the books of the request it retires.                  *)
LEMMA CompleteTraffic ==
    ASSUME NEW b, NEW n \in Nat, Traffic(b, n)
    PROVE  Traffic(complete(b), n)
<1> DEFINE idle == [(IF b.state = "AWAITING" THEN pop(b) ELSE b) EXCEPT !.state = "IDLE"]
<1>0. Sound(b, n) /\ b \in Object /\ b.queue_count \in Nat /\ b.sent.ctx \in Nat
  BY DEF Traffic, Sound, Object
<1>1. Sound(idle, n)
  BY <1>0, IdleSound
<1>2. /\ idle.state = "IDLE" /\ idle.sent = b.sent /\ idle.tx_fn = b.tx_fn
      /\ idle.queue_count = IF b.state = "AWAITING" THEN b.queue_count - 1 ELSE b.queue_count
  BY <1>0 DEF pop, Object
<1>3. complete(b) = pump(idle)
  BY DEF complete
<1> HIDE DEF idle
<1>4. SentBefore(idle, n)
  BY <1>0, <1>2 DEF Traffic, SentBefore
<1>5. TxHandlers \subseteq {TRUE} /\ idle.queue_count > 0 => idle.tx_fn
  <2>1. idle.queue_count > 0 => b.queue_count > 0
    BY <1>0, <1>2
  <2> QED
    BY <1>2, <2>1, Zenon DEF Traffic, Wired
<1>6. Traffic(idle, n)
  BY <1>1, <1>2, <1>4, <1>5, IdleTraffic, Zenon
<1> QED
  BY <1>3, <1>6, PumpTraffic

(* reset() closes them too.                                                *)
LEMMA ResetTraffic ==
    ASSUME NEW b, NEW n \in Nat, Traffic(b, n)
    PROVE  Traffic(reset(b), n)
<1>0. Sound(b, n) /\ b \in Object /\ b.queue_count \in Nat /\ b.sent.ctx \in Nat
  BY DEF Traffic, Sound, Object
<1>1. Sound(reset(b), n) /\ reset(b).state = "IDLE" /\ reset(b).queue_count = 0
  BY <1>0, ResetFacts
<1>2. reset(b).sent = b.sent
  BY <1>0 DEF reset, Object
<1>3. b.state = "AWAITING" => b.queue_count > 0
  BY <1>0 DEF Sound
<1>4. SentBefore(reset(b), n)
  BY <1>0, <1>1, <1>2, <1>3 DEF Traffic, SentBefore
<1>5. ~(reset(b).queue_count > 0)
  BY <1>1
<1> QED
  BY <1>1, <1>4, <1>5, IdleTraffic, Zenon

(* Filing a request leaves the request in flight alone.                    *)
LEMMA FilingTraffic ==
    ASSUME NEW b, NEW n \in Nat, Traffic(b, n), b.queue_count < QUEUE_CAPACITY, b.tx_fn,
           NEW req \in Request, req.ctx = n + 1
    PROVE  Traffic(Filing(b, req), n + 1)
<1> DEFINE at == (b.queue_head + b.queue_count) % QUEUE_CAPACITY
           queue == [b.queue EXCEPT ![at] = req]
           c == Filing(b, req)
<1>0. /\ Sound(b, n) /\ b \in Object /\ b.queue_count \in Nat /\ b.sent.ctx \in Nat
      /\ b.queue_head \in Slots /\ b.queue \in [Slots -> Request]
  BY DEF Traffic, Sound, Object
<1>1. Sound(c, n + 1) /\ c.queue_count = b.queue_count + 1
  BY <1>0, FilingSound
<1>2. /\ c.state = b.state /\ c.sent = b.sent /\ c.tx_fn = b.tx_fn
      /\ c.seen_mask = b.seen_mask /\ c.frames_seen = b.frames_seen
      /\ c.expected_frames = b.expected_frames /\ c.record_len = b.record_len
      /\ c.retries = b.retries /\ c.heard = b.heard
      /\ c.cached_cell_count = b.cached_cell_count /\ c.cached_temp_count = b.cached_temp_count
      /\ c.queue_head = b.queue_head
  <2>1. c = [b EXCEPT !.queue = queue, !.queue_count = b.queue_count + 1]
    BY <1>0 DEF Filing, Object
  <2> HIDE DEF queue, c
  <2> QED
    BY <1>0, <2>1 DEF Object
<1>3. c.queue = queue
  <2>1. c = [b EXCEPT !.queue = queue, !.queue_count = b.queue_count + 1]
    BY <1>0 DEF Filing, Object
  <2> HIDE DEF queue, c
  <2> QED
    BY <1>0, <2>1 DEF Object
<1>4. b.queue_count > 0 => head(c) = head(b)
  <2> SUFFICES ASSUME b.queue_count > 0
               PROVE  queue[b.queue_head] = b.queue[b.queue_head]
    BY <1>2, <1>3 DEF head
  <2>1. b.queue_count \in 0..QUEUE_CAPACITY
    BY <1>0 DEF Object
  <2>2. at = IF b.queue_head + b.queue_count < QUEUE_CAPACITY THEN b.queue_head + b.queue_count
             ELSE b.queue_head + b.queue_count - QUEUE_CAPACITY
    BY <1>0, <2>1, SlotIndex
  <2> HIDE DEF at
  <2>3. at # b.queue_head
    BY <1>0, <2>2, CapacityAssumption DEF Slots
  <2> QED
    BY <1>0, <2>3
<1> HIDE DEF c, queue
<1>5. SentBefore(c, n + 1)
  BY <1>0, <1>1, <1>2 DEF Traffic, SentBefore
<1>6. c.state = "AWAITING" =>
          head(c) = head(b) /\ Multi(c) = Multi(b) /\ Streaming(c) = Streaming(b)
  BY <1>0, <1>2, <1>4 DEF Sound, Multi, Streaming
<1>7. c.state = "AWAITING" => FramesExpected(c) = FramesExpected(b)
  BY <1>2, <1>6, SameExpected
<1>8. Sized(c)
  BY <1>2, <1>6, <1>7 DEF Traffic, Sized
<1>9. Tallied(c)
  BY <1>2, <1>6 DEF Traffic, Tallied
<1>10. Wired(c)
  <2>1. c.tx_fn
    BY <1>2, Zenon
  <2> QED
    BY <1>2, <1>6, <2>1 DEF Traffic, Wired
<1> QED
  BY <1>1, <1>5, <1>8, <1>9, <1>10 DEF Traffic, c

(* So does enqueue(), unless nothing is in flight: then it starts one.     *)
LEMMA EnqueueTraffic ==
    ASSUME NEW b, NEW n \in Nat, Traffic(b, n), b.queue_count < QUEUE_CAPACITY, b.tx_fn,
           NEW req \in Request, req.ctx = n + 1
    PROVE  Traffic(enqueue(b, req), n + 1)
<1>1. enqueue(b, req) = IF b.dispatching THEN Filing(b, req) ELSE pump(Filing(b, req))
  BY DEF enqueue, Filing
<1>2. Traffic(Filing(b, req), n + 1)
  BY FilingTraffic
<1> QED
  BY <1>1, <1>2, PumpTraffic

(* Re-arming the deadline touches nothing of it.                           *)
LEMMA AwaitTalk ==
    ASSUME NEW b \in Object
    PROVE  SameTalk(b, await_next_frame(b))
<1> DEFINE deadline == (b.now_ms + b.interframe_timeout_ms) % ClockMod
<1>1. deadline \in Timeout
  BY ClockRange DEF Object
<1>2. await_next_frame(b) = [b EXCEPT !.deadline_ms = deadline]
  BY DEF await_next_frame
<1> HIDE DEF deadline
<1> QED
  BY <1>1, <1>2 DEF SameTalk, SameQueue, Object

(* A full record is let go, and the stream goes on.                        *)
LEMMA AfterRecordTraffic ==
    ASSUME NEW b, NEW n \in Nat, Traffic(b, n)
    PROVE  Traffic(after_record(b), n)
<1> DEFINE rewound == [b EXCEPT !.record_len = 0]
           c == await_next_frame(rewound)
<1>0. b \in Object /\ b.heard \in Nat /\ Sound(b, n)
  BY DEF Traffic, Sound, Object
<1>1. after_record(b) = IF b.state # "AWAITING" THEN pump(rewound) ELSE c
  BY DEF after_record
<1>2. /\ rewound \in Object /\ SameQueue(b, rewound)
      /\ rewound.state = b.state /\ rewound.sent = b.sent /\ rewound.tx_fn = b.tx_fn
      /\ rewound.seen_mask = b.seen_mask /\ rewound.frames_seen = b.frames_seen
      /\ rewound.expected_frames = b.expected_frames /\ rewound.record_len = 0
      /\ rewound.retries = b.retries /\ rewound.heard = b.heard
      /\ rewound.cached_cell_count = b.cached_cell_count
      /\ rewound.cached_temp_count = b.cached_temp_count
  BY <1>0 DEF Object, SameQueue, FAULT_BUFFER_LEN
<1> HIDE DEF rewound
<1>3. Traffic(rewound, n)
  <2>1. /\ head(rewound) = head(b) /\ Multi(rewound) = Multi(b)
        /\ Streaming(rewound) = Streaming(b) /\ FramesExpected(rewound) = FramesExpected(b)
    BY <1>2, SameHead, SameExpected
  <2>2. Sound(rewound, n)
    BY <1>0, <1>2, SameQueueSound
  <2>3. SentBefore(rewound, n)
    BY <1>2 DEF Traffic, SentBefore, SameQueue
  <2>4. Sized(rewound)
    BY <1>2, <2>1 DEF Traffic, Sized
  <2>5. Tallied(rewound)
    BY <1>0, <1>2, <2>1 DEF Traffic, Tallied
  <2>6. Wired(rewound)
    BY <1>2, <2>1 DEF Traffic, Wired, SameQueue
  <2> QED
    BY <2>2, <2>3, <2>4, <2>5, <2>6 DEF Traffic
<1>4. Traffic(pump(rewound), n)
  BY <1>3, PumpTraffic
<1>5. SameTalk(rewound, c)
  BY <1>2, AwaitTalk
<1>6. Traffic(c, n)
  BY <1>3, <1>5, SameTalkTraffic
<1> QED
  BY <1>1, <1>4, <1>6

(* tick() first advances the clock.                                        *)
LEMMA AtTalk ==
    ASSUME bms \in Object, NEW d \in Timeout
    PROVE  SameTalk(bms, At(d)) /\ At(d).deadline_ms = bms.deadline_ms
<1> DEFINE now == (bms.now_ms + d) % ClockMod
<1>1. now \in Timeout
  BY ClockRange DEF Object
<1>2. At(d) = [bms EXCEPT !.now_ms = now]
  BY DEF At
<1> HIDE DEF now
<1> QED
  BY <1>1, <1>2 DEF SameTalk, SameQueue, Object

(* The reply to a request of one frame may change the counts: no read that *)
(* they size is in flight then.                                            *)
LEMMA NoteCountsTraffic ==
    ASSUME NEW b, NEW n \in Nat, Traffic(b, n), NEW data \in Data,
           b.state = "AWAITING", ~Multi(b)
    PROVE  Traffic(note_counts(b, head(b).id, data), n)
<1> DEFINE id == head(b).id
           c == note_counts(b, id, data)
           cells == (data[1] + data[2] + data[3]) % 256
           temps == (data[4] + data[5] + data[6]) % 256
<1>0. b \in Object /\ Sound(b, n)
  BY DEF Traffic, Sound
<1>1. Untouched(b, c)
  BY <1>0, NoteCountsFacts
<1>2. /\ c.tx_fn = b.tx_fn
      /\ c.seen_mask = b.seen_mask /\ c.frames_seen = b.frames_seen
      /\ c.expected_frames = b.expected_frames /\ c.record_len = b.record_len
      /\ c.retries = b.retries /\ c.heard = b.heard
  <2> HIDE DEF id
  <2>1. c = CASE id = STATUS_INFO ->
                     [b EXCEPT !.cached_cell_count = data[0], !.cached_temp_count = data[1]]
              [] id = BMU_CELL_TEMP_COUNT ->
                     [b EXCEPT !.cached_cell_count = cells, !.cached_temp_count = temps]
              [] OTHER -> b
    BY DEF note_counts
  <2> HIDE DEF c, cells, temps
  <2>2. CASE id = STATUS_INFO
    BY <1>0, <2>1, <2>2 DEF Object
  <2>3. CASE id # STATUS_INFO /\ id = BMU_CELL_TEMP_COUNT
    BY <1>0, <2>1, <2>3 DEF Object
  <2>4. CASE id # STATUS_INFO /\ id # BMU_CELL_TEMP_COUNT
    BY <2>1, <2>4
  <2> QED
    BY <2>2, <2>3, <2>4
<1> HIDE DEF c
<1>3. id \notin {CELL_VOLTAGES, CELL_TEMPERATURES}
  BY DEF Multi, multiframe_info, Layout, CELL_VOLTAGES, CELL_TEMPERATURES, FAULT_RECORDS,
         ManufacturerName, LongText, Versions
<1>4. head(c) = head(b) /\ Multi(c) = Multi(b) /\ Streaming(c) = Streaming(b)
  BY <1>1, SameHead DEF Untouched
<1>5. Sound(c, n)
  BY <1>0, <1>1, UntouchedSound
<1>6. SentBefore(c, n)
  BY <1>1 DEF Traffic, SentBefore, Untouched, SameQueue
<1>7. Sized(c)
  BY <1>3, <1>4 DEF Sized
<1>8. Tallied(c)
  BY <1>1, <1>2, <1>4 DEF Traffic, Tallied, Untouched
<1>9. Wired(c)
  BY <1>1, <1>2, <1>4 DEF Traffic, Wired, Untouched, SameQueue
<1> QED
  BY <1>5, <1>6, <1>7, <1>8, <1>9 DEF Traffic, c

(* A frame of a paginated reply is counted once, under its counter.        *)
LEMMA FileFrameTraffic ==
    ASSUME NEW b, NEW n \in Nat, Traffic(b, n), NEW no \in 0..MAX_FRAME_INDEX,
           b.state = "AWAITING", Multi(b), ~Streaming(b), b.heard < MaxReplyFrames
    PROVE  /\ Traffic(FileFrame(b, no), n)
           /\ FileFrame(b, no).frames_seen > 0
           /\ MaxReplyFrames < 256 => FileFrame(b, no).frames_seen <= FileFrame(b, no).heard
<1> DEFINE mask == b.seen_mask \cup {no}
           count == Cardinality(mask)
           c == FileFrame(b, no)
<1>0. b \in Object /\ Sound(b, n) /\ b.heard \in Nat /\ b.seen_mask \in SUBSET (0..MAX_FRAME_INDEX)
  BY DEF Traffic, Sound, Object
<1>1. Untouched(b, c)
  BY <1>0, FileFrameFacts
<1>2. /\ c.tx_fn = b.tx_fn /\ c.seen_mask = mask /\ c.frames_seen = count
      /\ c.expected_frames = b.expected_frames /\ c.record_len = b.record_len
      /\ c.retries = b.retries /\ c.heard = b.heard + 1
      /\ c.cached_cell_count = b.cached_cell_count /\ c.cached_temp_count = b.cached_temp_count
  <2>1. c = [b EXCEPT !.seen_mask = mask, !.frames_seen = count, !.heard = b.heard + 1]
    BY <1>0 DEF FileFrame, Object
  <2> HIDE DEF c, mask, count
  <2> QED
    BY <1>0, <2>1 DEF Object
<1>3. /\ IsFiniteSet(b.seen_mask) /\ Cardinality(b.seen_mask) \in Nat
      /\ count = Cardinality(b.seen_mask) \/ count = Cardinality(b.seen_mask) + 1
      /\ count \in Nat /\ count > 0
  <2>1. IsFiniteSet(0..MAX_FRAME_INDEX)
    BY 0 \in Int, 16 \in Int, FS_Interval, Zenon DEF MAX_FRAME_INDEX
  <2>2. IsFiniteSet(b.seen_mask)
    BY <1>0, <2>1, FS_Subset
  <2>3. /\ IsFiniteSet(mask)
        /\ count = IF no \in b.seen_mask THEN Cardinality(b.seen_mask)
                   ELSE Cardinality(b.seen_mask) + 1
    BY <2>2, FS_AddElement
  <2>4. Cardinality(b.seen_mask) \in Nat /\ count \in Nat
    BY <2>2, <2>3, FS_CardinalityType
  <2>5. count # 0
    <3>1. mask # {}
      OBVIOUS
    <3> QED
      BY <2>3, <3>1, FS_EmptySet
  <2> HIDE DEF count
  <2> QED
    BY <2>2, <2>3, <2>4, <2>5
<1> HIDE DEF c, count, mask
<1>4. /\ head(c) = head(b) /\ Multi(c) = Multi(b) /\ Streaming(c) = Streaming(b)
      /\ FramesExpected(c) = FramesExpected(b)
  BY <1>1, <1>2, SameHead, SameExpected DEF Untouched
<1>5. Sound(c, n)
  BY <1>0, <1>1, UntouchedSound
<1>6. SentBefore(c, n)
  BY <1>1 DEF Traffic, SentBefore, Untouched, SameQueue
<1>7. Sized(c)
  BY <1>1, <1>2, <1>4 DEF Traffic, Sized, Untouched
<1>8. MaxReplyFrames < 256 => count <= b.heard + 1
  BY <1>0, <1>3 DEF Traffic, Tallied
<1>9. Tallied(c)
  BY <1>0, <1>1, <1>2, <1>3, <1>4, <1>8, BoundAssumption DEF Tallied, count
<1>10. Wired(c)
  BY <1>1, <1>2, <1>4 DEF Traffic, Wired, Untouched, SameQueue
<1> QED
  BY <1>2, <1>3, <1>5, <1>6, <1>7, <1>8, <1>9, <1>10 DEF Traffic, c

(* A frame of a fault stream adds seven bytes to the record.               *)
LEMMA FileRecordTraffic ==
    ASSUME NEW b, NEW n \in Nat, Traffic(b, n),
           b.state = "AWAITING", Multi(b), Streaming(b), b.heard < MaxReplyFrames
    PROVE  /\ Traffic(FileRecord(b), n)
           /\ MaxReplyFrames < 256 => FileRecord(b).record_len <= 7 * FileRecord(b).heard
<1> DEFINE len == IF b.record_len + 7 > FAULT_BUFFER_LEN THEN FAULT_BUFFER_LEN
                  ELSE b.record_len + 7
           frames == (b.frames_seen + 1) % 256
           c == FileRecord(b)
<1>0. /\ b \in Object /\ Sound(b, n) /\ b.heard \in Nat /\ b.frames_seen \in Byte
      /\ b.record_len \in Nat
  BY DEF Traffic, Sound, Object
<1>1. Untouched(b, c)
  BY <1>0, FileRecordFacts
<1>2. /\ c.tx_fn = b.tx_fn /\ c.seen_mask = b.seen_mask /\ c.frames_seen = frames
      /\ c.expected_frames = b.expected_frames /\ c.record_len = len
      /\ c.retries = b.retries /\ c.heard = b.heard + 1
      /\ c.cached_cell_count = b.cached_cell_count /\ c.cached_temp_count = b.cached_temp_count
  <2>1. c = [b EXCEPT !.record_len = len, !.frames_seen = frames, !.heard = b.heard + 1]
    BY <1>0 DEF FileRecord, Object
  <2> HIDE DEF c, len, frames
  <2> QED
    BY <1>0, <2>1 DEF Object
<1>3. len <= b.record_len + 7 /\ len \in Nat
  BY <1>0 DEF FAULT_BUFFER_LEN
<1>4. MaxReplyFrames < 256 => frames = b.heard + 1 /\ b.record_len <= 7 * b.heard
  <2> SUFFICES ASSUME MaxReplyFrames < 256
               PROVE  frames = b.heard + 1 /\ b.record_len <= 7 * b.heard
    OBVIOUS
  <2>1. b.frames_seen = b.heard /\ b.record_len <= 7 * b.heard
    BY DEF Traffic, Tallied
  <2>2. b.heard + 1 < 256
    BY <1>0, BoundAssumption
  <2> QED
    BY <1>0, <2>1, <2>2
<1> HIDE DEF c, len, frames
<1>5. /\ head(c) = head(b) /\ Multi(c) = Multi(b) /\ Streaming(c) = Streaming(b)
      /\ FramesExpected(c) = FramesExpected(b)
  BY <1>1, <1>2, SameHead, SameExpected DEF Untouched
<1>6. Sound(c, n)
  BY <1>0, <1>1, UntouchedSound
<1>7. SentBefore(c, n)
  BY <1>1 DEF Traffic, SentBefore, Untouched, SameQueue
<1>8. Sized(c)
  BY <1>1, <1>2, <1>5 DEF Traffic, Sized, Untouched
<1>9. MaxReplyFrames < 256 => c.record_len <= 7 * c.heard
  BY <1>0, <1>2, <1>3, <1>4
<1>10. Tallied(c)
  <2>1. c.heard <= MaxReplyFrames
    BY <1>0, <1>2, BoundAssumption
  <2> QED
    BY <1>2, <1>4, <1>5, <1>9, <2>1 DEF Tallied
<1>11. Wired(c)
  BY <1>1, <1>2, <1>5 DEF Traffic, Wired, Untouched, SameQueue
<1> QED
  BY <1>6, <1>7, <1>8, <1>9, <1>10, <1>11 DEF Traffic, c

(* A retry is one more transmission and one more in retries_.              *)
LEMMA RetryTraffic ==
    ASSUME NEW b, NEW n \in Nat, Traffic(b, n), b.state = "AWAITING", b.retries + 1 \in Byte
    PROVE  Traffic(transmit([b EXCEPT !.retries = @ + 1]), n)
<1> DEFINE again == [b EXCEPT !.retries = b.retries + 1]
           c == transmit(again)
           deadline == (again.now_ms + again.response_timeout_ms) % ClockMod
<1>0. /\ b \in Object /\ Sound(b, n) /\ b.queue_count \in Nat /\ b.queue_count > 0
      /\ b.sent \in [ctx : Nat, tries : Nat] /\ b.retries \in Nat
  BY DEF Traffic, Sound, Object, Byte
<1>1. /\ again \in Object /\ SameQueue(b, again)
      /\ again.state = b.state /\ again.sent = b.sent /\ again.tx_fn = b.tx_fn
      /\ again.seen_mask = b.seen_mask /\ again.frames_seen = b.frames_seen
      /\ again.expected_frames = b.expected_frames /\ again.record_len = b.record_len
      /\ again.retries = b.retries + 1 /\ again.heard = b.heard
      /\ again.cached_cell_count = b.cached_cell_count
      /\ again.cached_temp_count = b.cached_temp_count
  BY <1>0 DEF Object, SameQueue
<1>2. [b EXCEPT !.retries = @ + 1] = again
  BY <1>0 DEF Object
<1> HIDE DEF again
<1>3. c \in Object /\ SameQueue(again, c)
  BY <1>1, TransmitFacts
<1>4. /\ c.state = again.state /\ c.sent = Handed(again) /\ c.tx_fn = again.tx_fn
      /\ c.seen_mask = again.seen_mask /\ c.frames_seen = again.frames_seen
      /\ c.expected_frames = again.expected_frames /\ c.record_len = again.record_len
      /\ c.retries = again.retries /\ c.heard = again.heard
      /\ c.cached_cell_count = again.cached_cell_count
      /\ c.cached_temp_count = again.cached_temp_count
  <2>1. c = [again EXCEPT !.sent = Handed(again), !.deadline_ms = deadline]
    BY DEF transmit, Handed
  <2> HIDE DEF c, deadline
  <2> QED
    BY <1>1, <2>1 DEF Object
<1> HIDE DEF c
<1>5. SameQueue(b, c)
  BY <1>1, <1>3 DEF SameQueue
<1>6. /\ head(c) = head(b) /\ Multi(c) = Multi(b) /\ Streaming(c) = Streaming(b)
      /\ FramesExpected(c) = FramesExpected(b)
  <2>1. head(c) = head(b) /\ Multi(c) = Multi(b) /\ Streaming(c) = Streaming(b)
    BY <1>5, SameHead
  <2> QED
    BY <1>1, <1>4, <2>1, SameExpected
<1>7. head(again) = head(b) /\ head(b).ctx = n - b.queue_count + 1
  BY <1>0, <1>1, SameHead, HeadIsFirst DEF FirstOf
<1>8. Sound(c, n)
  BY <1>0, <1>1, <1>3, <1>4, <1>5, SameQueueSound
<1>9. SentBefore(c, n)
  <2>1. b.sent.ctx <= n - b.queue_count + 1
    BY DEF Traffic, SentBefore
  <2>2. Handed(again).ctx <= n - b.queue_count + 1
    BY <1>0, <1>1, <1>7, <2>1 DEF Handed
  <2>3. c.queue_count = b.queue_count /\ c.state = "AWAITING" /\ c.sent = Handed(again)
    BY <1>1, <1>4, <1>5 DEF SameQueue
  <2> QED
    BY <2>2, <2>3 DEF SentBefore
<1>10. Sized(c)
  BY <1>1, <1>4, <1>6 DEF Traffic, Sized
<1>11. Tallied(c)
  BY <1>1, <1>4, <1>6 DEF Traffic, Tallied
<1>12. Wired(c)
  <2> SUFFICES ASSUME TxHandlers \subseteq {TRUE}
               PROVE  c.tx_fn /\ c.sent = [ctx |-> head(c).ctx, tries |-> c.retries + 1]
    BY Zenon DEF Wired
  <2>1. b.tx_fn /\ b.sent = [ctx |-> head(b).ctx, tries |-> b.retries + 1]
    BY <1>0 DEF Traffic, Wired
  <2>2. again.tx_fn /\ c.tx_fn
    BY <1>1, <1>4, <2>1, Zenon
  <2>3. Handed(again) = [ctx |-> head(b).ctx, tries |-> b.retries + 1 + 1]
    BY <1>1, <1>7, <2>1, <2>2 DEF Handed
  <2> QED
    BY <1>1, <1>4, <1>6, <2>2, <2>3
<1> QED
  BY <1>2, <1>8, <1>9, <1>10, <1>11, <1>12 DEF Traffic, c

(* A request in flight has been sent once more than retries_ says.         *)
LEMMA TriesCounted ==
    ASSUME NEW b, Wired(b), TxHandlers \subseteq {TRUE}, b.state = "AWAITING"
    PROVE  b.sent.ctx = head(b).ctx /\ b.sent.tries = b.retries + 1
<1> DEFINE s == b.sent
           x == head(b).ctx
           y == b.retries + 1
<1>1. s = [ctx |-> x, tries |-> y]
  BY Zenon DEF Wired
<1> HIDE DEF s, x, y
<1>2. s.ctx = x /\ s.tries = y
  BY <1>1
<1> QED
  BY <1>2 DEF s, x, y

-----------------------------------------------------------------------------
(* What the session says of the traffic.                                   *)

(* The claim that an event e makes of the session b that dispatches it.    *)
Truthful(b, e) ==
    /\ e.kind = "TIMEOUT" => b.heard = 0 /\ e.retries = b.sent.tries - 1
    /\ e.error = "TRUNCATED" => e.frames = b.heard /\ b.heard > 0
    /\ e.kind = "RESPONSE" /\ multiframe_info(e.id).multi => 0 < e.frames /\ e.frames <= b.heard

Tells(b, e) == TxHandlers \subseteq {TRUE} /\ MaxReplyFrames < 256 => Truthful(b, e)

(* The books of the session are in order.                                  *)
Booked == Traffic(bms, Len(fate))

(* A step that dispatches a truthful event; only feed() and tick() do.     *)
Speaks ==
    /\ MayDrive
    /\ \E b, e : \E then \in Continuations :
           /\ Traffic(b, Len(fate)) /\ Tells(b, e)
           /\ emit(b, e, then)

(* An error other than TRUNCATED makes no claim.                           *)
LEMMA ErrorTells ==
    ASSUME NEW b, NEW id, NEW error, error # "TRUNCATED", NEW frames
    PROVE  Tells(b, ErrorEvent(id, error, frames))
BY DEF Tells, Truthful, ErrorEvent

(* A frame, or a corrupt one, is told of truthfully or filed.              *)
LEMMA DeliverTraffic ==
    ASSUME Good(bms, stack, fate), Booked, Delivers
    PROVE  Speaks \/ (MayDrive /\ Booked' /\ UNCHANGED stack)
<1> DEFINE n == Len(fate)
<1>0. bms \in Object /\ n \in Nat /\ Traffic(bms, n) /\ fate \in Seq(Fates)
  BY DEF Good, Sound, Booked
<1>n. Booked' = Traffic(bms', Len(fate'))
  BY DEF Booked
<1>s. ASSUME NEW b, NEW e, NEW then \in Continuations,
             MayDrive, Traffic(b, n), Tells(b, e), emit(b, e, then)
      PROVE  Speaks
  BY <1>s, Zenon DEF Speaks
<1> HIDE DEF n
<1>1. ASSUME NEW error \in {"CHECKSUM", "BAD_LENGTH"}, OnFrameError(error)
      PROVE  Speaks
  <2> DEFINE id == IF bms.state = "AWAITING" THEN head(bms).id ELSE CAPACITY_VOLTAGE
  <2>1. error # "TRUNCATED"
    BY <1>1
  <2>2. Tells(bms, ErrorEvent(id, error, 0))
    BY <2>1, ErrorTells
  <2> QED
    BY <1>0, <1>1, <2>2, <1>s, ContinuationsAre, Zenon DEF OnFrameError
<1>2. ASSUME NEW f \in AnyFrame,
             \/ RejectIdle(f) \/ RejectSource(f) \/ RejectId(f)
             \/ HandleSingle(f)
             \/ RejectFrameNo(f) \/ HandleMultiLast(f) \/ HandleMultiMore(f)
             \/ HandleStreamEnd(f) \/ HandleStreamMore(f) \/ HandleStreamRecord(f)
      PROVE  Speaks \/ (MayDrive /\ Booked' /\ UNCHANGED stack)
  <2>1. f.id \in Byte /\ f.data \in Data
    BY DEF AnyFrame
  <2>2. f.data[0] \in Byte
    BY <2>1 DEF Data
  <2>3. /\ Tells(bms, ErrorEvent(f.id, "BAD_SOURCE_ADDRESS", 0))
        /\ Tells(bms, ErrorEvent(f.id, "UNEXPECTED_DATA_ID", 0))
        /\ Tells(bms, ErrorEvent(f.id, "FRAME_SEQUENCE", 0))
    BY ErrorTells
  <2>4. CASE RejectIdle(f)
    BY <1>0, <2>3, <2>4, <1>s, ContinuationsAre, Zenon DEF RejectIdle
  <2>5. CASE RejectSource(f)
    BY <1>0, <2>3, <2>5, <1>s, ContinuationsAre, Zenon DEF RejectSource
  <2>6. CASE RejectId(f)
    BY <1>0, <2>3, <2>6, <1>s, ContinuationsAre, Zenon DEF RejectId
  <2>7. CASE RejectFrameNo(f)
    BY <1>0, <2>3, <2>7, <1>s, ContinuationsAre, Zenon DEF RejectFrameNo, Reply
  <2>8. CASE HandleSingle(f)
    <3> DEFINE b == note_counts(bms, f.id, f.data)
    <3>1. /\ MayDrive /\ bms.state = "AWAITING" /\ f.id = head(bms).id
          /\ multiframe_info(f.id).multi = FALSE /\ emit(b, SingleEvent(f), "complete")
      BY <2>8 DEF HandleSingle, Reply
    <3>2. ~Multi(bms)
      BY <3>1 DEF Multi
    <3>3. Traffic(b, n)
      BY <1>0, <2>1, <3>1, <3>2, NoteCountsTraffic
    <3>4. Tells(b, SingleEvent(f))
      <4> HIDE DEF b
      <4>1. Tells(b, ResponseEvent(f.id, 1))
        BY <3>1 DEF Tells, Truthful, ResponseEvent
      <4>2. /\ Tells(b, ErrorEvent(f.id, "WRITE_REJECTED", 1))
            /\ Tells(b, ErrorEvent(f.id, "UNKNOWN_DATA_ID", 1))
        BY ErrorTells
      <4> QED
        BY <4>1, <4>2, Zenon DEF SingleEvent
    <3> QED
      BY <3>1, <3>3, <3>4, <1>s, ContinuationsAre, Zenon
  <2>9. CASE HandleMultiLast(f) \/ HandleMultiMore(f)
    <3> DEFINE b == FileFrame(bms, f.data[0])
    <3>1. /\ MayDrive /\ bms.state = "AWAITING" /\ f.id = head(bms).id
          /\ multiframe_info(f.id).multi = TRUE /\ multiframe_info(f.id).streaming = FALSE
          /\ f.data[0] <= MAX_FRAME_INDEX /\ bms.heard < MaxReplyFrames
      BY <2>9, Zenon DEF HandleMultiLast, HandleMultiMore, AcceptFrame, Reply
    <3>2. f.data[0] \in 0..MAX_FRAME_INDEX
      <4>1. f.data[0] <= MAX_FRAME_INDEX
        BY <3>1
      <4> QED
        BY <2>2, <4>1 DEF MAX_FRAME_INDEX, Byte
    <3>3. Multi(bms) /\ ~Streaming(bms)
      BY <3>1 DEF Multi, Streaming
    <3>4. /\ Traffic(b, n) /\ b.frames_seen > 0
          /\ MaxReplyFrames < 256 => b.frames_seen <= b.heard
      BY <1>0, <3>1, <3>2, <3>3, FileFrameTraffic
    <3>5. b \in Object
      BY <3>4 DEF Traffic, Sound
    <3>6. CASE HandleMultiLast(f)
      <4> DEFINE e == IF decode_multi(f.id) THEN ResponseEvent(f.id, b.frames_seen)
                      ELSE ErrorEvent(f.id, "UNKNOWN_DATA_ID", b.frames_seen)
      <4>1. emit(b, e, "complete")
        BY <3>6 DEF HandleMultiLast, finish_multi
      <4>2. Tells(b, ErrorEvent(f.id, "UNKNOWN_DATA_ID", b.frames_seen))
        BY ErrorTells
      <4>3. Tells(b, ResponseEvent(f.id, b.frames_seen))
        <5> HIDE DEF b
        <5>1. b.frames_seen \in Nat
          <6>1. b.frames_seen \in Byte
            BY <3>5 DEF Object
          <6> QED
            BY <6>1 DEF Byte
        <5> QED
          BY <3>4, <5>1 DEF Tells, Truthful, ResponseEvent
      <4>4. Tells(b, e)
        BY <4>2, <4>3, Zenon
      <4> QED
        BY <3>1, <3>4, <4>1, <4>4, <1>s, ContinuationsAre, Zenon
    <3>7. CASE HandleMultiMore(f)
      <4>1. bms' = await_next_frame(b) /\ UNCHANGED <<stack, fate>>
        BY <3>7 DEF HandleMultiMore
      <4> HIDE DEF b
      <4>2. Traffic(await_next_frame(b), n)
        BY <3>4, <3>5, AwaitTalk, SameTalkTraffic
      <4> QED
        BY <1>n, <3>1, <4>1, <4>2 DEF n
    <3> QED
      BY <2>9, <3>6, <3>7
  <2>10. CASE HandleStreamEnd(f)
    <3>1. /\ MayDrive /\ bms' = complete(bms) /\ stack' = stack
          /\ fate' = Reported(fate, head(bms).ctx)
      BY <2>10 DEF HandleStreamEnd, Reply
    <3>2. Len(fate') = n
      BY <1>0, <3>1, ReportedFacts DEF n
    <3> QED
      BY <1>0, <1>n, <3>1, <3>2, CompleteTraffic
  <2>11. CASE HandleStreamMore(f) \/ HandleStreamRecord(f)
    <3> DEFINE b == FileRecord(bms)
    <3>1. /\ MayDrive /\ bms.state = "AWAITING" /\ f.id = head(bms).id
          /\ multiframe_info(f.id).multi = TRUE /\ multiframe_info(f.id).streaming = TRUE
          /\ bms.heard < MaxReplyFrames
      BY <2>11, Zenon DEF HandleStreamMore, HandleStreamRecord, AcceptRecord, Reply
    <3>2. Multi(bms) /\ Streaming(bms)
      BY <3>1 DEF Multi, Streaming
    <3>3. /\ Traffic(b, n)
          /\ MaxReplyFrames < 256 => b.record_len <= 7 * b.heard
      BY <1>0, <3>1, <3>2, FileRecordTraffic
    <3>4. b \in Object
      BY <3>3 DEF Traffic, Sound
    <3>5. CASE HandleStreamMore(f)
      <4>1. bms' = await_next_frame(b) /\ UNCHANGED <<stack, fate>>
        BY <3>5 DEF HandleStreamMore
      <4> HIDE DEF b
      <4>2. Traffic(await_next_frame(b), n)
        BY <3>3, <3>4, AwaitTalk, SameTalkTraffic
      <4> QED
        BY <1>n, <3>1, <4>1, <4>2 DEF n
    <3>6. CASE HandleStreamRecord(f)
      <4>1. emit(b, ResponseEvent(f.id, 4), "stream") /\ b.record_len >= FAULT_BUFFER_LEN
        BY <3>6 DEF HandleStreamRecord
      <4>2. Tells(b, ResponseEvent(f.id, 4))
        <5> HIDE DEF b
        <5>1. MaxReplyFrames < 256 => 4 <= b.heard
          <6>1. b.record_len \in 0..FAULT_BUFFER_LEN /\ b.heard \in Nat
            BY <3>4 DEF Object
          <6>2. b.record_len >= 28
            BY <4>1 DEF FAULT_BUFFER_LEN
          <6> QED
            BY <3>3, <6>1, <6>2 DEF FAULT_BUFFER_LEN
        <5> QED
          BY <5>1 DEF Tells, Truthful, ResponseEvent
      <4> QED
        BY <3>1, <3>3, <4>1, <4>2, <1>s, ContinuationsAre, Zenon
    <3> QED
      BY <2>11, <3>5, <3>6
  <2> QED
    BY <1>2, <2>4, <2>5, <2>6, <2>7, <2>8, <2>9, <2>10, <2>11
<1> QED
  BY <1>1, <1>2 DEF Delivers, OnFrame

(* So is what tick() does.                                                 *)
LEMMA TickTraffic ==
    ASSUME Good(bms, stack, fate), Booked, NEW d \in Timeout, Tick(d)
    PROVE  Speaks \/ (MayDrive /\ Booked' /\ UNCHANGED stack)
<1> DEFINE n == Len(fate)
<1>0. bms \in Object /\ n \in Nat /\ Traffic(bms, n) /\ d \in Timeout
  BY DEF Good, Sound, Booked
<1>n. Booked' = Traffic(bms', Len(fate'))
  BY DEF Booked
<1>s. ASSUME NEW b, NEW e, NEW then \in Continuations,
             MayDrive, Traffic(b, n), Tells(b, e), emit(b, e, then)
      PROVE  Speaks
  BY <1>s, Zenon DEF Speaks
<1> HIDE DEF n
<1>1. /\ SameTalk(bms, At(d)) /\ At(d) \in Object /\ At(d).state = bms.state
      /\ At(d).frames_seen = bms.frames_seen /\ At(d).retries = bms.retries
      /\ At(d).heard = bms.heard
  BY <1>0, AtTalk DEF SameTalk
<1>2. /\ bms.frames_seen \in Nat /\ bms.heard \in Nat /\ bms.retries \in Byte
      /\ bms.max_retries \in Byte
  BY <1>0 DEF Object, Byte
<1>3. Traffic(At(d), n)
  BY <1>0, <1>1, SameTalkTraffic
<1>4. /\ head(At(d)) = head(bms)
      /\ Multi(At(d)) = Multi(bms) /\ Streaming(At(d)) = Streaming(bms)
  BY <1>1, SameHead DEF SameTalk
<1>5. CASE TickQuiet(d)
  BY <1>3, <1>5, <1>n DEF TickQuiet, n
<1>6. CASE TickFinishes(d)
  <2> DEFINE id == head(bms).id
             e == IF decode_multi(id) THEN ResponseEvent(id, At(d).frames_seen)
                  ELSE ErrorEvent(id, "UNKNOWN_DATA_ID", At(d).frames_seen)
  <2>1. /\ MayDrive /\ bms.state = "AWAITING" /\ Multi(bms) /\ ~Streaming(bms)
        /\ bms.frames_seen > 0 /\ emit(At(d), e, "complete")
    BY <1>6 DEF TickFinishes, Due, finish_multi
  <2>2. Tells(At(d), ErrorEvent(id, "UNKNOWN_DATA_ID", At(d).frames_seen))
    BY ErrorTells
  <2>3. MaxReplyFrames < 256 => bms.frames_seen <= bms.heard
    BY <1>0, <2>1 DEF Traffic, Tallied
  <2>4. Tells(At(d), ResponseEvent(id, At(d).frames_seen))
    BY <1>1, <1>2, <2>1, <2>3 DEF Tells, Truthful, ResponseEvent
  <2>5. Tells(At(d), e)
    BY <2>2, <2>4, Zenon
  <2> QED
    BY <1>3, <1>s, <2>1, <2>5, ContinuationsAre, Zenon
<1>7. CASE TickTruncates(d)
  <2> DEFINE e == ErrorEvent(head(bms).id, "TRUNCATED", bms.frames_seen)
  <2>1. /\ MayDrive /\ bms.state = "AWAITING" /\ Streaming(bms)
        /\ bms.frames_seen > 0 /\ emit(At(d), e, "complete")
    BY <1>7 DEF TickTruncates, Due
  <2>2. MaxReplyFrames < 256 => bms.frames_seen = bms.heard
    BY <1>0, <2>1 DEF Traffic, Tallied
  <2>3. Tells(At(d), e)
    BY <1>1, <1>2, <2>1, <2>2 DEF Tells, Truthful, ErrorEvent
  <2> QED
    BY <1>3, <1>s, <2>1, <2>3, ContinuationsAre, Zenon
<1>8. CASE TickRetries(d)
  <2>1. /\ MayDrive /\ bms.state = "AWAITING" /\ bms.retries < bms.max_retries
        /\ bms' = transmit([At(d) EXCEPT !.retries = @ + 1]) /\ UNCHANGED <<stack, fate>>
    BY <1>8 DEF TickRetries, Unanswered, Due
  <2>2. At(d).retries + 1 \in Byte
    BY <1>1, <1>2, <2>1 DEF Byte
  <2>3. Traffic(bms', n)
    BY <1>0, <1>1, <1>3, <2>1, <2>2, RetryTraffic
  <2> QED
    BY <1>n, <2>1, <2>3 DEF n
<1>9. CASE TickTimesOut(d)
  <2> DEFINE e == TimeoutEvent(head(bms).id, bms.retries)
  <2>1. /\ MayDrive /\ bms.state = "AWAITING" /\ ~(Multi(bms) /\ bms.frames_seen > 0)
        /\ emit(At(d), e, "complete")
    BY <1>9 DEF TickTimesOut, Unanswered, Due
  <2>2. MaxReplyFrames < 256 => bms.heard = 0
    <3>1. ~Multi(bms) \/ bms.frames_seen = 0
      BY <1>2, <2>1
    <3> QED
      BY <1>0, <2>1, <3>1 DEF Traffic, Tallied
  <2>3. TxHandlers \subseteq {TRUE} => At(d).sent.tries = bms.retries + 1
    <3>1. TxHandlers \subseteq {TRUE} => bms.sent.tries = bms.retries + 1
      BY <1>0, <2>1, TriesCounted, Zenon DEF Traffic
    <3>2. At(d).sent = bms.sent
      BY <1>1 DEF SameTalk
    <3> QED
      BY <3>1, <3>2, Zenon
  <2>4. Tells(At(d), e)
    <3> SUFFICES ASSUME TxHandlers \subseteq {TRUE}, MaxReplyFrames < 256
                 PROVE  Truthful(At(d), e)
      BY Zenon DEF Tells
    <3>1. bms.retries = At(d).sent.tries - 1 /\ At(d).heard = 0
      <4>1. ASSUME NEW r \in Nat, NEW t, t = r + 1 PROVE r = t - 1
        BY <4>1
      <4>2. bms.retries \in Nat
        BY <1>2 DEF Byte
      <4> QED
        BY <1>1, <2>2, <2>3, <4>1, <4>2, Zenon
    <3> QED
      BY <3>1 DEF Truthful, TimeoutEvent
  <2> QED
    BY <1>3, <1>s, <2>1, <2>4, ContinuationsAre, Zenon
<1> QED
  BY <1>5, <1>6, <1>7, <1>8, <1>9 DEF Tick

(* A setter changes no traffic; a new TX handler changes none either.      *)
LEMMA ConfigureTraffic ==
    ASSUME Good(bms, stack, fate), Booked,
           \/ \E fn \in TxHandlers : SetTxHandler(fn)
           \/ \E fn \in EventHandlers : SetEventHandler(fn)
           \/ \E ms \in ResponseTimeouts : SetResponseTimeout(ms)
           \/ \E ms \in InterframeTimeouts : SetInterframeTimeout(ms)
           \/ \E m \in RetryLimits : SetMaxRetries(m)
    PROVE  Booked' /\ UNCHANGED stack /\ bms'.heard = bms.heard /\ bms'.sent = bms.sent
<1> DEFINE n == Len(fate)
<1>0. bms \in Object /\ n \in Nat /\ Traffic(bms, n)
  BY DEF Good, Sound, Booked
<1>n. Booked' = Traffic(bms', Len(fate'))
  BY DEF Booked
<1> HIDE DEF n
<1>1. ASSUME NEW fn \in TxHandlers, SetTxHandler(fn)
      PROVE  Traffic(bms', n) /\ bms'.heard = bms.heard /\ bms'.sent = bms.sent
  <2> DEFINE c == [bms EXCEPT !.tx_fn = fn]
  <2>1. bms' = c /\ fn \in BOOLEAN
    BY <1>1, InputAssumption DEF SetTxHandler, Configure
  <2>2. /\ c \in Object /\ SameQueue(bms, c)
        /\ c.state = bms.state /\ c.sent = bms.sent /\ c.tx_fn = fn
        /\ c.seen_mask = bms.seen_mask /\ c.frames_seen = bms.frames_seen
        /\ c.expected_frames = bms.expected_frames /\ c.record_len = bms.record_len
        /\ c.retries = bms.retries /\ c.heard = bms.heard
        /\ c.cached_cell_count = bms.cached_cell_count
        /\ c.cached_temp_count = bms.cached_temp_count
    BY <1>0, <2>1 DEF Object, SameQueue
  <2> HIDE DEF c
  <2>3. /\ head(c) = head(bms) /\ Multi(c) = Multi(bms) /\ Streaming(c) = Streaming(bms)
        /\ FramesExpected(c) = FramesExpected(bms)
    BY <2>2, SameHead, SameExpected
  <2>4. Sound(c, n)
    BY <1>0, <2>2, SameQueueSound DEF Traffic
  <2>5. SentBefore(c, n)
    BY <1>0, <2>2 DEF Traffic, SentBefore, SameQueue
  <2>6. Sized(c)
    BY <1>0, <2>2, <2>3 DEF Traffic, Sized
  <2>7. Tallied(c)
    BY <1>0, <2>2, <2>3 DEF Traffic, Tallied
  <2>8. Wired(c)
    <3>1. TxHandlers \subseteq {TRUE} => c.tx_fn
      BY <1>1, <2>2
    <3> QED
      BY <1>0, <2>2, <2>3, <3>1 DEF Traffic, Wired
  <2> QED
    BY <2>1, <2>2, <2>4, <2>5, <2>6, <2>7, <2>8 DEF Traffic
<1>2. ASSUME \/ \E fn \in EventHandlers : SetEventHandler(fn)
             \/ \E ms \in ResponseTimeouts : SetResponseTimeout(ms)
             \/ \E ms \in InterframeTimeouts : SetInterframeTimeout(ms)
             \/ \E m \in RetryLimits : SetMaxRetries(m)
      PROVE  Traffic(bms', n) /\ bms'.heard = bms.heard /\ bms'.sent = bms.sent
  <2>1. SameTalk(bms, bms')
    <3> USE DEF Configure, SameTalk, SameQueue
    <3>1. ASSUME NEW fn \in EventHandlers, SetEventHandler(fn) PROVE SameTalk(bms, bms')
      BY <1>0, <3>1, InputAssumption DEF SetEventHandler, Object
    <3>2. ASSUME NEW ms \in ResponseTimeouts, SetResponseTimeout(ms) PROVE SameTalk(bms, bms')
      BY <1>0, <3>2, TimingAssumption DEF SetResponseTimeout, Object
    <3>3. ASSUME NEW ms \in InterframeTimeouts, SetInterframeTimeout(ms) PROVE SameTalk(bms, bms')
      BY <1>0, <3>3, TimingAssumption DEF SetInterframeTimeout, Object
    <3>4. ASSUME NEW m \in RetryLimits, SetMaxRetries(m) PROVE SameTalk(bms, bms')
      BY <1>0, <3>4, TimingAssumption DEF SetMaxRetries, Object
    <3> QED
      BY <1>2, <3>1, <3>2, <3>3, <3>4
  <2> QED
    BY <1>0, <2>1, SameTalkTraffic DEF SameTalk
<1>3. UNCHANGED <<stack, fate>>
  BY DEF SetTxHandler, SetEventHandler, SetResponseTimeout, SetInterframeTimeout, SetMaxRetries,
         Configure
<1> QED
  BY <1>1, <1>2, <1>3, <1>n DEF n

(* While a handler runs, a poll is filed and changes no traffic.           *)
LEMMA PollTraffic ==
    ASSUME Good(bms, stack, fate), Booked, NEW p \in Polls, Poll(p)
    PROVE  /\ Booked' /\ UNCHANGED stack
           /\ bms.dispatching => bms'.heard = bms.heard /\ bms'.sent = bms.sent
<1> DEFINE n == Len(fate)
           req == [id |-> p.id, on |-> p.on, hint |-> p.hint, fn |-> p.fn, ctx |-> n + 1]
<1>0. bms \in Object /\ n \in Nat /\ Traffic(bms, n) /\ fate \in Seq(Fates) /\ Sound(bms, n)
  BY DEF Good, Sound, Booked
<1>n. Booked' = Traffic(bms', Len(fate'))
  BY DEF Booked
<1>1. bms' = enqueue(bms, req) /\ Len(fate') = n + 1 /\ UNCHANGED stack
  BY <1>0 DEF Poll
<1> HIDE DEF n
<1>2. req \in Request /\ req.ctx = n + 1
  BY <1>0, InputAssumption DEF Request, PollArgs
<1>3. bms.queue_count < QUEUE_CAPACITY /\ bms.tx_fn
  <2>1. queue_status(bms, p.id) = "QUEUED"
    BY DEF Poll
  <2>2. ~(bms.queue_count >= QUEUE_CAPACITY) /\ ~(~bms.tx_fn)
    BY <2>1 DEF queue_status
  <2> QED
    BY <1>0, <2>2, CapacityAssumption DEF Object
<1> HIDE DEF req
<1>4. Traffic(bms', n + 1)
  BY <1>0, <1>1, <1>2, <1>3, EnqueueTraffic
<1>5. bms.dispatching => bms'.heard = bms.heard /\ bms'.sent = bms.sent
  <2> SUFFICES ASSUME bms.dispatching
               PROVE  bms'.heard = bms.heard /\ bms'.sent = bms.sent
    OBVIOUS
  <2> DEFINE queue == [bms.queue EXCEPT
                          ![(bms.queue_head + bms.queue_count) % QUEUE_CAPACITY] = req]
  <2>1. bms' = [bms EXCEPT !.queue = queue, !.queue_count = bms.queue_count + 1]
    BY <1>0, <1>1 DEF enqueue, Object
  <2> HIDE DEF queue
  <2> QED
    BY <1>0, <2>1 DEF Object
<1> QED
  BY <1>1, <1>4, <1>5, <1>n

(* reset() changes none that a handler running now could have told of.     *)
LEMMA ResetStepTraffic ==
    ASSUME Good(bms, stack, fate), Booked, Reset
    PROVE  Booked' /\ UNCHANGED stack /\ bms'.heard = bms.heard /\ bms'.sent = bms.sent
<1> DEFINE n == Len(fate)
<1>0. bms \in Object /\ n \in Nat /\ Traffic(bms, n)
  BY DEF Good, Sound, Booked
<1>n. Booked' = Traffic(bms', Len(fate'))
  BY DEF Booked
<1>1. Len(fate') = n /\ stack' = stack
  BY ResetStepFacts
<1>2. bms' = reset(bms)
  BY DEF Reset
<1> HIDE DEF n
<1>3. bms'.heard = bms.heard /\ bms'.sent = bms.sent
  BY <1>0, <1>2 DEF reset, Object
<1> QED
  BY <1>0, <1>1, <1>2, <1>3, <1>n, ResetTraffic

(* The caller of emit() goes on with the books in order.                   *)
LEMMA EmitReturnsTraffic ==
    ASSUME Good(bms, stack, fate), Booked, NEW then \in Continuations, EmitReturns(then)
    PROVE  Booked'
<1> DEFINE n == Len(fate)
           ended == EndDispatch(bms, Top.nested)
<1>0. bms \in Object /\ n \in Nat /\ Traffic(bms, n)
  BY DEF Good, Sound, Booked
<1>n. Booked' = Traffic(bms', Len(fate'))
  BY DEF Booked
<1>1. bms' = Resume(ended, then) /\ Len(fate') = n
  BY DEF EmitReturns
<1> HIDE DEF n
<1>2. Traffic(ended, n)
  <2> DEFINE off == [bms EXCEPT !.dispatching = FALSE]
  <2>1. SameTalk(bms, off)
    BY <1>0 DEF SameTalk, SameQueue, Object
  <2>2. ended = IF Top.nested THEN bms ELSE off
    BY DEF EndDispatch
  <2> HIDE DEF off, ended
  <2> QED
    BY <1>0, <2>1, <2>2, SameTalkTraffic
<1> HIDE DEF ended
<1>3. CASE then = "return"
  BY <1>1, <1>2, <1>3, <1>n DEF Resume
<1>4. CASE then = "complete"
  <2>1. bms' = complete(ended)
    BY <1>1, <1>4 DEF Resume
  <2> QED
    BY <1>0, <1>1, <1>2, <1>n, <2>1, CompleteTraffic
<1>5. CASE then = "stream"
  <2>1. bms' = after_record(ended)
    BY <1>1, <1>5 DEF Resume
  <2> QED
    BY <1>0, <1>1, <1>2, <1>n, <2>1, AfterRecordTraffic
<1> QED
  BY <1>3, <1>4, <1>5 DEF Continuations

-----------------------------------------------------------------------------
(* The invariant, for every use of the session, re-entrant ones included.  *)

(* emit() leaves the books as its caller left them.                        *)
LEMMA SpeaksTraffic ==
    ASSUME Good(bms, stack, fate), NEW b, NEW e, NEW then, Traffic(b, Len(fate)),
           emit(b, e, then)
    PROVE  Booked' /\ bms'.heard = b.heard /\ bms'.sent = b.sent
<1> DEFINE n == Len(fate)
<1>0. b \in Object /\ Traffic(b, n) /\ fate \in Seq(Fates)
  BY DEF Good, Traffic, Sound
<1>1. Len(fate') = n
  BY <1>0, ReportedFacts DEF emit
<1>n. Booked' = Traffic(bms', Len(fate'))
  BY DEF Booked
<1>2. bms' = [b EXCEPT !.dispatching = TRUE]
  BY DEF emit
<1> HIDE DEF n
<1>3. SameTalk(b, bms')
  BY <1>0, <1>2 DEF SameTalk, SameQueue, Object
<1> QED
  BY <1>0, <1>1, <1>3, <1>n, SameTalkTraffic DEF SameTalk

(* A step that lets a handler running now see no change in the traffic.    *)
Unheard ==
    UNCHANGED stack /\ (bms.dispatching => bms'.heard = bms.heard /\ bms'.sent = bms.sent)

(* Every step keeps the books, and is one of these.                        *)
LEMMA NextTraffic ==
    ASSUME Good(bms, stack, fate), Booked, Next
    PROVE  /\ Booked'
           /\ \/ Speaks
              \/ MayDrive /\ UNCHANGED stack
              \/ Unheard
              \/ SessionHandlerRuns
              \/ \E then \in Continuations : EmitReturns(then)
<1>1. CASE Application
  <2>1. CASE \E p \in Polls : Poll(p)
    BY <2>1, PollTraffic DEF Unheard
  <2>2. CASE Reset
    BY <2>2, ResetStepTraffic DEF Unheard
  <2> QED
    BY <1>1, <2>1, <2>2, ConfigureTraffic DEF Application, Unheard
<1>2. ASSUME Speaks
      PROVE  Booked'
  BY <1>2, SpeaksTraffic, Zenon DEF Speaks
<1>3. CASE Feed
  BY <1>2, <1>3, FeedDelivers, DeliverTraffic
<1>4. CASE \E d \in TickSteps : Tick(d)
  BY <1>2, <1>4, TickTraffic, TimingAssumption
<1>5. CASE Return
  <2>1. CASE SessionHandlerRuns
    BY <2>1 DEF SessionHandlerRuns, Booked
  <2>2. CASE \E then \in Continuations : EmitReturns(then)
    BY <2>2, EmitReturnsTraffic
  <2> QED
    BY <1>5, <2>1, <2>2 DEF Return, Continuations
<1> QED
  BY <1>1, <1>3, <1>4, <1>5 DEF Next

(* A new session has sent nothing.                                         *)
LEMMA InitTraffic ==
    ASSUME Init
    PROVE  Booked
<1>1. Good(bms, stack, fate)
  BY InitGood
<1>2. /\ bms.state = "IDLE" /\ bms.queue_count = 0 /\ bms.sent = [ctx |-> 0, tries |-> 0]
      /\ Len(fate) = 0
  BY DEF Init
<1>3. SentBefore(bms, 0) /\ ~(bms.queue_count > 0)
  BY <1>2 DEF SentBefore
<1>4. Sound(bms, 0)
  BY <1>1, <1>2 DEF Good
<1>5. Traffic(bms, 0)
  BY <1>2, <1>3, <1>4, IdleTraffic, Zenon
<1> QED
  BY <1>2, <1>5 DEF Booked

LEMMA BookedInvariant == Spec => [](Good(bms, stack, fate) /\ Booked)
<1>1. Init => Good(bms, stack, fate) /\ Booked
  BY InitGood, InitTraffic
<1>2. ASSUME Good(bms, stack, fate), Booked, [Next]_vars
      PROVE  Good(bms, stack, fate)' /\ Booked'
  <2>1. Good(bms, stack, fate)'
    BY <1>2, NextGood
  <2>2. CASE Next
    BY <1>2, <2>1, <2>2, NextTraffic
  <2>3. CASE UNCHANGED vars
    BY <1>2, <2>1, <2>3 DEF vars, Booked
  <2> QED
    BY <1>2, <2>2, <2>3
<1> QED
  BY <1>1, <1>2, PTL DEF Spec

(* The session awaits the answer to what it transmitted last, at every     *)
(* depth of re-entrance, if the TX handler is not taken away from it.      *)
THEOREM AwaitsWhatItSent ==
    ASSUME TxHandlers \subseteq {TRUE}
    PROVE  Spec => []WireMatchesHead
<1>1. Booked => WireMatchesHead
  <2> SUFFICES ASSUME Wired(bms), bms.state = "AWAITING"
               PROVE  bms.sent.ctx = head(bms).ctx
    BY DEF Booked, Traffic, WireMatchesHead
  <2> QED
    BY TriesCounted
<1> QED
  BY <1>1, BookedInvariant, PTL

(* A read of the cells or sensors is sized, from start to end, by its hint *)
(* or by the count the pack reported last.                                 *)
THEOREM SizedFromStartToEnd == Spec => []SizedByLatestCount
<1>1. Booked => SizedByLatestCount
  BY DEF Booked, Traffic, Sized, SizedByLatestCount, FramesExpected, ItemsExpected,
         CELL_VOLTAGES, CELL_TEMPERATURES
<1> QED
  BY <1>1, BookedInvariant, PTL

-----------------------------------------------------------------------------
(* Retransmission.                                                         *)

(* Starting a transaction sends a request with a higher number.            *)
Advances(b, c) == c.sent = b.sent \/ c.sent.ctx > b.sent.ctx

(* What complete() transmits was not transmitted before.                   *)
LEMMA CompleteAdvances ==
    ASSUME NEW b, NEW n \in Nat, Traffic(b, n)
    PROVE  Advances(b, complete(b))
<1>1. /\ Sound(b, n) /\ b.queue_count \in Nat /\ b.sent.ctx \in Nat
      /\ b.state \in {"IDLE", "AWAITING"}
      /\ b.sent.ctx <= n - b.queue_count + (IF b.state = "AWAITING" THEN 1 ELSE 0)
  BY DEF Traffic, Sound, Object, SentBefore
<1>2. /\ complete(b).queue_count =
             IF b.state = "AWAITING" THEN b.queue_count - 1 ELSE b.queue_count
      /\ \/ complete(b).sent = b.sent
         \/ complete(b).queue_count > 0 /\ complete(b).sent.ctx = FirstOf(complete(b), n)
  BY <1>1, CompleteSends
<1> QED
  BY <1>1, <1>2 DEF Advances, FirstOf

(* Nor what handle_stream() transmits after a record.                      *)
LEMMA AfterRecordAdvances ==
    ASSUME NEW b, NEW n \in Nat, Traffic(b, n)
    PROVE  Advances(b, after_record(b))
<1>1. /\ Sound(b, n) /\ b.queue_count \in Nat /\ b.sent.ctx \in Nat
      /\ b.sent.ctx <= n - b.queue_count + (IF b.state = "AWAITING" THEN 1 ELSE 0)
  BY DEF Traffic, Sound, Object, SentBefore
<1>2. \/ after_record(b).sent = b.sent
      \/ b.state = "IDLE" /\ b.queue_count > 0 /\ after_record(b).sent.ctx = FirstOf(b, n)
  BY <1>1, AfterRecordSends
<1> QED
  BY <1>1, <1>2 DEF Advances, FirstOf

(* Every step sends something new or resends what nothing was heard of.    *)
LEMMA NextResends ==
    ASSUME MaxReplyFrames < 256, Good(bms, stack, fate), Booked, [Next]_vars
    PROVE  ResendOnlyWhenSilentStep
<1> DEFINE n == Len(fate)
<1>0. /\ n \in Nat /\ Traffic(bms, n) /\ bms \in Object /\ Sound(bms, n)
      /\ fate \in Seq(Fates)
  BY DEF Good, Sound, Booked
<1> HIDE DEF n
<1>a. bms.sent.ctx \in Nat /\ bms.queue_count \in Nat
  BY <1>0 DEF Object
<1>b. ASSUME Advances(bms, bms')
      PROVE  ResendOnlyWhenSilentStep
  BY <1>a, <1>b DEF Advances, ResendOnlyWhenSilentStep
<1>1. CASE UNCHANGED vars
  BY <1>1 DEF vars, ResendOnlyWhenSilentStep
<1>2. CASE Next
  <2>0. Shape
    BY <1>2, NextShape
  <2>1. CASE Emits
    <3>1. PICK b \in Object, event \in Event, then \in Continuations :
              Untouched(bms, b) /\ emit(b, event, then)
      BY <2>1, Zenon DEF Emits
    <3>2. bms'.sent = b.sent
      <4>1. bms' = [b EXCEPT !.dispatching = TRUE]
        BY <3>1 DEF emit
      <4> QED
        BY <4>1 DEF Object
    <3> QED
      BY <1>b, <3>1, <3>2 DEF Untouched, Advances
  <2>2. CASE Leaves
    BY <1>b, <2>2 DEF Leaves, Untouched, Advances
  <2>3. CASE Retries
    <3>1. bms.state = "AWAITING" /\ ~(Multi(bms) /\ bms.frames_seen > 0)
      BY <2>3 DEF Retries
    <3>2. bms.frames_seen \in Nat
      <4>1. bms.frames_seen \in Byte
        BY <1>0 DEF Object
      <4> QED
        BY <4>1 DEF Byte
    <3>3. ~Multi(bms) \/ bms.frames_seen = 0
      BY <3>1, <3>2
    <3>4. bms.heard = 0
      BY <1>0, <3>1, <3>3 DEF Traffic, Tallied
    <3> QED
      BY <3>4 DEF ResendOnlyWhenSilentStep
  <2>4. CASE Ends
    BY <1>0, <1>b, <2>4, CompleteAdvances DEF Ends
  <2>5. CASE \E p \in Polls : Poll(p)
    <3>1. PICK p \in Polls : Poll(p)
      BY <2>5
    <3> DEFINE req == [id |-> p.id, on |-> p.on, hint |-> p.hint, fn |-> p.fn, ctx |-> n + 1]
    <3>2. bms' = enqueue(bms, req)
      BY <3>1 DEF Poll, n
    <3>3. req \in Request /\ req.ctx = n + 1
      BY <1>0, InputAssumption DEF Request, PollArgs
    <3>4. bms.queue_count < QUEUE_CAPACITY
      <4>1. queue_status(bms, p.id) = "QUEUED"
        BY <3>1 DEF Poll
      <4>2. ~(bms.queue_count >= QUEUE_CAPACITY)
        BY <4>1 DEF queue_status
      <4> QED
        BY <1>a, <4>2, CapacityAssumption
    <3> HIDE DEF req
    <3>5. \/ bms'.sent = bms.sent
          \/ bms.state = "IDLE" /\ bms'.sent.ctx = FirstOf(bms, n)
      BY <1>0, <3>2, <3>3, <3>4, EnqueueSends
    <3>6. bms.state = "IDLE" => bms.sent.ctx < FirstOf(bms, n)
      BY <1>0, <1>a DEF Traffic, SentBefore, FirstOf
    <3> QED
      BY <1>a, <1>b, <3>5, <3>6 DEF Advances
  <2>6. CASE Reset
    BY <1>b, <2>6, ResetStepTraffic DEF Advances
  <2>7. CASE SessionHandlerRuns
    BY <1>b, <2>7 DEF SessionHandlerRuns, Advances
  <2>8. CASE \E then \in Continuations : EmitReturns(then)
    <3>1. PICK then \in Continuations : EmitReturns(then)
      BY <2>8
    <3> DEFINE ended == EndDispatch(bms, Top.nested)
               off == [bms EXCEPT !.dispatching = FALSE]
    <3>2. bms' = Resume(ended, then)
      BY <3>1 DEF EmitReturns
    <3>3. Traffic(ended, n) /\ ended.sent = bms.sent
      <4>1. SameTalk(bms, off)
        BY <1>0 DEF SameTalk, SameQueue, Object
      <4>2. ended = IF Top.nested THEN bms ELSE off
        BY DEF EndDispatch
      <4> HIDE DEF off, ended
      <4> QED
        BY <1>0, <4>1, <4>2, SameTalkTraffic DEF SameTalk
    <3> HIDE DEF ended
    <3>4. Advances(ended, bms')
      <4>1. CASE then = "return"
        BY <3>2, <4>1 DEF Resume, Advances
      <4>2. CASE then = "complete"
        <5>1. bms' = complete(ended)
          BY <3>2, <4>2 DEF Resume
        <5> QED
          BY <1>0, <3>3, <5>1, CompleteAdvances
      <4>3. CASE then = "stream"
        <5>1. bms' = after_record(ended)
          BY <3>2, <4>3 DEF Resume
        <5> QED
          BY <1>0, <3>3, <5>1, AfterRecordAdvances
      <4> QED
        BY <4>1, <4>2, <4>3 DEF Continuations
    <3> QED
      BY <1>b, <3>3, <3>4 DEF Advances
  <2> QED
    BY <2>0, <2>1, <2>2, <2>3, <2>4, <2>5, <2>6, <2>7, <2>8 DEF Shape
<1> QED
  BY <1>1, <1>2

(* A request is resent only when no frame of its reply was accepted, at    *)
(* every depth of re-entrance, as long as frames_seen_ cannot wrap to 0.   *)
THEOREM ResendsOnlySilence ==
    ASSUME MaxReplyFrames < 256
    PROVE  Spec => ResendOnlyWhenSilent
<1>1. Good(bms, stack, fate) /\ Booked /\ [Next]_vars => [ResendOnlyWhenSilentStep]_vars
  BY NextResends
<1> QED
  BY <1>1, BookedInvariant, PTL DEF Spec, ResendOnlyWhenSilent

-----------------------------------------------------------------------------
(* The verdicts, without re-entrance: no feed() or tick() of a handler     *)
(* changes the traffic that the event it is handling told of.              *)

(* The property, event by event.                                           *)
LEMMA VerdictByEvent ==
    VerdictMatchesTraffic <=> \A k \in DOMAIN stack : Truthful(bms, stack[k].event)
BY Zenon DEF VerdictMatchesTraffic, Truthful

(* Truthfulness depends on two members only.                               *)
LEMMA TruthfulKept ==
    ASSUME NEW b, NEW c, NEW e, Truthful(b, e), c.heard = b.heard, c.sent = b.sent
    PROVE  Truthful(c, e)
BY Zenon DEF Truthful

(* Every step keeps them true.                                             *)
LEMMA NextVerdict ==
    ASSUME MaxDepth = 1, TxHandlers \subseteq {TRUE}, MaxReplyFrames < 256,
           Good(bms, stack, fate), Flat, Booked, VerdictMatchesTraffic, [Next]_vars
    PROVE  VerdictMatchesTraffic'
<1>0. stack \in Seq(Activation) /\ stack' \in Seq(Activation) /\ bms \in Object
  BY NextGood DEF Good, Sound
<1>1. \A k \in DOMAIN stack : Truthful(bms, stack[k].event)
  BY VerdictByEvent
<1>2. SUFFICES ASSUME NEW k \in DOMAIN stack'
               PROVE  Truthful(bms', stack'[k].event)
  BY Zenon DEF VerdictMatchesTraffic, Truthful
<1>3. stack' # <<>> /\ k \in 1..Len(stack')
  BY <1>0, <1>2
<1>4. Len(stack') = 1 /\ k = 1
  <2>1. Len(stack') = 1
    BY <1>3, NextFlat
  <2> QED
    BY <1>3, <2>1
<1>5. MayDrive => stack = <<>>
  BY <1>0 DEF MayDrive
<1>6. CASE UNCHANGED vars
  BY <1>1, <1>2, <1>6, Zenon DEF vars
<1>7. CASE Next
  <2>0. \/ Speaks
        \/ MayDrive /\ UNCHANGED stack
        \/ Unheard
        \/ SessionHandlerRuns
        \/ \E then \in Continuations : EmitReturns(then)
    BY <1>7, NextTraffic
  <2>1. CASE Speaks
    <3>1. PICK b, e : \E then \in Continuations :
              Traffic(b, Len(fate)) /\ Tells(b, e) /\ emit(b, e, then)
      BY <2>1, Zenon DEF Speaks
    <3>2. PICK then \in Continuations :
              Traffic(b, Len(fate)) /\ Tells(b, e) /\ emit(b, e, then)
      BY <3>1, Zenon
    <3>3. bms'.heard = b.heard /\ bms'.sent = b.sent
      BY <3>2, SpeaksTraffic, Zenon
    <3>4. Truthful(b, e)
      BY <3>2, Zenon DEF Tells
    <3> DEFINE act == [event |-> e, owner |-> InFlight(b), run |-> FirstHandler(b),
                       then |-> then, nested |-> b.dispatching]
    <3>5. stack = <<>> /\ stack' = Append(stack, act)
      BY <1>5, <2>1, <3>2, Zenon DEF Speaks, emit
    <3>6. act.event = e
      OBVIOUS
    <3> HIDE DEF act
    <3>7. stack'[1] = act
      BY <3>5
    <3> QED
      BY <1>4, <3>3, <3>4, <3>6, <3>7, TruthfulKept, Zenon
  <2>2. CASE MayDrive /\ UNCHANGED stack
    BY <1>3, <1>5, <2>2
  <2>3. CASE Unheard
    <3>1. stack' = stack /\ stack # <<>>
      BY <1>3, <2>3 DEF Unheard
    <3>2. bms'.heard = bms.heard /\ bms'.sent = bms.sent
      BY <2>3, <3>1, Zenon DEF Unheard, Flat
    <3>3. Truthful(bms, stack'[k].event)
      BY <1>1, <1>2, <3>1, Zenon
    <3> QED
      BY <3>2, <3>3, TruthfulKept, Zenon
  <2>4. CASE SessionHandlerRuns
    <3>1. bms' = bms /\ stack # <<>>
      BY <2>4 DEF SessionHandlerRuns
    <3>2. Len(stack) = 1 /\ stack' = [stack EXCEPT ![1].run = "session"]
      BY <2>4, <3>1, NextFlat DEF SessionHandlerRuns
    <3>3. stack[1] \in Activation /\ 1 \in DOMAIN stack
      BY <1>0, <3>2
    <3>4. stack'[1] = [stack[1] EXCEPT !.run = "session"]
      BY <1>0, <3>2, <3>3
    <3>5. stack'[1].event = stack[1].event
      BY <3>3, <3>4 DEF Activation
    <3> QED
      BY <1>1, <1>4, <3>1, <3>3, <3>5, Zenon
  <2>5. CASE \E then \in Continuations : EmitReturns(then)
    <3>1. PICK then \in Continuations : EmitReturns(then)
      BY <2>5
    <3>2. Len(stack') = Len(stack) - 1 /\ Len(stack) > 0
      BY <3>1, EmitReturnsFacts
    <3>3. Len(stack) <= 1 /\ Len(stack) \in Nat
      BY <1>0 DEF Flat
    <3> QED
      BY <1>4, <3>2, <3>3
  <2> QED
    BY <2>0, <2>1, <2>2, <2>3, <2>4, <2>5
<1> QED
  BY <1>6, <1>7

(* What a final event claims of the traffic is what was on the wire, if    *)
(* handlers do not feed or tick, the TX handler stays and no reply is long *)
(* enough to wrap frames_seen_.                                            *)
THEOREM VerdictsAreTrue ==
    ASSUME MaxDepth = 1, TxHandlers \subseteq {TRUE}, MaxReplyFrames < 256
    PROVE  Spec => []VerdictMatchesTraffic
<1>1. Init => Flat /\ VerdictMatchesTraffic
  BY DEF Init, Flat, VerdictMatchesTraffic
<1>2. ASSUME Good(bms, stack, fate), Booked, Flat, VerdictMatchesTraffic, [Next]_vars
      PROVE  Flat' /\ VerdictMatchesTraffic'
  BY <1>2, NextFlat, NextVerdict
<1> QED
  BY <1>1, <1>2, BookedInvariant, PTL DEF Spec

-----------------------------------------------------------------------------
(* The deadline, without re-entrance and with timeouts and ticks of at     *)
(* most half the clock's range, where int32(now - deadline) is sound.      *)

Half == ClockMod \div 2

Paced == Timeouts \subseteq 1..Half /\ TickSteps \subseteq 0..Half

(* Half the clock's range.                                                 *)
LEMMA HalfClock == Half \in Nat /\ Half > 0 /\ ClockMod = 2 * Half /\ ClockMod \in Nat
<1>1. ASSUME NEW m \in Nat, m > 1, m % 2 = 0
      PROVE  m \div 2 \in Nat /\ m \div 2 > 0 /\ m = 2 * (m \div 2)
  BY <1>1
<1> QED
  BY <1>1, ClockAssumption DEF Half

(* A clock reading within one turn of the range.                           *)
LEMMA Turn ==
    ASSUME NEW m \in Nat, m > 0, NEW x \in (-m)..(2 * m - 1)
    PROVE  x % m = IF x < 0 THEN x + m ELSE IF x < m THEN x ELSE x - m
<1>1. CASE x < 0
  BY <1>1
<1>2. CASE x >= 0 /\ x < m
  BY <1>2
<1>3. CASE x >= m
  BY <1>3
<1> QED
  BY <1>1, <1>2, <1>3

(* A deadline that has just been armed is its timeout away.                *)
LEMMA ArmedDistance ==
    ASSUME NEW now \in Timeout, NEW ms \in 1..Half
    PROVE  (((now + ms) % ClockMod) - now) % ClockMod = ms
<1> DEFINE m == ClockMod
           due == (now + ms) % m
<1>1. m \in Nat /\ m > 0 /\ now \in 0..(m - 1) /\ ms \in 1..(m - 1)
  BY HalfClock DEF Timeout
<1>2. due = IF now + ms < m THEN now + ms ELSE now + ms - m
  <2>1. now + ms \in (-m)..(2 * m - 1) /\ ~(now + ms < 0)
    BY <1>1
  <2> QED
    BY <1>1, <2>1, Turn
<1> HIDE DEF m, due
<1>3. due - now \in (-m)..(2 * m - 1) /\ (due - now = ms \/ due - now = ms - m)
  BY <1>1, <1>2
<1>4. (due - now) % m = IF due - now < 0 THEN due - now + m
                        ELSE IF due - now < m THEN due - now ELSE due - now - m
  BY <1>1, <1>3, Turn
<1>5. (due - now) % m = ms
  BY <1>1, <1>3, <1>4
<1> QED
  BY <1>5 DEF due, m

(* A clock that has not reached the deadline has come nearer to it.        *)
LEMMA ClockNears ==
    ASSUME NEW now \in Timeout, NEW due \in Timeout, NEW d \in 0..Half, NEW ms \in 1..Half,
           (due - now) % ClockMod \in 1..ms, ~expired((now + d) % ClockMod, due)
    PROVE  (due - ((now + d) % ClockMod)) % ClockMod \in 1..ms
<1> DEFINE m == ClockMod
           h == Half
           later == (now + d) % m
           dist == (due - now) % m
           late == (later - due) % m
           rest == (due - later) % m
<1>1. /\ m \in Nat /\ h \in Nat /\ h > 0 /\ m = 2 * h /\ m > 0 /\ now \in 0..(m - 1)
      /\ due \in 0..(m - 1) /\ d \in 0..h /\ ms \in 1..h
  BY HalfClock DEF Timeout
<1>2. dist \in 1..ms /\ ~(late < h)
  BY Zenon DEF expired, Half
<1>3. later = IF now + d < m THEN now + d ELSE now + d - m
  <2>1. now + d \in (-m)..(2 * m - 1) /\ ~(now + d < 0)
    BY <1>1
  <2> QED
    BY <1>1, <2>1, Turn
<1>4. dist = IF due - now < 0 THEN due - now + m ELSE due - now
  <2>1. due - now \in (-m)..(2 * m - 1) /\ due - now < m
    BY <1>1
  <2> QED
    BY <1>1, <2>1, Turn
<1>5. later \in 0..(m - 1)
  <2> HIDE DEF m, h, later
  <2> QED
    BY <1>1, <1>3
<1>6. late = IF later - due < 0 THEN later - due + m ELSE later - due
  <2> HIDE DEF later
  <2>1. later - due \in (-m)..(2 * m - 1) /\ later - due < m
    BY <1>1, <1>5
  <2> QED
    BY <1>1, <2>1, Turn
<1>7. rest = IF due - later < 0 THEN due - later + m ELSE due - later
  <2> HIDE DEF later
  <2>1. due - later \in (-m)..(2 * m - 1) /\ due - later < m
    BY <1>1, <1>5
  <2> QED
    BY <1>1, <2>1, Turn
<1> HIDE DEF m, h, later, dist, late, rest
<1>8. rest \in 1..ms
  BY <1>1, <1>2, <1>3, <1>4, <1>5, <1>6, <1>7
<1> QED
  BY <1>8 DEF rest, later, m

(* The session's deadline lies ahead, at most a timeout away.              *)
Ahead(b) == \E ms \in Timeouts : (b.deadline_ms - b.now_ms) % ClockMod \in 1..ms

(* The timeouts are ones the application set.                              *)
Bounded(b) == b.response_timeout_ms \in Timeouts /\ b.interframe_timeout_ms \in Timeouts

SameTimeouts(b, c) ==
    /\ c.response_timeout_ms = b.response_timeout_ms
    /\ c.interframe_timeout_ms = b.interframe_timeout_ms

SameClock(b, c) ==
    /\ SameTimeouts(b, c) /\ c.state = b.state
    /\ c.now_ms = b.now_ms /\ c.deadline_ms = b.deadline_ms

(* The deadline has been armed since the clock last moved.                 *)
Armed(b) ==
    \E ms \in {b.response_timeout_ms, b.interframe_timeout_ms} :
        b.deadline_ms = (b.now_ms + ms) % ClockMod

(* c is what a method made of b: an armed session, or one that waits for   *)
(* nothing.                                                                *)
Rearms(b, c) == SameTimeouts(b, c) /\ (c.state = "AWAITING" => Armed(c))

(* Arming it puts the deadline ahead.                                      *)
LEMMA ArmedAhead ==
    ASSUME Paced, NEW b \in Object, Bounded(b), Armed(b)
    PROVE  Ahead(b)
<1>1. PICK ms \in {b.response_timeout_ms, b.interframe_timeout_ms} :
          b.deadline_ms = (b.now_ms + ms) % ClockMod
  BY DEF Armed
<1>2. ms \in Timeouts /\ ms \in 1..Half /\ b.now_ms \in Timeout
  BY <1>1 DEF Bounded, Paced, Object
<1>3. (((b.now_ms + ms) % ClockMod) - b.now_ms) % ClockMod = ms
  BY <1>2, ArmedDistance
<1>4. (b.deadline_ms - b.now_ms) % ClockMod = ms
  BY <1>1, <1>3, Zenon
<1>5. ms \in 1..ms
  BY <1>2, HalfClock
<1> QED
  BY <1>2, <1>4, <1>5, Zenon DEF Ahead

(* An idle session that pump() starts is armed.                            *)
LEMMA PumpArms ==
    ASSUME NEW b \in Object, b.state = "IDLE"
    PROVE  Rearms(b, pump(b))
<1>1. CASE b.queue_count = 0
  BY <1>1 DEF pump, Rearms, SameTimeouts
<1>2. CASE b.queue_count # 0
  <2>1. b.queue_count > 0
    BY <1>2, CapacityAssumption DEF Object
  <2>2. /\ pump(b).now_ms = b.now_ms
        /\ pump(b).deadline_ms = (b.now_ms + b.response_timeout_ms) % ClockMod
        /\ pump(b).response_timeout_ms = b.response_timeout_ms
        /\ pump(b).interframe_timeout_ms = b.interframe_timeout_ms
    BY <2>1, PumpStarts
  <2> QED
    BY <2>2 DEF Rearms, SameTimeouts, Armed
<1> QED
  BY <1>1, <1>2

(* complete() leaves a session that is armed or idle.                      *)
LEMMA CompleteArms ==
    ASSUME NEW b, NEW n \in Nat, Sound(b, n)
    PROVE  Rearms(b, complete(b))
<1> DEFINE idle == [(IF b.state = "AWAITING" THEN pop(b) ELSE b) EXCEPT !.state = "IDLE"]
<1>1. complete(b) = pump(idle)
  BY DEF complete
<1>2. idle \in Object
  BY IdleSound DEF Sound
<1>3. idle.state = "IDLE" /\ SameTimeouts(b, idle)
  BY DEF pop, Sound, Object, SameTimeouts
<1> HIDE DEF idle
<1>4. Rearms(idle, pump(idle))
  BY <1>2, <1>3, PumpArms
<1> QED
  BY <1>1, <1>3, <1>4 DEF Rearms, SameTimeouts

(* Waiting for the next frame arms the session with the interframe timeout. *)
LEMMA AwaitArms ==
    ASSUME NEW b \in Object
    PROVE  Rearms(b, await_next_frame(b))
<1> DEFINE deadline == (b.now_ms + b.interframe_timeout_ms) % ClockMod
<1>1. await_next_frame(b) = [b EXCEPT !.deadline_ms = deadline]
  BY DEF await_next_frame
<1>2. /\ await_next_frame(b).deadline_ms = deadline
      /\ await_next_frame(b).now_ms = b.now_ms
      /\ SameTimeouts(b, await_next_frame(b))
  <2> HIDE DEF deadline
  <2> QED
    BY <1>1 DEF Object, SameTimeouts
<1> QED
  BY <1>2, Zenon DEF Rearms, SameTimeouts, Armed

(* So does going on after a record.                                        *)
LEMMA AfterRecordArms ==
    ASSUME NEW b \in Object
    PROVE  Rearms(b, after_record(b))
<1> DEFINE rewound == [b EXCEPT !.record_len = 0]
<1>1. after_record(b) =
          IF b.state # "AWAITING" THEN pump(rewound) ELSE await_next_frame(rewound)
  BY DEF after_record
<1>2. rewound \in Object /\ rewound.state = b.state /\ SameTimeouts(b, rewound)
  BY DEF Object, SameTimeouts, FAULT_BUFFER_LEN
<1> HIDE DEF rewound
<1>3. b.state # "AWAITING" => rewound.state = "IDLE"
  BY <1>2 DEF Object
<1>4. Rearms(rewound, after_record(b))
  BY <1>1, <1>2, <1>3, PumpArms, AwaitArms
<1> QED
  BY <1>2, <1>4 DEF Rearms, SameTimeouts

(* transmit() arms it with the response timeout.                           *)
LEMMA TransmitArms ==
    ASSUME NEW b \in Object
    PROVE  Rearms(b, transmit(b))
<1> DEFINE deadline == (b.now_ms + b.response_timeout_ms) % ClockMod
<1>1. transmit(b) = [b EXCEPT !.sent = Handed(b), !.deadline_ms = deadline]
  BY DEF transmit, Handed
<1>2. /\ transmit(b).deadline_ms = deadline
      /\ transmit(b).now_ms = b.now_ms
      /\ SameTimeouts(b, transmit(b))
  <2> HIDE DEF deadline
  <2> QED
    BY <1>1 DEF Object, SameTimeouts
<1> QED
  BY <1>2, Zenon DEF Rearms, SameTimeouts, Armed

(* enqueue() leaves the clock alone, or starts the request.                *)
LEMMA EnqueueArms ==
    ASSUME NEW b, NEW n \in Nat, Sound(b, n), b.queue_count < QUEUE_CAPACITY,
           NEW req \in Request, req.ctx = n + 1
    PROVE  SameClock(b, enqueue(b, req)) \/ (b.dispatching = FALSE /\ Rearms(b, enqueue(b, req)))
<1> DEFINE c == Filing(b, req)
           queue == [b.queue EXCEPT ![(b.queue_head + b.queue_count) % QUEUE_CAPACITY] = req]
<1>1. enqueue(b, req) = IF b.dispatching THEN c ELSE pump(c)
  BY DEF enqueue, Filing
<1>2. c \in Object /\ b \in Object /\ b.dispatching \in BOOLEAN
  BY FilingSound DEF Sound, Object
<1>3. SameClock(b, c)
  <2>1. c = [b EXCEPT !.queue = queue, !.queue_count = b.queue_count + 1]
    BY <1>2 DEF Filing, Object
  <2> HIDE DEF queue, c
  <2> QED
    BY <1>2, <2>1 DEF Object, SameClock, SameTimeouts
<1> HIDE DEF c
<1>4. c.state # "IDLE" => pump(c) = c
  BY DEF pump
<1>5. c.state = "IDLE" => Rearms(c, pump(c))
  BY <1>2, PumpArms
<1> QED
  BY <1>1, <1>2, <1>3, <1>4, <1>5 DEF SameClock, Rearms, SameTimeouts

(* Handling a frame and moving the clock leave the timeouts alone.         *)
LEMMA TimeoutsKept ==
    ASSUME bms \in Object, NEW id, NEW data \in Data, NEW no, NEW d
    PROVE  /\ SameTimeouts(bms, note_counts(bms, id, data))
           /\ SameTimeouts(bms, FileFrame(bms, no))
           /\ SameTimeouts(bms, FileRecord(bms))
           /\ SameTimeouts(bms, At(d))
<1>1. SameTimeouts(bms, note_counts(bms, id, data))
  <2> DEFINE cells == (data[1] + data[2] + data[3]) % 256
             temps == (data[4] + data[5] + data[6]) % 256
             status == [bms EXCEPT !.cached_cell_count = data[0], !.cached_temp_count = data[1]]
             boards == [bms EXCEPT !.cached_cell_count = cells, !.cached_temp_count = temps]
  <2>1. SameTimeouts(bms, status)
    BY DEF Object, SameTimeouts
  <2>2. SameTimeouts(bms, boards)
    <3> HIDE DEF cells, temps
    <3> QED
      BY DEF Object, SameTimeouts
  <2>3. SameTimeouts(bms, bms)
    BY DEF SameTimeouts
  <2>4. note_counts(bms, id, data) \in {status, boards, bms}
    <3>1. CASE id = STATUS_INFO
      BY <3>1 DEF note_counts, STATUS_INFO, BMU_CELL_TEMP_COUNT
    <3>2. CASE id = BMU_CELL_TEMP_COUNT
      BY <3>2 DEF note_counts, STATUS_INFO, BMU_CELL_TEMP_COUNT
    <3>3. CASE id # STATUS_INFO /\ id # BMU_CELL_TEMP_COUNT
      BY <3>3 DEF note_counts
    <3> QED
      BY <3>1, <3>2, <3>3
  <2> HIDE DEF status, boards
  <2> QED
    BY <2>1, <2>2, <2>3, <2>4
<1>2. SameTimeouts(bms, FileFrame(bms, no))
  <2> DEFINE mask == bms.seen_mask \cup {no}
             count == Cardinality(mask)
  <2>1. FileFrame(bms, no) =
          [bms EXCEPT !.seen_mask = mask, !.frames_seen = count, !.heard = bms.heard + 1]
    BY DEF FileFrame, Object
  <2> HIDE DEF mask, count
  <2> QED
    BY <2>1 DEF Object, SameTimeouts
<1>3. SameTimeouts(bms, FileRecord(bms))
  <2> DEFINE len == IF bms.record_len + 7 > FAULT_BUFFER_LEN THEN FAULT_BUFFER_LEN
                    ELSE bms.record_len + 7
             frames == (bms.frames_seen + 1) % 256
  <2>1. FileRecord(bms) =
          [bms EXCEPT !.record_len = len, !.frames_seen = frames, !.heard = bms.heard + 1]
    BY DEF FileRecord, Object
  <2> HIDE DEF len, frames
  <2> QED
    BY <2>1 DEF Object, SameTimeouts
<1>4. SameTimeouts(bms, At(d))
  <2> DEFINE now == (bms.now_ms + d) % ClockMod
  <2>1. At(d) = [bms EXCEPT !.now_ms = now]
    BY DEF At
  <2> HIDE DEF now
  <2> QED
    BY <2>1 DEF Object, SameTimeouts
<1> QED
  BY <1>1, <1>2, <1>3, <1>4

(* Whoever waits, but for the final event of what it waits for or for a    *)
(* record to be handled, waits for a deadline ahead.                       *)
Timely ==
    /\ Bounded(bms)
    /\ bms.state = "AWAITING" /\ (stack = <<>> \/ stack[1].then = "return") => Ahead(bms)

(* The three ways in which a step leaves the deadline.                     *)
ClockStays ==
    /\ SameClock(bms, bms')
    /\ (stack' = <<>> \/ stack'[1].then = "return") =>
           (stack = <<>> \/ stack[1].then = "return")

ClockRearmed == Rearms(bms, bms')

ClockSpent == SameTimeouts(bms, bms') /\ stack' # <<>> /\ stack'[1].then # "return"

LEMMA ClockSteps ==
    ASSUME Paced, Good(bms', stack', fate'), Timely, ClockStays \/ ClockRearmed \/ ClockSpent
    PROVE  Timely'
<1>0. bms' \in Object
  BY DEF Good, Sound
<1>1. Bounded(bms')
  BY Zenon DEF Timely, ClockStays, ClockRearmed, ClockSpent, SameClock, Rearms, SameTimeouts,
               Bounded
<1>2. CASE ClockStays
  <2>1. ASSUME Ahead(bms)
        PROVE  Ahead(bms')
    BY <1>2, <2>1, Zenon DEF ClockStays, SameClock, Ahead
  <2> QED
    BY <1>1, <1>2, <2>1, Zenon DEF ClockStays, SameClock, Timely, Bounded, Ahead
<1>3. CASE ClockRearmed
  <2>1. bms'.state = "AWAITING" => Ahead(bms')
    BY <1>0, <1>1, <1>3, ArmedAhead DEF ClockRearmed, Rearms
  <2> QED
    BY <1>1, <2>1, Zenon DEF Timely, Bounded, Ahead
<1>4. CASE ClockSpent
  BY <1>1, <1>4, Zenon DEF Timely, ClockSpent, Bounded, Ahead
<1> QED
  BY <1>2, <1>3, <1>4

(* A session that is not in a handler emits an event.                      *)
LEMMA EmitClock ==
    ASSUME bms \in Object, stack = <<>>,
           NEW b \in Object, NEW e, NEW then, SameTimeouts(bms, b), emit(b, e, then),
           then = "return" => b = bms
    PROVE  ClockStays \/ ClockSpent
<1> DEFINE act == [event |-> e, owner |-> InFlight(b), run |-> FirstHandler(b),
                   then |-> then, nested |-> b.dispatching]
<1>1. bms' = [b EXCEPT !.dispatching = TRUE] /\ stack' = Append(stack, act)
  BY DEF emit
<1>2. SameClock(b, bms')
  BY <1>1 DEF Object, SameClock, SameTimeouts
<1>3. act.then = then
  OBVIOUS
<1> HIDE DEF act
<1>4. stack' # <<>> /\ stack'[1] = act
  BY <1>1
<1>5. CASE then = "return"
  BY <1>2, <1>5 DEF ClockStays
<1>6. CASE then # "return"
  BY <1>2, <1>3, <1>4, <1>6, Zenon DEF ClockSpent, SameClock, SameTimeouts
<1> QED
  BY <1>5, <1>6

(* Bytes below a byte.                                                     *)
LEMMA FrameIndex ==
    ASSUME NEW x \in Byte, x <= MAX_FRAME_INDEX
    PROVE  x \in 0..MAX_FRAME_INDEX
BY DEF Byte, MAX_FRAME_INDEX

LEMMA RetryByte ==
    ASSUME NEW r \in Byte, NEW limit \in Byte, r < limit
    PROVE  r + 1 \in Byte
BY DEF Byte

(* A frame leaves the clock alone, re-arms the deadline or spends it.      *)
LEMMA FeedClock ==
    ASSUME Good(bms, stack, fate), stack = <<>>, Feed
    PROVE  ClockStays \/ ClockRearmed \/ ClockSpent
<1>0. bms \in Object /\ SameTimeouts(bms, bms)
  BY DEF Good, Sound, SameTimeouts
<1>1. ASSUME NEW b \in Object, NEW e, NEW then, SameTimeouts(bms, b), emit(b, e, then),
             then = "return" => b = bms
      PROVE  ClockStays \/ ClockSpent
  BY <1>0, <1>1, EmitClock, Zenon
<1>2. ASSUME NEW error \in FrameErrors, OnFrameError(error)
      PROVE  ClockStays \/ ClockSpent
  BY <1>0, <1>1, <1>2, Zenon DEF OnFrameError
<1>3. ASSUME NEW f \in Frames,
             \/ RejectIdle(f) \/ RejectSource(f) \/ RejectId(f)
             \/ HandleSingle(f)
             \/ RejectFrameNo(f) \/ HandleMultiLast(f) \/ HandleMultiMore(f)
             \/ HandleStreamEnd(f) \/ HandleStreamMore(f) \/ HandleStreamRecord(f)
      PROVE  ClockStays \/ ClockRearmed \/ ClockSpent
  <2>1. f.data \in Data /\ f.data[0] \in Byte
    BY InputAssumption DEF Data
  <2>2. CASE RejectIdle(f) \/ RejectSource(f) \/ RejectId(f) \/ RejectFrameNo(f)
    BY <1>0, <1>1, <2>2, Zenon DEF RejectIdle, RejectSource, RejectId, RejectFrameNo
  <2>3. CASE HandleSingle(f)
    <3> DEFINE b == note_counts(bms, f.id, f.data)
    <3>1. b \in Object /\ SameTimeouts(bms, b)
      BY <1>0, <2>1, NoteCountsFacts, TimeoutsKept DEF Untouched
    <3>2. emit(b, SingleEvent(f), "complete")
      BY <2>3 DEF HandleSingle
    <3> QED
      BY <1>1, <3>1, <3>2, Zenon
  <2>4. CASE HandleMultiLast(f) \/ HandleMultiMore(f)
    <3> DEFINE b == FileFrame(bms, f.data[0])
    <3>1. f.data[0] \in 0..MAX_FRAME_INDEX
      <4>1. f.data[0] <= MAX_FRAME_INDEX
        BY <2>4, Zenon DEF HandleMultiLast, HandleMultiMore, AcceptFrame
      <4> QED
        BY <2>1, <4>1, FrameIndex, Zenon
    <3>2. b \in Object /\ SameTimeouts(bms, b)
      BY <1>0, <2>1, <3>1, FileFrameFacts, TimeoutsKept DEF Untouched
    <3>3. CASE HandleMultiLast(f)
      <4>1. PICK e : emit(b, e, "complete")
        BY <3>3, Zenon DEF HandleMultiLast, finish_multi
      <4> QED
        BY <1>1, <3>2, <4>1, Zenon
    <3>4. CASE HandleMultiMore(f)
      <4>1. bms' = await_next_frame(b)
        BY <3>4 DEF HandleMultiMore
      <4> HIDE DEF b
      <4>2. Rearms(b, bms')
        BY <3>2, <4>1, AwaitArms
      <4> QED
        BY <3>2, <4>2 DEF ClockRearmed, Rearms, SameTimeouts
    <3> QED
      BY <2>4, <3>3, <3>4
  <2>5. CASE HandleStreamEnd(f)
    <3>1. bms' = complete(bms) /\ Sound(bms, Len(fate)) /\ Len(fate) \in Nat
      BY <2>5 DEF HandleStreamEnd, Good
    <3> QED
      BY <3>1, CompleteArms DEF ClockRearmed
  <2>6. CASE HandleStreamMore(f) \/ HandleStreamRecord(f)
    <3> DEFINE b == FileRecord(bms)
    <3>1. b \in Object /\ SameTimeouts(bms, b)
      BY <1>0, <2>1, FileRecordFacts, TimeoutsKept DEF Untouched
    <3>2. CASE HandleStreamMore(f)
      <4>1. bms' = await_next_frame(b)
        BY <3>2 DEF HandleStreamMore
      <4> HIDE DEF b
      <4>2. Rearms(b, bms')
        BY <3>1, <4>1, AwaitArms
      <4> QED
        BY <3>1, <4>2 DEF ClockRearmed, Rearms, SameTimeouts
    <3>3. CASE HandleStreamRecord(f)
      <4>1. PICK e : emit(b, e, "stream")
        BY <3>3, Zenon DEF HandleStreamRecord
      <4>2. "stream" # "return"
        OBVIOUS
      <4> QED
        BY <1>1, <3>1, <4>1, <4>2, Zenon
    <3> QED
      BY <2>6, <3>2, <3>3
  <2> QED
    BY <1>3, <2>2, <2>3, <2>4, <2>5, <2>6
<1> QED
  BY <1>2, <1>3 DEF Feed, OnFrame

(* tick() moves the clock towards the deadline, or acts on it.             *)
LEMMA TickClock ==
    ASSUME Paced, Good(bms, stack, fate), stack = <<>>, Timely, NEW d \in TickSteps, Tick(d)
    PROVE  ClockRearmed \/ ClockSpent \/ Timely'
<1>0. /\ bms \in Object /\ d \in Timeout /\ d \in 0..Half
      /\ bms.now_ms \in Timeout /\ bms.deadline_ms \in Timeout
  BY TimingAssumption DEF Good, Sound, Object, Paced
<1>1. /\ SameTalk(bms, At(d)) /\ At(d) \in Object /\ At(d).deadline_ms = bms.deadline_ms
      /\ At(d).state = bms.state
  BY <1>0, AtTalk DEF SameTalk
<1>2. SameTimeouts(bms, At(d)) /\ At(d).now_ms = (bms.now_ms + d) % ClockMod
  <2> DEFINE now == (bms.now_ms + d) % ClockMod
  <2>1. At(d) = [bms EXCEPT !.now_ms = now]
    BY DEF At
  <2>2. At(d).now_ms = now /\ SameTimeouts(bms, At(d))
    <3> HIDE DEF now
    <3> QED
      BY <1>0, <2>1 DEF Object, SameTimeouts
  <2> QED
    BY <2>2
<1>3. ASSUME NEW e, emit(At(d), e, "complete")
      PROVE  ClockSpent
  <2>1. ClockStays \/ ClockSpent
    BY <1>0, <1>1, <1>2, <1>3, EmitClock, Zenon
  <2>2. stack' # <<>> /\ stack'[1].then = "complete"
    BY <1>3 DEF emit
  <2>3. SameTimeouts(bms, bms')
    BY <2>1, Zenon DEF ClockStays, ClockSpent, SameClock
  <2> QED
    BY <2>2, <2>3 DEF ClockSpent
<1>4. CASE TickQuiet(d)
  <2>1. /\ bms' = At(d) /\ stack' = stack
        /\ bms.state = "AWAITING" => ~expired(At(d).now_ms, bms.deadline_ms)
    BY <1>4 DEF TickQuiet
  <2>2. Bounded(bms')
    BY <1>2, <2>1, Zenon DEF Timely, Bounded, SameTimeouts
  <2>3. ASSUME bms.state = "AWAITING"
        PROVE  Ahead(bms')
    <3>1. PICK ms \in Timeouts : (bms.deadline_ms - bms.now_ms) % ClockMod \in 1..ms
      BY <2>3, Zenon DEF Timely, Ahead
    <3>2. ms \in 1..Half
      BY <3>1 DEF Paced
    <3>3. ~expired((bms.now_ms + d) % ClockMod, bms.deadline_ms)
      BY <1>2, <2>1, <2>3, Zenon
    <3>4. (bms.deadline_ms - ((bms.now_ms + d) % ClockMod)) % ClockMod \in 1..ms
      BY <1>0, <3>1, <3>2, <3>3, ClockNears, Zenon
    <3>5. bms'.deadline_ms = bms.deadline_ms /\ bms'.now_ms = (bms.now_ms + d) % ClockMod
      BY <1>1, <1>2, <2>1, Zenon
    <3>6. (bms'.deadline_ms - bms'.now_ms) % ClockMod \in 1..ms
      BY <3>4, <3>5, Zenon
    <3> QED
      BY <3>1, <3>6, Zenon DEF Ahead
  <2>4. bms'.state = bms.state
    BY <1>1, <2>1, Zenon
  <2> QED
    BY <2>2, <2>3, <2>4, Zenon DEF Timely, Bounded, Ahead
<1>5. CASE TickFinishes(d)
  <2>1. PICK e : emit(At(d), e, "complete")
    BY <1>5, Zenon DEF TickFinishes, finish_multi
  <2> QED
    BY <1>3, <2>1, Zenon
<1>6. CASE TickTruncates(d)
  BY <1>3, <1>6, Zenon DEF TickTruncates
<1>7. CASE TickRetries(d)
  <2> DEFINE again == [At(d) EXCEPT !.retries = At(d).retries + 1]
  <2>1. bms' = transmit(again) /\ bms.retries < bms.max_retries
    BY <1>7 DEF TickRetries
  <2>2. bms.retries \in Byte /\ bms.max_retries \in Byte /\ At(d).retries = bms.retries
    BY <1>0, <1>1 DEF Object, SameTalk
  <2>3. At(d).retries + 1 \in Byte
    BY <2>1, <2>2, RetryByte, Zenon
  <2>4. again \in Object /\ SameTimeouts(At(d), again)
    BY <1>1, <2>3 DEF Object, SameTimeouts
  <2> HIDE DEF again
  <2>5. Rearms(again, bms')
    BY <2>1, <2>4, TransmitArms
  <2> QED
    BY <1>2, <2>4, <2>5 DEF ClockRearmed, Rearms, SameTimeouts
<1>8. CASE TickTimesOut(d)
  BY <1>3, <1>8, Zenon DEF TickTimesOut
<1> QED
  BY <1>4, <1>5, <1>6, <1>7, <1>8 DEF Tick

(* A poll queues, and arms the deadline when nothing is being dispatched.  *)
LEMMA PollClock ==
    ASSUME Good(bms, stack, fate), NEW p \in Polls, Poll(p)
    PROVE  ClockStays \/ ClockRearmed
<1> DEFINE n == Len(fate)
           req == [id |-> p.id, on |-> p.on, hint |-> p.hint, fn |-> p.fn, ctx |-> Len(fate) + 1]
<1>1. n \in Nat /\ Sound(bms, n)
  BY DEF Good
<1>2. req \in Request /\ req.ctx = n + 1
  BY <1>1, InputAssumption DEF Request, PollArgs
<1>3. bms.queue_count < QUEUE_CAPACITY
  <2>1. queue_status(bms, p.id) = "QUEUED" /\ bms \in Object
    BY DEF Poll, Good, Sound
  <2>2. ~(bms.queue_count >= QUEUE_CAPACITY)
    BY <2>1 DEF queue_status
  <2> QED
    BY <2>1, <2>2, CapacityAssumption DEF Object
<1>4. bms' = enqueue(bms, req) /\ stack' = stack
  BY DEF Poll
<1> HIDE DEF n, req
<1>5. SameClock(bms, bms') \/ Rearms(bms, bms')
  BY <1>1, <1>2, <1>3, <1>4, EnqueueArms
<1> QED
  BY <1>4, <1>5, Zenon DEF ClockStays, ClockRearmed

(* The setters and reset() leave what they find, or nothing to wait for.   *)
LEMMA ConfigureClock ==
    ASSUME Good(bms, stack, fate), Timely,
           \/ Reset
           \/ \E fn \in TxHandlers : SetTxHandler(fn)
           \/ \E fn \in EventHandlers : SetEventHandler(fn)
           \/ \E ms \in ResponseTimeouts : SetResponseTimeout(ms)
           \/ \E ms \in InterframeTimeouts : SetInterframeTimeout(ms)
           \/ \E n \in RetryLimits : SetMaxRetries(n)
    PROVE  ClockStays \/ ClockRearmed \/ Timely'
<1>0. bms \in Object
  BY DEF Good, Sound
<1>1. CASE Reset
  <2>1. bms' = reset(bms)
    BY <1>1 DEF Reset
  <2>2. bms'.state = "IDLE" /\ SameTimeouts(bms, bms')
    BY <1>0, <2>1 DEF reset, Object, SameTimeouts
  <2> QED
    BY <2>2 DEF ClockRearmed, Rearms
<1>2. ASSUME NEW c, SameClock(bms, c), Configure(c)
      PROVE  ClockStays
  BY <1>2, Zenon DEF Configure, ClockStays
<1>3. CASE \E fn \in TxHandlers : SetTxHandler(fn)
  <2>1. PICK fn : Configure([bms EXCEPT !.tx_fn = fn])
    BY <1>3 DEF SetTxHandler
  <2>2. SameClock(bms, [bms EXCEPT !.tx_fn = fn])
    BY <1>0 DEF Object, SameClock, SameTimeouts
  <2> QED
    BY <1>2, <2>1, <2>2, Zenon
<1>4. CASE \E fn \in EventHandlers : SetEventHandler(fn)
  <2>1. PICK fn : Configure([bms EXCEPT !.event_fn = fn])
    BY <1>4 DEF SetEventHandler
  <2>2. SameClock(bms, [bms EXCEPT !.event_fn = fn])
    BY <1>0 DEF Object, SameClock, SameTimeouts
  <2> QED
    BY <1>2, <2>1, <2>2, Zenon
<1>5. CASE \E n \in RetryLimits : SetMaxRetries(n)
  <2>1. PICK n : Configure([bms EXCEPT !.max_retries = n])
    BY <1>5 DEF SetMaxRetries
  <2>2. SameClock(bms, [bms EXCEPT !.max_retries = n])
    BY <1>0 DEF Object, SameClock, SameTimeouts
  <2> QED
    BY <1>2, <2>1, <2>2, Zenon
<1>6. ASSUME Bounded(bms'), bms'.state = bms.state, bms'.now_ms = bms.now_ms,
             bms'.deadline_ms = bms.deadline_ms, stack' = stack
      PROVE  Timely'
  BY <1>6, Zenon DEF Timely, Bounded, Ahead
<1>7. CASE \E ms \in ResponseTimeouts : SetResponseTimeout(ms)
  <2>1. PICK ms \in ResponseTimeouts :
            bms' = [bms EXCEPT !.response_timeout_ms = ms] /\ stack' = stack
    BY <1>7 DEF SetResponseTimeout, Configure
  <2>2. /\ bms'.state = bms.state /\ bms'.now_ms = bms.now_ms
        /\ bms'.deadline_ms = bms.deadline_ms /\ bms'.response_timeout_ms = ms
        /\ bms'.interframe_timeout_ms = bms.interframe_timeout_ms
    BY <1>0, <2>1 DEF Object
  <2>3. Bounded(bms')
    BY <2>1, <2>2, Zenon DEF Timely, Bounded, Timeouts
  <2> QED
    BY <1>6, <2>1, <2>2, <2>3, Zenon
<1>8. CASE \E ms \in InterframeTimeouts : SetInterframeTimeout(ms)
  <2>1. PICK ms \in InterframeTimeouts :
            bms' = [bms EXCEPT !.interframe_timeout_ms = ms] /\ stack' = stack
    BY <1>8 DEF SetInterframeTimeout, Configure
  <2>2. /\ bms'.state = bms.state /\ bms'.now_ms = bms.now_ms
        /\ bms'.deadline_ms = bms.deadline_ms /\ bms'.interframe_timeout_ms = ms
        /\ bms'.response_timeout_ms = bms.response_timeout_ms
    BY <1>0, <2>1 DEF Object
  <2>3. Bounded(bms')
    BY <2>1, <2>2, Zenon DEF Timely, Bounded, Timeouts
  <2> QED
    BY <1>6, <2>1, <2>2, <2>3, Zenon
<1> QED
  BY <1>1, <1>3, <1>4, <1>5, <1>7, <1>8, Zenon

(* A handler that returns leaves the clock to its caller.                  *)
LEMMA ReturnClock ==
    ASSUME Good(bms, stack, fate), stack # <<>>, Len(stack) = 1, Return
    PROVE  ClockStays \/ ClockRearmed
<1>0. bms \in Object /\ stack \in Seq(Activation) /\ Len(fate) \in Nat /\ Sound(bms, Len(fate))
  BY DEF Good, Sound
<1>1. CASE SessionHandlerRuns
  <2>1. bms' = bms /\ stack' = [stack EXCEPT ![1].run = "session"]
    BY <1>1 DEF SessionHandlerRuns
  <2>2. stack[1] \in Activation /\ 1 \in DOMAIN stack
    BY <1>0
  <2>3. stack'[1] = [stack[1] EXCEPT !.run = "session"] /\ stack' # <<>>
    BY <1>0, <2>1, <2>2
  <2>4. stack'[1].then = stack[1].then
    BY <2>2, <2>3 DEF Activation
  <2>5. SameClock(bms, bms')
    BY <2>1 DEF SameClock, SameTimeouts
  <2> QED
    BY <2>3, <2>4, <2>5, Zenon DEF ClockStays
<1>2. CASE \E then \in Continuations : EmitReturns(then)
  <2>1. PICK then \in Continuations : EmitReturns(then)
    BY <1>2
  <2> DEFINE ended == EndDispatch(bms, Top.nested)
             off == [bms EXCEPT !.dispatching = FALSE]
  <2>2. bms' = Resume(ended, then) /\ stack[1].then = then
    BY <2>1 DEF EmitReturns, Top
  <2>3. off \in Object /\ Sound(off, Len(fate)) /\ SameClock(bms, off)
    <3>1. off \in Object /\ SameClock(bms, off) /\ SameQueue(bms, off)
      BY <1>0 DEF Object, SameClock, SameTimeouts, SameQueue
    <3> HIDE DEF off
    <3>2. Sound(off, Len(fate))
      BY <1>0, <3>1 DEF Sound, Ring, Queued, SameQueue, SameClock
    <3> QED
      BY <3>1, <3>2
  <2>4. ended = bms \/ ended = off
    BY DEF EndDispatch
  <2> HIDE DEF ended, off
  <2>5. ended \in Object /\ Sound(ended, Len(fate)) /\ SameClock(bms, ended)
    BY <1>0, <2>3, <2>4 DEF SameClock, SameTimeouts
  <2>6. CASE then = "return"
    <3>1. bms' = ended
      BY <2>2, <2>6 DEF Resume
    <3> QED
      BY <2>2, <2>5, <2>6, <3>1, Zenon DEF ClockStays
  <2>7. CASE then # "return"
    <3>1. bms' = complete(ended) \/ bms' = after_record(ended)
      BY <2>2, <2>7 DEF Resume, Continuations
    <3>2. Rearms(ended, bms')
      BY <1>0, <2>5, <3>1, CompleteArms, AfterRecordArms
    <3> QED
      BY <2>5, <3>2 DEF SameClock, ClockRearmed, Rearms, SameTimeouts
  <2> QED
    BY <2>6, <2>7
<1> QED
  BY <1>1, <1>2 DEF Return, Continuations

(* Every step keeps the deadline ahead.                                    *)
LEMMA NextTimely ==
    ASSUME MaxDepth = 1, Paced, Good(bms, stack, fate), Flat, Timely, [Next]_vars
    PROVE  Timely'
<1>0. Good(bms', stack', fate') /\ stack \in Seq(Activation)
  BY NextGood DEF Good
<1>1. MayDrive => stack = <<>>
  BY <1>0 DEF MayDrive
<1>2. stack # <<>> => Len(stack) = 1
  BY NextFlat
<1> SUFFICES ClockStays \/ ClockRearmed \/ ClockSpent \/ Timely'
  BY <1>0, ClockSteps
<1>3. CASE UNCHANGED vars
  BY <1>3 DEF vars, ClockStays, SameClock, SameTimeouts
<1>4. CASE Application
  <2>1. CASE \E p \in Polls : Poll(p)
    BY <2>1, PollClock
  <2> QED
    BY <1>4, <2>1, ConfigureClock, Zenon DEF Application
<1>5. CASE Feed
  <2>1. MayDrive
    BY <1>5 DEF Feed, OnFrameError, OnFrame, RejectIdle, RejectSource, RejectId, HandleSingle,
                RejectFrameNo, HandleMultiLast, HandleMultiMore, AcceptFrame, HandleStreamEnd,
                HandleStreamMore, HandleStreamRecord, AcceptRecord, Reply
  <2> QED
    BY <1>1, <1>5, <2>1, FeedClock
<1>6. CASE \E d \in TickSteps : Tick(d)
  <2>1. PICK d \in TickSteps : Tick(d)
    BY <1>6
  <2>2. MayDrive
    BY <2>1 DEF Tick, TickQuiet, TickFinishes, TickTruncates, TickRetries, TickTimesOut,
                Unanswered, Due
  <2> QED
    BY <1>1, <2>1, <2>2, TickClock
<1>7. CASE Return
  <2>1. stack # <<>>
    BY <1>7 DEF Return, SessionHandlerRuns, EmitReturns
  <2> QED
    BY <1>2, <1>7, <2>1, ReturnClock
<1> QED
  BY <1>3, <1>4, <1>5, <1>6, <1>7 DEF Next

(* Whenever control is back in the application, a session that waits has a *)
(* deadline that expired() has yet to see pass and will see within one     *)
(* timeout: across every wrap of the clock, whatever the retries, resets   *)
(* and reconfigurations, provided handlers do not re-enter and no timeout  *)
(* and no gap between ticks exceeds half the clock's range.                *)
THEOREM DeadlineNeverMissed ==
    ASSUME MaxDepth = 1, Paced
    PROVE  Spec => []DeadlineAhead
<1>1. Init => Flat /\ Timely
  <2> SUFFICES ASSUME Init
               PROVE  Flat /\ Timely
    OBVIOUS
  <2>1. /\ bms.state = "IDLE" /\ stack = <<>> /\ bms.dispatching = FALSE
        /\ bms.response_timeout_ms = DEFAULT_RESPONSE_TIMEOUT_MS
        /\ bms.interframe_timeout_ms = DEFAULT_INTERFRAME_TIMEOUT_MS
    BY DEF Init
  <2> QED
    BY <2>1 DEF Flat, Timely, Bounded, Timeouts
<1>2. ASSUME Good(bms, stack, fate), Flat, Timely, [Next]_vars
      PROVE  Flat' /\ Timely'
  BY <1>2, NextFlat, NextTimely
<1>3. Timely => DeadlineAhead
  BY Zenon DEF Timely, DeadlineAhead, Ahead
<1> QED
  BY <1>1, <1>2, <1>3, GoodInvariant, PTL DEF Spec
=============================================================================
