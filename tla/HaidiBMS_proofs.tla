--------------------------- MODULE HaidiBMS_proofs ---------------------------
(***************************************************************************)
(* Proofs about the session, for every capacity, clock, set of requests    *)
(* and set of frames.  First what each method does to the object, then one *)
(* step per action.                                                        *)
(***************************************************************************)
EXTENDS HaidiBMS, TLAPS, FiniteSetTheorems, SequenceTheorems

(* The n requests accepted so far and the ring: the ring holds the last    *)
(* queue_count_ of them.                                                   *)
Ring(b, n) ==
    \A i \in 0..(b.queue_count - 1) : Queued(b, i).ctx = n - b.queue_count + 1 + i

(* A well-formed object.  The second conjunct is what keeps complete()     *)
(* from popping an empty ring, where queue_count_ would wrap.              *)
Sound(b, n) ==
    /\ b \in Object
    /\ b.state = "AWAITING" => b.queue_count > 0
    /\ Ring(b, n)

SameQueue(b, c) ==
    c.queue = b.queue /\ c.queue_head = b.queue_head /\ c.queue_count = b.queue_count

-----------------------------------------------------------------------------
(* Arithmetic and tables.                                                  *)

(* A remainder is below its modulus: ring indices and clock values.        *)
LEMMA ModRange ==
    ASSUME NEW a \in Nat, NEW n \in Nat, n > 0
    PROVE  a % n \in 0..(n - 1)
OBVIOUS

(* A ring index is a slot, reduced by at most one turn of the ring.        *)
LEMMA SlotIndex ==
    ASSUME NEW k \in Slots, NEW i \in 0..QUEUE_CAPACITY
    PROVE  /\ (k + i) % QUEUE_CAPACITY \in Slots
           /\ (k + i) % QUEUE_CAPACITY =
                  IF k + i < QUEUE_CAPACITY THEN k + i ELSE k + i - QUEUE_CAPACITY
BY CapacityAssumption DEF Slots

(* Two offsets from the head that differ by less than the capacity are     *)
(* different slots.                                                        *)
LEMMA SlotsDiffer ==
    ASSUME NEW k \in Slots, NEW i \in Nat, NEW c \in Nat, i < c, c < QUEUE_CAPACITY,
           NEW x, x = IF k + i < QUEUE_CAPACITY THEN k + i ELSE k + i - QUEUE_CAPACITY,
           NEW y, y = IF k + c < QUEUE_CAPACITY THEN k + c ELSE k + c - QUEUE_CAPACITY
    PROVE  x # y
<1>1. CASE k + c < QUEUE_CAPACITY
  BY <1>1, CapacityAssumption DEF Slots
<1>2. CASE ~(k + c < QUEUE_CAPACITY)
  BY <1>2, CapacityAssumption DEF Slots
<1> QED
  BY <1>1, <1>2

(* The clock stays below ClockMod when a timeout is added to it.           *)
LEMMA ClockRange ==
    ASSUME NEW a \in Timeout, NEW d \in Timeout
    PROVE  (a + d) % ClockMod \in Timeout
BY ModRange, ClockAssumption DEF Timeout

(* frames_for() fits the uint8_t it returns.                               *)
LEMMA FramesForRange ==
    ASSUME NEW count \in Byte, NEW per \in 1..7, NEW max \in Byte
    PROVE  frames_for(count, per, max) \in Byte
BY DEF frames_for, Byte

(* The pagination table has flags and byte-sized counts.                   *)
LEMMA LayoutType ==
    ASSUME NEW id
    PROVE  /\ multiframe_info(id).multi \in BOOLEAN
           /\ multiframe_info(id).streaming \in BOOLEAN
           /\ multiframe_info(id).frame_count \in Byte
BY DEF multiframe_info, Layout, Byte

(* The popcount of a mask of counters up to 16 fits a uint8_t.             *)
LEMMA MaskCount ==
    ASSUME NEW m \in SUBSET (0..MAX_FRAME_INDEX)
    PROVE  Cardinality(m) \in Byte
<1>1. IsFiniteSet(0..16) /\ Cardinality(0..16) = 17
  <2>1. /\ IsFiniteSet(0..16)
        /\ Cardinality(0..16) = IF 0 > 16 THEN 0 ELSE 16 - 0 + 1
    BY 0 \in Int, 16 \in Int, FS_Interval, Zenon
  <2> QED
    BY <2>1
<1>2. m \in SUBSET (0..16)
  BY DEF MAX_FRAME_INDEX
<1>3. Cardinality(m) <= 17 /\ IsFiniteSet(m)
  <2>1. IsFiniteSet(m) /\ Cardinality(m) <= Cardinality(0..16)
    BY <1>1, <1>2, FS_Subset, Zenon
  <2> QED
    BY <1>1, <2>1
<1>4. Cardinality(m) \in Nat
  BY <1>3, FS_CardinalityType, Zenon
<1> QED
  BY <1>3, <1>4 DEF Byte

-----------------------------------------------------------------------------
(* Methods that leave the ring alone.                                      *)

(* The head of the ring is a request.                                      *)
LEMMA HeadType ==
    ASSUME NEW b \in Object
    PROVE  head(b) \in Request
BY DEF Object, head

(* A method that leaves ring and state alone keeps the object sound.       *)
LEMMA SameQueueSound ==
    ASSUME NEW b, NEW n, Sound(b, n),
           NEW c \in Object, SameQueue(b, c),
           c.state = b.state \/ c.queue_count > 0
    PROVE  Sound(c, n)
BY DEF Sound, SameQueue, Ring, Queued

(* Arming a deadline keeps the object well typed.                          *)
LEMMA DeadlineSet ==
    ASSUME NEW b \in Object, NEW ms \in Timeout
    PROVE  [b EXCEPT !.deadline_ms = ms] \in Object
BY DEF Object

(* So does counting a frame.                                               *)
LEMMA HeardSet ==
    ASSUME NEW b \in Object, NEW n \in Nat
    PROVE  [b EXCEPT !.heard = n] \in Object
BY DEF Object

(* transmit() sets the deadline and leaves ring and state alone.           *)
LEMMA TransmitFacts ==
    ASSUME NEW b \in Object
    PROVE  /\ transmit(b) \in Object
           /\ SameQueue(b, transmit(b))
           /\ transmit(b).state = b.state
           /\ transmit(b).dispatching = b.dispatching
           /\ transmit(b).sent = b.sent \/ transmit(b).sent.ctx = head(b).ctx
<1> DEFINE new == IF ~b.tx_fn THEN b.sent
                  ELSE [ctx   |-> head(b).ctx,
                        tries |-> IF b.sent.ctx = head(b).ctx THEN b.sent.tries + 1 ELSE 1]
           deadline == (b.now_ms + b.response_timeout_ms) % ClockMod
<1>1. deadline \in Timeout
  BY ClockRange DEF Object
<1>2. new \in [ctx : Nat, tries : Nat]
  BY HeadType DEF Object, Request
<1>3. transmit(b) = [b EXCEPT !.sent = new, !.deadline_ms = deadline]
  BY DEF transmit
<1>6. new = b.sent \/ new.ctx = head(b).ctx
  OBVIOUS
<1> HIDE DEF new, deadline
<1>4. transmit(b) \in Object
  <2>1. [b EXCEPT !.sent = new] \in Object
    BY <1>2 DEF Object
  <2>2. transmit(b) = [[b EXCEPT !.sent = new] EXCEPT !.deadline_ms = deadline]
    BY <1>3
  <2> QED
    BY <1>1, <2>1, <2>2, DeadlineSet
<1>5. /\ SameQueue(b, transmit(b))
      /\ transmit(b).state = b.state
      /\ transmit(b).dispatching = b.dispatching
  BY <1>3 DEF Object, SameQueue
<1>7. transmit(b).sent = new
  BY <1>3 DEF Object
<1> QED
  BY <1>4, <1>5, <1>6, <1>7

(* The expected counts fit their uint8_t.                                  *)
LEMMA ExpectedType ==
    ASSUME NEW b \in Object
    PROVE  ItemsExpected(b) \in Byte /\ FramesExpected(b) \in Byte
<1>1. ItemsExpected(b) \in Byte
  BY HeadType DEF ItemsExpected, Object, Request, Byte
<1>2. FramesExpected(b) \in Byte
  <2>0. 3 \in 1..7 /\ 7 \in 1..7 /\ 16 \in Byte /\ 3 \in Byte
    BY DEF Byte
  <2>1. cell_voltage_frames(ItemsExpected(b)) \in Byte
    BY <1>1, <2>0, FramesForRange DEF cell_voltage_frames
  <2>2. cell_temperature_frames(ItemsExpected(b)) \in Byte
    BY <1>1, <2>0, FramesForRange DEF cell_temperature_frames
  <2>3. multiframe_info(head(b).id).frame_count \in Byte
    BY LayoutType
  <2> QED
    BY <2>1, <2>2, <2>3 DEF FramesExpected
<1> QED
  BY <1>1, <1>2

(* begin_awaiting() clears the reassembly state only.                      *)
LEMMA BeginAwaitingFacts ==
    ASSUME NEW b \in Object
    PROVE  /\ begin_awaiting(b) \in Object
           /\ SameQueue(b, begin_awaiting(b))
           /\ begin_awaiting(b).state = b.state
           /\ begin_awaiting(b).dispatching = b.dispatching
<1> DEFINE items == ItemsExpected(b)
           frames == FramesExpected(b)
           cleared == [b EXCEPT !.seen_mask = {}, !.frames_seen = 0, !.record_len = 0,
                                !.retries = 0, !.heard = 0,
                                !.expected_items = items, !.expected_frames = frames]
<1>1. items \in Byte /\ frames \in Byte
  BY ExpectedType
<1>2. begin_awaiting(b) = cleared
  BY DEF begin_awaiting
<1> HIDE DEF items, frames
<1>3. 0 \in Byte /\ 0 \in 0..FAULT_BUFFER_LEN /\ {} \in SUBSET (0..MAX_FRAME_INDEX)
  BY DEF Byte, FAULT_BUFFER_LEN
<1>4. cleared \in Object
  BY <1>1, <1>3 DEF Object
<1>5. /\ SameQueue(b, cleared)
      /\ cleared.state = b.state /\ cleared.dispatching = b.dispatching
  BY DEF Object, SameQueue
<1> QED
  BY <1>2, <1>4, <1>5

(* pump() starts the head request unless there is none or one is on the    *)
(* bus: an idle session after pump() has an empty ring.                    *)
LEMMA PumpFacts ==
    ASSUME NEW b, NEW n, Sound(b, n)
    PROVE  /\ Sound(pump(b), n)
           /\ SameQueue(b, pump(b))
           /\ pump(b).dispatching = b.dispatching
           /\ pump(b).state = "IDLE" => pump(b).queue_count = 0
<1> DEFINE started == [b EXCEPT !.state = "AWAITING"]
<1>0. b \in Object
  BY DEF Sound
<1>1. CASE b.state # "IDLE" \/ b.queue_count = 0
  BY <1>1 DEF pump, Sound, SameQueue, Object
<1>2. CASE ~(b.state # "IDLE" \/ b.queue_count = 0)
  <2>1. /\ started \in Object /\ SameQueue(b, started)
        /\ started.state = "AWAITING" /\ started.dispatching = b.dispatching
    BY <1>0 DEF Object, SameQueue
  <2>2. pump(b) = transmit(begin_awaiting(started))
    BY <1>2 DEF pump
  <2> HIDE DEF started
  <2>3. /\ begin_awaiting(started) \in Object /\ SameQueue(started, begin_awaiting(started))
        /\ begin_awaiting(started).state = "AWAITING"
        /\ begin_awaiting(started).dispatching = b.dispatching
    BY <2>1, BeginAwaitingFacts
  <2>4. /\ pump(b) \in Object /\ SameQueue(begin_awaiting(started), pump(b))
        /\ pump(b).state = "AWAITING" /\ pump(b).dispatching = b.dispatching
    BY <2>2, <2>3, TransmitFacts
  <2>5. SameQueue(b, pump(b))
    BY <2>1, <2>3, <2>4 DEF SameQueue
  <2>6. pump(b).queue_count > 0
    BY <1>0, <1>2, <2>5 DEF SameQueue, Object
  <2> QED
    BY <2>4, <2>5, <2>6, SameQueueSound
<1> QED
  BY <1>1, <1>2

-----------------------------------------------------------------------------
(* Methods that change the ring.                                           *)

(* What complete() does before it pumps: the head request is retired if it *)
(* is still in flight.                                                     *)
LEMMA IdleSound ==
    ASSUME NEW b, NEW n \in Nat, Sound(b, n)
    PROVE  LET idle == [(IF b.state = "AWAITING" THEN pop(b) ELSE b) EXCEPT !.state = "IDLE"]
           IN  Sound(idle, n) /\ idle.dispatching = b.dispatching
<1> DEFINE h == (b.queue_head + 1) % QUEUE_CAPACITY
           popped == [b EXCEPT !.queue_head = h, !.queue_count = b.queue_count - 1,
                               !.state = "IDLE"]
           kept == [b EXCEPT !.state = "IDLE"]
<1>0. b \in Object
  BY DEF Sound
<1>1. CASE b.state = "AWAITING"
  <2>1. h \in Slots
    BY <1>0, ModRange, CapacityAssumption DEF Object, Slots
  <2>2. b.queue_count \in 1..QUEUE_CAPACITY /\ b.queue_head \in Slots
    BY <1>0, <1>1 DEF Sound, Object
  <2>3. /\ popped \in Object /\ popped.dispatching = b.dispatching
        /\ popped.queue = b.queue /\ popped.queue_head = h
        /\ popped.queue_count = b.queue_count - 1 /\ popped.state = "IDLE"
    <3> HIDE DEF h
    <3>1. b.queue_count - 1 \in 0..QUEUE_CAPACITY
      BY <2>2, CapacityAssumption
    <3> QED
      BY <1>0, <2>1, <3>1 DEF Object
  <2>4. Ring(popped, n)
    <3> SUFFICES ASSUME NEW i \in 0..(popped.queue_count - 1)
                 PROVE  Queued(popped, i).ctx = n - popped.queue_count + 1 + i
      BY DEF Ring
    <3>1. /\ i \in 0..(b.queue_count - 2) /\ i + 1 \in 0..(b.queue_count - 1)
      BY <2>2, <2>3, CapacityAssumption
    <3>2. (h + i) % QUEUE_CAPACITY = (b.queue_head + (i + 1)) % QUEUE_CAPACITY
      <4>1. 1 \in 0..QUEUE_CAPACITY /\ i \in 0..QUEUE_CAPACITY /\ i + 1 \in 0..QUEUE_CAPACITY
        BY <2>2, <3>1, CapacityAssumption
      <4>2. h = IF b.queue_head + 1 < QUEUE_CAPACITY THEN b.queue_head + 1
                ELSE b.queue_head + 1 - QUEUE_CAPACITY
        BY <2>2, <4>1, SlotIndex
      <4>3. (b.queue_head + (i + 1)) % QUEUE_CAPACITY =
              IF b.queue_head + (i + 1) < QUEUE_CAPACITY THEN b.queue_head + (i + 1)
              ELSE b.queue_head + (i + 1) - QUEUE_CAPACITY
        BY <2>2, <4>1, SlotIndex
      <4> HIDE DEF h
      <4>4. (h + i) % QUEUE_CAPACITY =
              IF h + i < QUEUE_CAPACITY THEN h + i ELSE h + i - QUEUE_CAPACITY
        BY <2>1, <4>1, SlotIndex
      <4> QED
        BY <2>1, <2>2, <3>1, <4>2, <4>3, <4>4, CapacityAssumption DEF Slots
    <3>3. Queued(popped, i) = Queued(b, i + 1)
      BY <2>3, <3>2 DEF Queued
    <3>4. Queued(b, i + 1).ctx = n - b.queue_count + 1 + (i + 1)
      BY <3>1 DEF Sound, Ring
    <3> QED
      BY <2>2, <2>3, <3>1, <3>3, <3>4
  <2>5. Sound(popped, n)
    BY <2>3, <2>4 DEF Sound
  <2>6. [(IF b.state = "AWAITING" THEN pop(b) ELSE b) EXCEPT !.state = "IDLE"] = popped
    BY <1>0, <1>1 DEF pop, Object
  <2> HIDE DEF popped
  <2> QED
    BY <2>3, <2>5, <2>6
<1>2. CASE b.state # "AWAITING"
  <2>1. /\ kept \in Object /\ SameQueue(b, kept) /\ kept.state = b.state
        /\ kept.dispatching = b.dispatching
    BY <1>0, <1>2 DEF Object, SameQueue
  <2>2. [(IF b.state = "AWAITING" THEN pop(b) ELSE b) EXCEPT !.state = "IDLE"] = kept
    BY <1>2
  <2> HIDE DEF kept
  <2>3. Sound(kept, n)
    BY <2>1, SameQueueSound
  <2> QED
    BY <2>1, <2>2, <2>3
<1> QED
  BY <1>1, <1>2

(* complete() retires the head request if it is still in flight, and       *)
(* starts the next one: an idle session after complete() has no work.      *)
LEMMA CompleteFacts ==
    ASSUME NEW b, NEW n \in Nat, Sound(b, n)
    PROVE  /\ Sound(complete(b), n)
           /\ complete(b).dispatching = b.dispatching
           /\ complete(b).state = "IDLE" => complete(b).queue_count = 0
<1> DEFINE idle == [(IF b.state = "AWAITING" THEN pop(b) ELSE b) EXCEPT !.state = "IDLE"]
<1>1. Sound(idle, n) /\ idle.dispatching = b.dispatching
  BY IdleSound
<1>2. complete(b) = pump(idle)
  BY DEF complete
<1> HIDE DEF idle
<1> QED
  BY <1>1, <1>2, PumpFacts

(* reset() leaves an idle session with an empty ring.                      *)
LEMMA ResetFacts ==
    ASSUME NEW b, NEW n, Sound(b, n)
    PROVE  /\ Sound(reset(b), n)
           /\ reset(b).state = "IDLE" /\ reset(b).queue_count = 0
           /\ reset(b).dispatching = b.dispatching
<1> DEFINE cleared == [b EXCEPT !.queue_head = 0, !.queue_count = 0, !.state = "IDLE",
                                !.retries = 0, !.seen_mask = {}, !.frames_seen = 0,
                                !.expected_frames = 0, !.expected_items = 0, !.record_len = 0]
<1>1. /\ 0 \in Byte /\ 0 \in 0..FAULT_BUFFER_LEN /\ {} \in SUBSET (0..MAX_FRAME_INDEX)
      /\ 0 \in Slots /\ 0 \in 0..QUEUE_CAPACITY
  BY CapacityAssumption DEF Byte, FAULT_BUFFER_LEN, Slots
<1>2. b \in Object
  BY DEF Sound
<1>3. cleared \in Object
  BY <1>1, <1>2 DEF Object
<1>4. cleared.state = "IDLE" /\ cleared.queue_count = 0 /\ cleared.dispatching = b.dispatching
  BY <1>2 DEF Object
<1>5. reset(b) = cleared
  BY DEF reset
<1> HIDE DEF cleared
<1>6. Ring(cleared, n)
  BY <1>4 DEF Ring
<1> QED
  BY <1>3, <1>4, <1>5, <1>6 DEF Sound

(* The ring with one more request.                                         *)
Filing(b, req) ==
    [b EXCEPT !.queue[(b.queue_head + b.queue_count) % QUEUE_CAPACITY] = req,
              !.queue_count = @ + 1]

(* enqueue() files request n+1 behind the others, in a slot that is free.  *)
LEMMA FilingSound ==
    ASSUME NEW b, NEW n \in Nat, Sound(b, n), b.queue_count < QUEUE_CAPACITY,
           NEW req \in Request, req.ctx = n + 1
    PROVE  /\ Sound(Filing(b, req), n + 1)
           /\ Filing(b, req).queue_count = b.queue_count + 1
           /\ Filing(b, req).state = b.state
           /\ Filing(b, req).dispatching = b.dispatching
           /\ Filing(b, req).sent = b.sent
<1> DEFINE at == (b.queue_head + b.queue_count) % QUEUE_CAPACITY
           queue == [b.queue EXCEPT ![at] = req]
           filed == [b EXCEPT !.queue = queue, !.queue_count = b.queue_count + 1]
<1>0. b \in Object
  BY DEF Sound
<1>1. /\ b.queue_count \in 0..(QUEUE_CAPACITY - 1) /\ b.queue_head \in Slots
      /\ b.queue \in [Slots -> Request]
  BY <1>0, CapacityAssumption DEF Object
<1>2. at \in Slots
  <2>1. b.queue_count \in 0..QUEUE_CAPACITY
    BY <1>0 DEF Object
  <2> QED
    BY <1>1, <2>1, SlotIndex
<1>3. queue \in [Slots -> Request] /\ b.queue_count + 1 \in 0..QUEUE_CAPACITY
  <2> HIDE DEF at
  <2> QED
    BY <1>1, <1>2, CapacityAssumption
<1>4. filed = Filing(b, req)
  BY <1>0 DEF Filing, Object
<1>5. /\ filed \in Object /\ filed.queue = queue /\ filed.queue_count = b.queue_count + 1
      /\ filed.queue_head = b.queue_head /\ filed.state = b.state
      /\ filed.dispatching = b.dispatching /\ filed.sent = b.sent
  <2> HIDE DEF queue
  <2> QED
    BY <1>0, <1>3 DEF Object
<1> HIDE DEF filed
<1>6. Ring(filed, n + 1)
  <2> SUFFICES ASSUME NEW i \in 0..b.queue_count
               PROVE  Queued(filed, i).ctx = n + 1 - (b.queue_count + 1) + 1 + i
    BY <1>1, <1>5 DEF Ring
  <2>1. CASE i = b.queue_count
    <3>1. Queued(filed, i) = req
      <4> HIDE DEF at
      <4>1. queue[at] = req
        BY <1>1, <1>2
      <4> USE DEF at
      <4> QED
        BY <1>5, <2>1, <4>1 DEF Queued
    <3> QED
      BY <1>1, <2>1, <3>1
  <2>2. CASE i < b.queue_count
    <3> DEFINE k == (b.queue_head + i) % QUEUE_CAPACITY
    <3>1. k \in Slots
      BY <1>1, ModRange, CapacityAssumption DEF Slots
    <3>2. k # at
      <4>1. i \in 0..QUEUE_CAPACITY /\ b.queue_count \in 0..QUEUE_CAPACITY
        BY <1>1, <2>2, CapacityAssumption
      <4>2. k = IF b.queue_head + i < QUEUE_CAPACITY THEN b.queue_head + i
                ELSE b.queue_head + i - QUEUE_CAPACITY
        BY <1>1, <4>1, SlotIndex
      <4>3. at = IF b.queue_head + b.queue_count < QUEUE_CAPACITY
                 THEN b.queue_head + b.queue_count
                 ELSE b.queue_head + b.queue_count - QUEUE_CAPACITY
        BY <1>1, <4>1, SlotIndex
      <4>4. i \in Nat /\ b.queue_count \in Nat /\ b.queue_count < QUEUE_CAPACITY
        BY <1>1, <4>1, CapacityAssumption
      <4> HIDE DEF k, at
      <4> QED
        BY <1>1, <2>2, <4>2, <4>3, <4>4, SlotsDiffer
    <3>3. queue[k] = b.queue[k]
      <4> HIDE DEF k, at
      <4> QED
        BY <1>1, <3>1, <3>2
    <3>4. Queued(filed, i) = Queued(b, i)
      <4> HIDE DEF queue
      <4> QED
        BY <1>5, <3>3 DEF Queued
    <3>5. Queued(b, i).ctx = n - b.queue_count + 1 + i
      BY <1>1, <2>2 DEF Sound, Ring
    <3> QED
      BY <1>1, <2>2, <3>4, <3>5
  <2> QED
    BY <1>1, <2>1, <2>2
<1>7. Sound(filed, n + 1)
  <2> HIDE DEF queue
  <2> QED
    BY <1>1, <1>5, <1>6 DEF Sound
<1> QED
  BY <1>4, <1>5, <1>7

(* enqueue() starts the request if the bus is free and no event is being   *)
(* dispatched.                                                             *)
LEMMA EnqueueFacts ==
    ASSUME NEW b, NEW n \in Nat, Sound(b, n), b.queue_count < QUEUE_CAPACITY,
           NEW req \in Request, req.ctx = n + 1
    PROVE  /\ Sound(enqueue(b, req), n + 1)
           /\ enqueue(b, req).dispatching = b.dispatching
           /\ b.dispatching => enqueue(b, req).state = b.state
           /\ b.dispatching => enqueue(b, req).sent = b.sent
           /\ ~b.dispatching /\ enqueue(b, req).state = "IDLE" => enqueue(b, req).queue_count = 0
<1>1. enqueue(b, req) = IF b.dispatching THEN Filing(b, req) ELSE pump(Filing(b, req))
  BY DEF enqueue, Filing
<1>2. /\ Sound(Filing(b, req), n + 1)
      /\ Filing(b, req).state = b.state
      /\ Filing(b, req).dispatching = b.dispatching
      /\ Filing(b, req).sent = b.sent
  BY FilingSound
<1> QED
  BY <1>1, <1>2, PumpFacts

-----------------------------------------------------------------------------
(* Methods that handle frames and time.                                    *)

(* The parts of the object that the queue depends on are the same.         *)
Untouched(b, c) ==
    /\ c \in Object /\ SameQueue(b, c)
    /\ c.state = b.state /\ c.dispatching = b.dispatching /\ c.sent = b.sent

(* A method that touches nothing the queue depends on keeps it sound.      *)
LEMMA UntouchedSound ==
    ASSUME NEW b, NEW c, NEW n, Sound(b, n), Untouched(b, c)
    PROVE  Sound(c, n)
BY SameQueueSound DEF Untouched

(* note_counts() only touches the cached counts.                           *)
LEMMA NoteCountsFacts ==
    ASSUME NEW b \in Object, NEW id, NEW data \in Data
    PROVE  Untouched(b, note_counts(b, id, data))
<1> DEFINE cells == (data[1] + data[2] + data[3]) % 256
           temps == (data[4] + data[5] + data[6]) % 256
           status == [b EXCEPT !.cached_cell_count = data[0], !.cached_temp_count = data[1]]
           boards == [b EXCEPT !.cached_cell_count = cells, !.cached_temp_count = temps]
<1>1. /\ data[0] \in Byte /\ data[1] \in Byte /\ data[2] \in Byte /\ data[3] \in Byte
      /\ data[4] \in Byte /\ data[5] \in Byte /\ data[6] \in Byte
  BY DEF Data
<1>2. cells \in Byte /\ temps \in Byte
  <2>1. ASSUME NEW x \in Byte, NEW y \in Byte, NEW z \in Byte
        PROVE  (x + y + z) % 256 \in Byte
    BY DEF Byte
  <2> QED
    BY <1>1, <2>1
<1>3. Untouched(b, status)
  BY <1>1 DEF Untouched, SameQueue, Object
<1>4. Untouched(b, boards)
  <2> HIDE DEF cells, temps
  <2> QED
    BY <1>2 DEF Untouched, SameQueue, Object
<1>5. Untouched(b, b)
  BY DEF Untouched, SameQueue
<1>6. CASE id = STATUS_INFO
  BY <1>3, <1>6 DEF note_counts, STATUS_INFO, BMU_CELL_TEMP_COUNT
<1>7. CASE id = BMU_CELL_TEMP_COUNT
  BY <1>4, <1>7 DEF note_counts, STATUS_INFO, BMU_CELL_TEMP_COUNT
<1>8. CASE id # STATUS_INFO /\ id # BMU_CELL_TEMP_COUNT
  BY <1>5, <1>8 DEF note_counts
<1> QED
  BY <1>6, <1>7, <1>8

(* Re-arming the deadline touches nothing else.                            *)
LEMMA AwaitFacts ==
    ASSUME NEW b \in Object
    PROVE  Untouched(b, await_next_frame(b))
<1> DEFINE deadline == (b.now_ms + b.interframe_timeout_ms) % ClockMod
<1>1. deadline \in Timeout
  BY ClockRange DEF Object
<1>2. await_next_frame(b) = [b EXCEPT !.deadline_ms = deadline]
  BY DEF await_next_frame
<1> HIDE DEF deadline
<1> QED
  BY <1>1, <1>2 DEF Untouched, SameQueue, Object

(* After a record the stream goes on, or, if a handler reset the session,  *)
(* whatever it queued is started.                                          *)
LEMMA AfterRecordFacts ==
    ASSUME NEW b, NEW n, Sound(b, n)
    PROVE  /\ Sound(after_record(b), n)
           /\ after_record(b).dispatching = b.dispatching
           /\ after_record(b).state = "IDLE" => after_record(b).queue_count = 0
<1> DEFINE rewound == [b EXCEPT !.record_len = 0]
<1>1. b \in Object
  BY DEF Sound
<1>2. Untouched(b, rewound)
  BY <1>1 DEF Untouched, SameQueue, Object, FAULT_BUFFER_LEN
<1>3. after_record(b) = IF b.state # "AWAITING" THEN pump(rewound) ELSE await_next_frame(rewound)
  BY DEF after_record
<1> HIDE DEF rewound
<1>4. Sound(rewound, n) /\ rewound \in Object
  BY <1>2, UntouchedSound DEF Untouched
<1>5. CASE b.state # "AWAITING"
  BY <1>2, <1>3, <1>4, <1>5, PumpFacts DEF Untouched
<1>6. CASE b.state = "AWAITING"
  <2>1. Untouched(rewound, await_next_frame(rewound))
    BY <1>4, AwaitFacts
  <2>2. Sound(await_next_frame(rewound), n)
    BY <1>4, <2>1, UntouchedSound
  <2> QED
    BY <1>2, <1>3, <1>6, <2>1, <2>2 DEF Untouched
<1> QED
  BY <1>5, <1>6

(* Filing a frame under its counter touches only the reassembly state.     *)
LEMMA FileFrameFacts ==
    ASSUME NEW b \in Object, NEW frame_no \in 0..MAX_FRAME_INDEX
    PROVE  Untouched(b, FileFrame(b, frame_no))
<1> DEFINE mask == b.seen_mask \cup {frame_no}
           count == Cardinality(mask)
<1>1. mask \in SUBSET (0..MAX_FRAME_INDEX)
  BY DEF Object
<1>2. count \in Byte
  BY <1>1, MaskCount
<1>3. FileFrame(b, frame_no) =
        [b EXCEPT !.seen_mask = mask, !.frames_seen = count, !.heard = b.heard + 1]
  BY DEF FileFrame, Object
<1>4. b.heard + 1 \in Nat
  BY DEF Object
<1> HIDE DEF mask, count
<1>5. FileFrame(b, frame_no) \in Object
  <2>1. [b EXCEPT !.seen_mask = mask, !.frames_seen = count] \in Object
    BY <1>1, <1>2 DEF Object
  <2>2. FileFrame(b, frame_no) =
          [[b EXCEPT !.seen_mask = mask, !.frames_seen = count] EXCEPT !.heard = b.heard + 1]
    BY <1>3
  <2> QED
    BY <1>4, <2>1, <2>2, HeardSet
<1>6. /\ SameQueue(b, FileFrame(b, frame_no))
      /\ FileFrame(b, frame_no).state = b.state
      /\ FileFrame(b, frame_no).dispatching = b.dispatching
      /\ FileFrame(b, frame_no).sent = b.sent
  BY <1>3 DEF SameQueue, Object
<1> QED
  BY <1>5, <1>6 DEF Untouched

(* So does filing seven bytes of a record.                                 *)
LEMMA FileRecordFacts ==
    ASSUME NEW b \in Object
    PROVE  Untouched(b, FileRecord(b))
<1> DEFINE len == IF b.record_len + 7 > FAULT_BUFFER_LEN THEN FAULT_BUFFER_LEN
                  ELSE b.record_len + 7
           frames == (b.frames_seen + 1) % 256
<1>1. len \in 0..FAULT_BUFFER_LEN /\ frames \in Byte /\ b.heard + 1 \in Nat
  BY DEF Object, FAULT_BUFFER_LEN, Byte
<1>2. FileRecord(b) =
        [b EXCEPT !.record_len = len, !.frames_seen = frames, !.heard = b.heard + 1]
  BY DEF FileRecord, Object
<1> HIDE DEF len, frames
<1>3. FileRecord(b) \in Object
  <2>1. [b EXCEPT !.record_len = len, !.frames_seen = frames] \in Object
    BY <1>1 DEF Object
  <2>2. FileRecord(b) =
          [[b EXCEPT !.record_len = len, !.frames_seen = frames] EXCEPT !.heard = b.heard + 1]
    BY <1>2
  <2> QED
    BY <1>1, <2>1, <2>2, HeardSet
<1>4. /\ SameQueue(b, FileRecord(b))
      /\ FileRecord(b).state = b.state
      /\ FileRecord(b).dispatching = b.dispatching
      /\ FileRecord(b).sent = b.sent
  BY <1>2 DEF SameQueue, Object
<1> QED
  BY <1>3, <1>4 DEF Untouched

(* tick() first advances the clock.                                        *)
LEMMA AtFacts ==
    ASSUME bms \in Object, NEW d \in Timeout
    PROVE  Untouched(bms, At(d)) /\ At(d).retries = bms.retries
<1> DEFINE now == (bms.now_ms + d) % ClockMod
<1>1. now \in Timeout
  BY ClockRange DEF Object
<1>2. At(d) = [bms EXCEPT !.now_ms = now]
  BY DEF At
<1> HIDE DEF now
<1> QED
  BY <1>1, <1>2 DEF Untouched, SameQueue, Object

-----------------------------------------------------------------------------
(* Dispatch.                                                               *)

(* The state of the ring and the stack that every step keeps, for every    *)
(* use of the session, re-entrant ones included.                           *)
Good(b, st, f) == Sound(b, Len(f)) /\ st \in Seq(Activation) /\ f \in Seq(Fates)

Continuations == {"return", "complete", "stream"}

(* Reporting an outcome changes no request's number.                       *)
LEMMA ReportedFacts ==
    ASSUME NEW f \in Seq(Fates), NEW ctx
    PROVE  Reported(f, ctx) \in Seq(Fates) /\ Len(Reported(f, ctx)) = Len(f)
<1>1. f \in [1..Len(f) -> Fates] /\ Len(f) \in Nat
  OBVIOUS
<1>2. Reported(f, ctx) \in [1..Len(f) -> Fates]
  BY <1>1 DEF Reported, Fates
<1>3. Reported(f, ctx) \in Seq(Fates)
  BY <1>1, <1>2
<1> QED
  BY <1>1, <1>2, <1>3

(* emit() changes the object in nothing but dispatching_, pushes one       *)
(* activation and numbers no request.                                      *)
LEMMA EmitFacts ==
    ASSUME NEW b, Good(b, stack, fate), NEW event \in Event, NEW then \in Continuations,
           emit(b, event, then)
    PROVE  /\ Good(bms', stack', fate')
           /\ SameQueue(b, bms') /\ bms'.state = b.state /\ bms'.sent = b.sent
           /\ bms'.dispatching = TRUE
           /\ Len(stack') = Len(stack) + 1
           /\ stack'[Len(stack) + 1].then = then
           /\ stack'[Len(stack) + 1].nested = b.dispatching
           /\ stack'[Len(stack) + 1].owner = InFlight(b)
           /\ fate' = IF then = "complete" THEN Reported(fate, InFlight(b)) ELSE fate
<1> DEFINE dispatching == [b EXCEPT !.dispatching = TRUE]
           activation == [event |-> event, owner |-> InFlight(b), run |-> FirstHandler(b),
                          then |-> then, nested |-> b.dispatching]
<1>1. b \in Object /\ stack \in Seq(Activation) /\ fate \in Seq(Fates)
  BY DEF Good, Sound
<1>2. InFlight(b) \in Nat /\ FirstHandler(b) \in {"request", "session", "none"}
  BY <1>1, HeadType DEF InFlight, FirstHandler, Request
<1>3. activation \in Activation
  BY <1>1, <1>2 DEF Activation, Continuations, Object
<1>4. /\ dispatching \in Object /\ SameQueue(b, dispatching) /\ dispatching.state = b.state
      /\ dispatching.sent = b.sent /\ dispatching.dispatching = TRUE
  BY <1>1 DEF Object, SameQueue
<1>5. bms' = dispatching /\ stack' = Append(stack, activation)
  BY DEF emit
<1>6. fate' = IF then = "complete" THEN Reported(fate, InFlight(b)) ELSE fate
  BY DEF emit
<1>7. fate' \in Seq(Fates) /\ Len(fate') = Len(fate)
  BY <1>1, <1>6, ReportedFacts
<1>8. activation.then = then /\ activation.nested = b.dispatching /\ activation.owner = InFlight(b)
  OBVIOUS
<1> HIDE DEF dispatching, activation
<1>9. Sound(bms', Len(fate'))
  BY <1>4, <1>5, <1>7, SameQueueSound DEF Good
<1>10. /\ stack' \in Seq(Activation) /\ Len(stack') = Len(stack) + 1
       /\ stack'[Len(stack) + 1] = activation
  BY <1>1, <1>3, <1>5
<1> QED
  BY <1>4, <1>5, <1>6, <1>7, <1>8, <1>9, <1>10 DEF Good

(* The events the handlers build are events.                               *)
LEMMA EventTypes ==
    ASSUME NEW id \in Byte, NEW frames \in Byte, NEW retries \in Byte
    PROVE  /\ ResponseEvent(id, frames) \in Event
           /\ TimeoutEvent(id, retries) \in Event
           /\ \A error \in {"CHECKSUM", "BAD_SOURCE_ADDRESS", "BAD_LENGTH", "UNEXPECTED_DATA_ID",
                            "UNKNOWN_DATA_ID", "FRAME_SEQUENCE", "TRUNCATED", "WRITE_REJECTED"} :
                  ErrorEvent(id, error, frames) \in Event
<1>1. 0 \in Byte
  BY DEF Byte
<1> QED
  BY <1>1 DEF ResponseEvent, TimeoutEvent, ErrorEvent, Event

-----------------------------------------------------------------------------
(* The shapes of a step.  What the invariants below depend on is how a     *)
(* step treats the ring, the stack and the wire; there are few ways.       *)

Emits ==
    /\ MayDrive
    /\ \E b \in Object, event \in Event, then \in Continuations :
           /\ Untouched(bms, b)
           /\ then # "return" => bms.state = "AWAITING"
           /\ emit(b, event, then)

Leaves == Untouched(bms, bms') /\ UNCHANGED <<stack, fate>>

Retries ==
    /\ MayDrive /\ bms.state = "AWAITING" /\ ~(Multi(bms) /\ bms.frames_seen > 0)
    /\ bms' \in Object /\ SameQueue(bms, bms') /\ bms'.state = bms.state
    /\ bms'.dispatching = bms.dispatching
    /\ bms'.sent = bms.sent \/ bms'.sent.ctx = head(bms).ctx
    /\ UNCHANGED <<stack, fate>>

Ends ==
    /\ MayDrive /\ bms.state = "AWAITING"
    /\ bms' = complete(bms)
    /\ fate' = Reported(fate, head(bms).ctx)
    /\ UNCHANGED stack

Shape ==
    \/ Emits \/ Leaves \/ Retries \/ Ends
    \/ \E p \in Polls : Poll(p)
    \/ Reset \/ SessionHandlerRuns
    \/ \E then \in Continuations : EmitReturns(then)

(* Where a method may go on after emit().                                  *)
LEMMA ContinuationsAre ==
    "return" \in Continuations /\ "complete" \in Continuations /\ "stream" \in Continuations
BY DEF Continuations

(* What a handler does to show that a step of it emits.                    *)
LEMMA EmitShape ==
    ASSUME NEW b, NEW event \in Event, NEW then \in Continuations,
           MayDrive, Untouched(bms, b), then # "return" => bms.state = "AWAITING",
           emit(b, event, then)
    PROVE  Emits
<1>1. b \in Object
  BY DEF Untouched
<1> QED
  BY <1>1, Zenon DEF Emits

(* The setters leave ring, stack and wire alone.                           *)
LEMMA ConfigureShape ==
    ASSUME Good(bms, stack, fate),
           \/ \E fn \in TxHandlers : SetTxHandler(fn)
           \/ \E fn \in EventHandlers : SetEventHandler(fn)
           \/ \E ms \in ResponseTimeouts : SetResponseTimeout(ms)
           \/ \E ms \in InterframeTimeouts : SetInterframeTimeout(ms)
           \/ \E n \in RetryLimits : SetMaxRetries(n)
    PROVE  Leaves
<1> USE DEF Configure, Leaves, Untouched, SameQueue
<1>0. bms \in Object
  BY DEF Good, Sound
<1>1. ASSUME NEW fn \in TxHandlers, SetTxHandler(fn) PROVE Leaves
  BY <1>0, <1>1, InputAssumption DEF SetTxHandler, Object
<1>2. ASSUME NEW fn \in EventHandlers, SetEventHandler(fn) PROVE Leaves
  BY <1>0, <1>2, InputAssumption DEF SetEventHandler, Object
<1>3. ASSUME NEW ms \in ResponseTimeouts, SetResponseTimeout(ms) PROVE Leaves
  BY <1>0, <1>3, TimingAssumption DEF SetResponseTimeout, Object
<1>4. ASSUME NEW ms \in InterframeTimeouts, SetInterframeTimeout(ms) PROVE Leaves
  BY <1>0, <1>4, TimingAssumption DEF SetInterframeTimeout, Object
<1>5. ASSUME NEW n \in RetryLimits, SetMaxRetries(n) PROVE Leaves
  BY <1>0, <1>5, TimingAssumption DEF SetMaxRetries, Object
<1> QED
  BY <1>1, <1>2, <1>3, <1>4, <1>5

(* feed() of any frame or error the parser can deliver, on this bus or on  *)
(* another.                                                                *)
AnyFrame == [src : Byte, id : Byte, data : Data]
Delivers ==
    \/ \E error \in {"CHECKSUM", "BAD_LENGTH"} : OnFrameError(error)
    \/ \E f \in AnyFrame : OnFrame(f)

(* A bus delivers nothing else.                                            *)
LEMMA FeedDelivers ==
    ASSUME Feed
    PROVE  Delivers
BY InputAssumption DEF Feed, Delivers, AnyFrame

(* A frame, or a corrupt one, emits an event, is filed, or ends a stream.  *)
LEMMA DeliverShape ==
    ASSUME Good(bms, stack, fate), Delivers
    PROVE  Emits \/ Leaves \/ Ends
<1>0. bms \in Object /\ head(bms) \in Request /\ head(bms).id \in Byte
  BY HeadType DEF Good, Sound, Request
<1>1. Untouched(bms, bms)
  BY <1>0 DEF Untouched, SameQueue
<1>2. 0 \in Byte /\ 1 \in Byte /\ 4 \in Byte /\ CAPACITY_VOLTAGE \in Byte
  BY DEF Byte, CAPACITY_VOLTAGE
<1>3. ASSUME NEW error \in {"CHECKSUM", "BAD_LENGTH"}, OnFrameError(error)
      PROVE  Emits
  <2> DEFINE id == IF bms.state = "AWAITING" THEN head(bms).id ELSE CAPACITY_VOLTAGE
  <2>1. ErrorEvent(id, error, 0) \in Event
    BY <1>0, <1>2, EventTypes
  <2> QED
    BY <1>1, <1>3, <2>1, EmitShape, ContinuationsAre, Zenon DEF OnFrameError
<1>4. ASSUME NEW f \in AnyFrame,
             \/ RejectIdle(f) \/ RejectSource(f) \/ RejectId(f)
             \/ HandleSingle(f)
             \/ RejectFrameNo(f) \/ HandleMultiLast(f) \/ HandleMultiMore(f)
             \/ HandleStreamEnd(f) \/ HandleStreamMore(f) \/ HandleStreamRecord(f)
      PROVE  Emits \/ Leaves \/ Ends
  <2>1. f.id \in Byte /\ f.data \in Data
    BY DEF AnyFrame
  <2>2. f.data[0] \in Byte
    BY <2>1 DEF Data
  <2>3. \A error \in {"BAD_SOURCE_ADDRESS", "UNEXPECTED_DATA_ID", "FRAME_SEQUENCE"} :
            ErrorEvent(f.id, error, 0) \in Event
    BY <1>2, <2>1, EventTypes
  <2>4. CASE RejectIdle(f)
    BY <1>1, <2>3, <2>4, EmitShape, ContinuationsAre, Zenon DEF RejectIdle
  <2>5. CASE RejectSource(f)
    BY <1>1, <2>3, <2>5, EmitShape, ContinuationsAre, Zenon DEF RejectSource
  <2>6. CASE RejectId(f)
    BY <1>1, <2>3, <2>6, EmitShape, ContinuationsAre, Zenon DEF RejectId
  <2>7. CASE RejectFrameNo(f)
    BY <1>1, <2>3, <2>7, EmitShape, ContinuationsAre, Zenon DEF RejectFrameNo, Reply
  <2>8. CASE HandleSingle(f)
    <3>1. SingleEvent(f) \in Event
      <4>1. /\ ResponseEvent(f.id, 1) \in Event
            /\ ErrorEvent(f.id, "WRITE_REJECTED", 1) \in Event
            /\ ErrorEvent(f.id, "UNKNOWN_DATA_ID", 1) \in Event
        BY <1>2, <2>1, EventTypes
      <4> QED
        BY <4>1, Zenon DEF SingleEvent
    <3>2. Untouched(bms, note_counts(bms, f.id, f.data))
      BY <1>0, <2>1, NoteCountsFacts
    <3> QED
      BY <2>8, <3>1, <3>2, EmitShape, ContinuationsAre, Zenon DEF HandleSingle, Reply
  <2>9. CASE HandleMultiLast(f) \/ HandleMultiMore(f)
    <3> DEFINE filed == FileFrame(bms, f.data[0])
    <3>1. f.data[0] \in 0..MAX_FRAME_INDEX
      <4>1. f.data[0] <= MAX_FRAME_INDEX
        BY <2>9, Zenon DEF HandleMultiLast, HandleMultiMore, AcceptFrame
      <4> QED
        BY <2>2, <4>1 DEF MAX_FRAME_INDEX, Byte
    <3>2. Untouched(bms, filed)
      BY <1>0, <3>1, FileFrameFacts
    <3>3. filed \in Object /\ filed.frames_seen \in Byte
      BY <3>2 DEF Untouched, Object
    <3>4. CASE HandleMultiLast(f)
      <4>1. PICK event \in Event : emit(filed, event, "complete")
        BY <2>1, <3>3, <3>4, EventTypes, <1>2 DEF HandleMultiLast, finish_multi
      <4> QED
        BY <3>2, <3>4, <4>1, EmitShape, ContinuationsAre, Zenon DEF HandleMultiLast, AcceptFrame, Reply
    <3>5. CASE HandleMultiMore(f)
      <4>1. Untouched(filed, await_next_frame(filed))
        BY <3>3, AwaitFacts
      <4> QED
        BY <3>2, <3>5, <4>1 DEF HandleMultiMore, Leaves, Untouched, SameQueue
    <3> QED
      BY <2>9, <3>4, <3>5
  <2>10. CASE HandleStreamEnd(f)
    BY <2>10 DEF HandleStreamEnd, Reply, Ends
  <2>11. CASE HandleStreamMore(f) \/ HandleStreamRecord(f)
    <3> DEFINE filed == FileRecord(bms)
    <3>1. Untouched(bms, filed)
      BY <1>0, FileRecordFacts
    <3>2. filed \in Object
      BY <3>1 DEF Untouched
    <3>3. CASE HandleStreamMore(f)
      <4>1. Untouched(filed, await_next_frame(filed))
        BY <3>2, AwaitFacts
      <4> QED
        BY <3>1, <3>3, <4>1 DEF HandleStreamMore, Leaves, Untouched, SameQueue
    <3>4. CASE HandleStreamRecord(f)
      <4>1. ResponseEvent(f.id, 4) \in Event
        BY <1>2, <2>1, EventTypes
      <4> QED
        BY <3>1, <3>4, <4>1, EmitShape, ContinuationsAre, Zenon
         DEF HandleStreamRecord, AcceptRecord, Reply
    <3> QED
      BY <2>11, <3>3, <3>4
  <2> QED
    BY <1>4, <2>4, <2>5, <2>6, <2>7, <2>8, <2>9, <2>10, <2>11
<1> QED
  BY <1>3, <1>4 DEF Delivers, OnFrame

(* So does feed() of what this bus delivers.                               *)
LEMMA FeedShape ==
    ASSUME Good(bms, stack, fate), Feed
    PROVE  Emits \/ Leaves \/ Ends
BY FeedDelivers, DeliverShape

(* tick() does nothing to the queue, resends the head request, or emits.   *)
LEMMA TickShape ==
    ASSUME Good(bms, stack, fate), NEW d \in Timeout, Tick(d)
    PROVE  Emits \/ Leaves \/ Retries
<1>0. bms \in Object /\ head(bms).id \in Byte /\ bms.frames_seen \in Byte /\ bms.retries \in Byte
  BY HeadType DEF Good, Sound, Request, Object
<1>1. Untouched(bms, At(d)) /\ At(d).retries = bms.retries
  BY <1>0, AtFacts
<1>2. At(d) \in Object /\ At(d).frames_seen \in Byte
  BY <1>1 DEF Untouched, Object
<1>3. CASE TickQuiet(d)
  BY <1>1, <1>3 DEF TickQuiet, Leaves
<1>4. CASE TickFinishes(d)
  <2>1. PICK event \in Event : emit(At(d), event, "complete")
    BY <1>0, <1>2, <1>4, EventTypes DEF TickFinishes, finish_multi
  <2> QED
    BY <1>1, <1>4, <2>1, EmitShape, ContinuationsAre, Zenon DEF TickFinishes, Due
<1>5. CASE TickTruncates(d)
  <2>1. ErrorEvent(head(bms).id, "TRUNCATED", bms.frames_seen) \in Event
    BY <1>0, EventTypes
  <2> QED
    BY <1>1, <1>5, <2>1, EmitShape, ContinuationsAre, Zenon DEF TickTruncates, Due
<1>6. CASE TickRetries(d)
  <2> DEFINE again == [At(d) EXCEPT !.retries = At(d).retries + 1]
  <2>1. bms.retries + 1 \in Byte
    BY <1>0, <1>6 DEF TickRetries, Byte, Object
  <2>2. /\ again \in Object /\ SameQueue(At(d), again) /\ again.state = At(d).state
        /\ again.dispatching = At(d).dispatching /\ again.sent = At(d).sent
    BY <1>1, <1>2, <2>1 DEF Object, SameQueue
  <2>3. bms' = transmit(again)
    BY <1>6 DEF TickRetries
  <2> HIDE DEF again
  <2>4. /\ bms' \in Object /\ SameQueue(again, bms') /\ bms'.state = again.state
        /\ bms'.dispatching = again.dispatching
        /\ bms'.sent = again.sent \/ bms'.sent.ctx = head(again).ctx
    BY <2>2, <2>3, TransmitFacts
  <2>5. head(again) = head(bms)
    BY <1>1, <2>2 DEF head, SameQueue, Untouched
  <2> QED
    BY <1>1, <1>6, <2>2, <2>4, <2>5
    DEF TickRetries, Unanswered, Due, Retries, Untouched, SameQueue
<1>7. CASE TickTimesOut(d)
  <2>1. TimeoutEvent(head(bms).id, bms.retries) \in Event
    BY <1>0, EventTypes
  <2> QED
    BY <1>1, <1>7, <2>1, EmitShape, ContinuationsAre, Zenon DEF TickTimesOut, Unanswered, Due
<1> QED
  BY <1>3, <1>4, <1>5, <1>6, <1>7 DEF Tick

(* Every step has one of the shapes.                                       *)
LEMMA NextShape ==
    ASSUME Good(bms, stack, fate), Next
    PROVE  Shape
<1>1. CASE Application
  BY <1>1, ConfigureShape DEF Application, Shape
<1>2. CASE Feed
  BY <1>2, FeedShape DEF Shape
<1>3. CASE \E d \in TickSteps : Tick(d)
  BY <1>3, TickShape, TimingAssumption DEF Shape
<1>4. CASE Return
  BY <1>4 DEF Return, Shape, Continuations
<1> QED
  BY <1>1, <1>2, <1>3, <1>4 DEF Next

-----------------------------------------------------------------------------
(* The general invariant.                                                  *)

(* A new session is sound.                                                 *)
LEMMA InitGood ==
    ASSUME Init
    PROVE  Good(bms, stack, fate)
<1>1. /\ 0 \in Byte /\ 0 \in 0..FAULT_BUFFER_LEN /\ {} \in SUBSET (0..MAX_FRAME_INDEX)
      /\ 0 \in Slots /\ 0 \in 0..QUEUE_CAPACITY /\ 0 \in Timeout
  BY CapacityAssumption, ClockAssumption DEF Byte, FAULT_BUFFER_LEN, Slots, Timeout
<1>2. NoRequest \in Request
  BY DEF NoRequest, Request, CAPACITY_VOLTAGE, Byte
<1>3. [i \in Slots |-> NoRequest] \in [Slots -> Request]
  BY <1>2
<1>4. [ctx |-> 0, tries |-> 0] \in [ctx : Nat, tries : Nat]
  OBVIOUS
<1>5. bms \in Object
  BY <1>1, <1>3, <1>4, TimingAssumption DEF Init, Object
<1>6. bms.state = "IDLE" /\ bms.queue_count = 0
  BY DEF Init
<1>7. Ring(bms, Len(fate))
  BY <1>6 DEF Ring
<1>8. stack \in Seq(Activation) /\ fate \in Seq(Fates)
  BY DEF Init
<1> QED
  BY <1>5, <1>6, <1>7, <1>8 DEF Good, Sound

(* A request that Poll files is the next in number, and finds a free slot. *)
LEMMA AskFacts ==
    ASSUME Good(bms, stack, fate), NEW p \in PollArgs, Poll(p)
    PROVE  /\ Good(bms', stack', fate')
           /\ bms'.dispatching = bms.dispatching
           /\ bms.dispatching => bms'.state = bms.state /\ bms'.sent = bms.sent
           /\ ~bms.dispatching /\ bms'.state = "IDLE" => bms'.queue_count = 0
           /\ stack' = stack
           /\ fate' = Append(fate, "pending")
<1> DEFINE req == [id |-> p.id, on |-> p.on, hint |-> p.hint, fn |-> p.fn, ctx |-> Len(fate) + 1]
<1>1. Len(fate) \in Nat /\ fate \in Seq(Fates) /\ stack \in Seq(Activation)
  BY DEF Good
<1>2. req \in Request /\ req.ctx = Len(fate) + 1
  BY <1>1 DEF Request, PollArgs
<1>3. bms.queue_count < QUEUE_CAPACITY
  <2>1. queue_status(bms, p.id) = "QUEUED" /\ bms \in Object
    BY DEF Poll, Good, Sound
  <2>2. ~(bms.queue_count >= QUEUE_CAPACITY)
    BY <2>1 DEF queue_status
  <2> QED
    BY <2>1, <2>2, CapacityAssumption DEF Object
<1>4. bms' = enqueue(bms, req) /\ fate' = Append(fate, "pending") /\ stack' = stack
  BY DEF Poll
<1> HIDE DEF req
<1>5. Len(fate') = Len(fate) + 1 /\ fate' \in Seq(Fates)
  BY <1>1, <1>4 DEF Fates
<1>6. Sound(bms, Len(fate))
  BY DEF Good
<1>7. /\ Sound(bms', Len(fate) + 1)
      /\ bms'.dispatching = bms.dispatching
      /\ bms.dispatching => bms'.state = bms.state
      /\ bms.dispatching => bms'.sent = bms.sent
      /\ ~bms.dispatching /\ bms'.state = "IDLE" => bms'.queue_count = 0
  BY <1>1, <1>2, <1>3, <1>4, <1>6, EnqueueFacts
<1> QED
  BY <1>1, <1>4, <1>5, <1>7 DEF Good

LEMMA PollFacts ==
    ASSUME Good(bms, stack, fate), NEW p \in Polls, Poll(p)
    PROVE  /\ Good(bms', stack', fate')
           /\ bms'.dispatching = bms.dispatching
           /\ bms.dispatching => bms'.state = bms.state /\ bms'.sent = bms.sent
           /\ ~bms.dispatching /\ bms'.state = "IDLE" => bms'.queue_count = 0
           /\ stack' = stack
           /\ fate' = Append(fate, "pending")
<1>1. p \in PollArgs
  BY InputAssumption
<1> QED
  BY <1>1, AskFacts

(* Dropping requests changes no request's number.                          *)
LEMMA ResetStepFacts ==
    ASSUME Good(bms, stack, fate), Reset
    PROVE  /\ Good(bms', stack', fate')
           /\ bms'.state = "IDLE" /\ bms'.queue_count = 0
           /\ bms'.dispatching = bms.dispatching
           /\ Len(fate') = Len(fate) /\ stack' = stack
<1>1. Len(fate) \in Nat /\ fate \in [1..Len(fate) -> Fates] /\ DOMAIN fate = 1..Len(fate)
  BY DEF Good
<1>2. fate' = [s \in DOMAIN fate |->
                  IF fate[s] = "pending" /\ Live(bms, s) THEN "dropped" ELSE fate[s]]
  BY DEF Reset
<1>3. fate' \in [1..Len(fate) -> Fates]
  BY <1>1, <1>2 DEF Fates
<1>4. fate' \in Seq(Fates) /\ Len(fate') = Len(fate)
  BY <1>1, <1>3
<1>5. bms' = reset(bms) /\ stack' = stack
  BY DEF Reset
<1> QED
  BY <1>4, <1>5, ResetFacts DEF Good

(* Popping the stack.                                                      *)
LEMMA PopFacts ==
    ASSUME NEW S, NEW s \in Seq(S), s # <<>>
    PROVE  SubSeq(s, 1, Len(s) - 1) \in Seq(S) /\ Len(SubSeq(s, 1, Len(s) - 1)) = Len(s) - 1
<1> DEFINE n == Len(s) - 1
<1>1. \A i \in 1..n : s[i] \in S
  OBVIOUS
<1>2. 1 \in Int /\ n \in Int /\ n >= 0
  OBVIOUS
<1> HIDE DEF n
<1>3. /\ SubSeq(s, 1, n) \in Seq(S)
      /\ Len(SubSeq(s, 1, n)) = IF 1 <= n THEN n - 1 + 1 ELSE 0
  BY <1>1, <1>2, SubSeqProperties
<1>4. (IF 1 <= n THEN n - 1 + 1 ELSE 0) = n
  BY <1>2
<1> QED
  BY <1>3, <1>4 DEF n

(* The end of emit(): the innermost activation is gone, and its caller     *)
(* has gone on.                                                            *)
LEMMA EmitReturnsFacts ==
    ASSUME Good(bms, stack, fate), NEW then \in Continuations, EmitReturns(then)
    PROVE  /\ Good(bms', stack', fate')
           /\ Len(stack') = Len(stack) - 1 /\ Len(stack) > 0
           /\ ~stack[Len(stack)].nested => bms'.dispatching = FALSE
           /\ then # "return" /\ bms'.state = "IDLE" => bms'.queue_count = 0
           /\ then = "return" => bms'.state = bms.state /\ bms'.queue_count = bms.queue_count
           /\ fate' = fate
<1> DEFINE ended == EndDispatch(bms, Top.nested)
<1>1. /\ bms \in Object /\ Sound(bms, Len(fate)) /\ Len(fate) \in Nat
      /\ stack \in Seq(Activation) /\ stack # <<>>
  BY DEF Good, Sound, EmitReturns
<1>2. Len(stack) \in Nat /\ Len(stack) > 0
  BY <1>1
<1>3. /\ ended \in Object /\ SameQueue(bms, ended) /\ ended.state = bms.state
      /\ ~Top.nested => ended.dispatching = FALSE
  <2> DEFINE off == [bms EXCEPT !.dispatching = FALSE]
  <2>1. /\ off \in Object /\ SameQueue(bms, off) /\ off.state = bms.state
        /\ off.dispatching = FALSE
    BY <1>1 DEF Object, SameQueue
  <2>2. SameQueue(bms, bms)
    BY DEF SameQueue
  <2>3. ended = IF Top.nested THEN bms ELSE off
    BY DEF EndDispatch
  <2> HIDE DEF off, ended
  <2> QED
    BY <1>1, <2>1, <2>2, <2>3
<1>4. bms' = Resume(ended, then) /\ stack' = SubSeq(stack, 1, Len(stack) - 1) /\ fate' = fate
  BY DEF EmitReturns
<1> HIDE DEF ended
<1>5. Sound(ended, Len(fate))
  BY <1>1, <1>3, SameQueueSound
<1>6. stack' \in Seq(Activation) /\ Len(stack') = Len(stack) - 1
  BY <1>1, <1>4, PopFacts
<1>7. CASE then = "return"
  <2>1. bms' = ended
    BY <1>4, <1>7 DEF Resume
  <2> QED
    BY <1>1, <1>2, <1>3, <1>4, <1>5, <1>6, <1>7, <2>1 DEF Good, Top, SameQueue
<1>8. CASE then = "complete"
  <2>1. bms' = complete(ended)
    BY <1>4, <1>8 DEF Resume
  <2>2. /\ Sound(bms', Len(fate)) /\ bms'.dispatching = ended.dispatching
        /\ bms'.state = "IDLE" => bms'.queue_count = 0
    BY <1>1, <1>5, <2>1, CompleteFacts
  <2> QED
    BY <1>1, <1>2, <1>3, <1>4, <1>6, <1>8, <2>2 DEF Good, Top
<1>9. CASE then = "stream"
  <2>1. bms' = after_record(ended)
    BY <1>4, <1>9 DEF Resume
  <2>2. /\ Sound(bms', Len(fate)) /\ bms'.dispatching = ended.dispatching
        /\ bms'.state = "IDLE" => bms'.queue_count = 0
    BY <1>5, <2>1, AfterRecordFacts
  <2> QED
    BY <1>1, <1>2, <1>3, <1>4, <1>6, <1>9, <2>2 DEF Good, Top
<1> QED
  BY <1>7, <1>8, <1>9 DEF Continuations

(* A step of any of the shapes keeps the session well-formed and the ring  *)
(* in order.                                                               *)
LEMMA ShapeGood ==
    ASSUME Good(bms, stack, fate), Shape
    PROVE  Good(bms', stack', fate')
<1>1. CASE Emits
  <2>1. PICK b \in Object, event \in Event, then \in Continuations :
            Untouched(bms, b) /\ emit(b, event, then)
    BY <1>1, Zenon DEF Emits
  <2>2. Good(b, stack, fate)
    BY <2>1, UntouchedSound DEF Good
  <2> QED
    BY <2>1, <2>2, EmitFacts
<1>2. CASE Leaves
  BY <1>2, UntouchedSound DEF Good, Leaves
<1>3. CASE Retries
  BY <1>3, SameQueueSound DEF Good, Retries
<1>4. CASE Ends
  BY <1>4, CompleteFacts, ReportedFacts DEF Good, Ends
<1>5. CASE \E p \in Polls : Poll(p)
  BY <1>5, PollFacts
<1>6. CASE Reset
  BY <1>6, ResetStepFacts
<1>7. CASE SessionHandlerRuns
  <2>1. /\ stack \in Seq(Activation) /\ Len(stack) \in 1..Len(stack)
        /\ bms' = bms /\ fate' = fate
        /\ stack' = [stack EXCEPT ![Len(stack)].run = "session"]
    BY <1>7 DEF Good, SessionHandlerRuns
  <2>2. stack[Len(stack)] \in Activation
    BY <2>1
  <2>3. [stack[Len(stack)] EXCEPT !.run = "session"] \in Activation
    BY <2>2 DEF Activation
  <2>4. stack' \in Seq(Activation)
    BY <2>1, <2>3
  <2> QED
    BY <2>1, <2>4 DEF Good
<1>8. CASE \E then \in Continuations : EmitReturns(then)
  BY <1>8, EmitReturnsFacts
<1> QED
  BY <1>1, <1>2, <1>3, <1>4, <1>5, <1>6, <1>7, <1>8 DEF Shape

(* Every step does.                                                        *)
LEMMA NextGood ==
    ASSUME Good(bms, stack, fate), [Next]_vars
    PROVE  Good(bms', stack', fate')
<1>1. CASE UNCHANGED vars
  BY <1>1 DEF vars
<1>2. CASE Next
  BY <1>2, NextShape, ShapeGood
<1> QED
  BY <1>1, <1>2

(* The session keeps its types, never pops an empty ring and serves its    *)
(* ring in order, for every capacity and every use, re-entrant included.   *)
LEMMA GoodInvariant == Spec => []Good(bms, stack, fate)
<1>1. Init => Good(bms, stack, fate)
  BY InitGood
<1>2. Good(bms, stack, fate) /\ [Next]_vars => Good(bms, stack, fate)'
  BY NextGood
<1> QED
  BY <1>1, <1>2, PTL DEF Spec

(* Every member of the object keeps the range of its type.                 *)
THEOREM TypeCorrect == Spec => []TypeOK
<1>1. Good(bms, stack, fate) => TypeOK
  BY DEF Good, Sound, TypeOK
<1> QED
  BY <1>1, GoodInvariant, PTL

(* The ring holds the requests accepted last, oldest at the head.          *)
THEOREM QueueOrdered == Spec => []QueueInOrder
<1>1. Good(bms, stack, fate) => QueueInOrder
  BY DEF Good, Sound, Ring, QueueInOrder
<1> QED
  BY <1>1, GoodInvariant, PTL

-----------------------------------------------------------------------------
(* Without re-entrant feed() and tick(), and with handlers of non-final    *)
(* events that poll only while busy(): nothing is stranded, and nothing is *)
(* transmitted from inside a handler.                                      *)

(* At most one activation, and the flag says whether there is one.         *)
Flat ==
    /\ Len(stack) <= 1
    /\ stack = <<>> => bms.dispatching = FALSE
    /\ stack # <<>> => bms.dispatching = TRUE /\ stack[1].nested = FALSE

(* A length that is at most one.                                           *)
LEMMA ZeroOrOne ==
    ASSUME NEW n \in Nat, n <= 1
    PROVE  n = 0 \/ n = 1
OBVIOUS

(* What the session does by itself keeps it flat, as long as feed() and    *)
(* tick() come from the loop: a handler then returns to the loop.          *)
LEMMA KeepsFlat ==
    ASSUME Good(bms, stack, fate), Good(bms', stack', fate'), Flat, Emits => stack = <<>>,
           \/ Emits \/ Leaves \/ Retries \/ Ends \/ SessionHandlerRuns
           \/ \E then \in Continuations : EmitReturns(then)
    PROVE  Flat' /\ (Emits => Len(stack') = 1)
<1>1. /\ stack \in Seq(Activation) /\ stack' \in Seq(Activation)
      /\ bms \in Object /\ bms' \in Object
  BY DEF Good, Sound
<1>2. Len(stack) \in Nat /\ (stack = <<>> <=> Len(stack) = 0)
  BY <1>1
<1>3. Len(stack') \in Nat /\ (stack' = <<>> <=> Len(stack') = 0)
  BY <1>1
<1>4. stack # <<>> => Len(stack) = 1
  <2>1. Len(stack) <= 1
    BY DEF Flat
  <2> QED
    BY <1>2, <2>1, ZeroOrOne, Zenon
<1>5. ASSUME Emits
      PROVE  Flat' /\ Len(stack') = 1
  <2>1. PICK b \in Object, event \in Event, then \in Continuations :
            Untouched(bms, b) /\ emit(b, event, then)
    BY <1>5, Zenon DEF Emits
  <2>2. Good(b, stack, fate)
    BY <2>1, UntouchedSound DEF Good
  <2>3. stack = <<>> /\ Len(stack) = 0
    BY <1>2, <1>5
  <2>4. /\ bms'.dispatching = TRUE /\ Len(stack') = Len(stack) + 1
        /\ stack'[Len(stack) + 1].nested = b.dispatching
    BY <2>1, <2>2, EmitFacts
  <2>5. Len(stack) + 1 = 1
    BY <2>3
  <2>6. Len(stack') = 1 /\ stack'[1].nested = b.dispatching
    BY <2>4, <2>5
  <2>7. b.dispatching = FALSE
    BY <2>1, <2>3 DEF Untouched, Flat
  <2>8. stack' # <<>>
    BY <1>3, <2>6
  <2> QED
    BY <2>3, <2>4, <2>6, <2>7, <2>8 DEF Flat
<1>6. CASE Leaves
  BY <1>5, <1>6 DEF Leaves, Untouched, Flat
<1>7. CASE Retries
  BY <1>5, <1>7 DEF Retries, Flat
<1>8. CASE Ends
  <2>1. stack' = stack /\ bms' = complete(bms)
    BY <1>8 DEF Ends
  <2>2. bms'.dispatching = bms.dispatching
    BY <2>1, CompleteFacts DEF Good
  <2> QED
    BY <1>5, <2>1, <2>2 DEF Flat
<1>9. CASE SessionHandlerRuns
  <2>1. /\ bms' = bms /\ stack # <<>> /\ Len(stack) = 1
        /\ stack' = [stack EXCEPT ![1].run = "session"]
    BY <1>4, <1>9 DEF SessionHandlerRuns
  <2>2. stack[1] \in Activation /\ 1 \in DOMAIN stack
    BY <1>1, <2>1
  <2>3. stack'[1] = [stack[1] EXCEPT !.run = "session"] /\ Len(stack') = 1
    BY <1>1, <2>1, <2>2
  <2>4. stack'[1].nested = stack[1].nested
    BY <2>2, <2>3 DEF Activation
  <2>5. stack' # <<>>
    BY <1>3, <2>3
  <2> QED
    BY <1>5, <2>1, <2>3, <2>4, <2>5 DEF Flat
<1>10. CASE \E then \in Continuations : EmitReturns(then)
  <2>1. PICK then \in Continuations : EmitReturns(then)
    BY <1>10
  <2>2. /\ Len(stack') = Len(stack) - 1 /\ Len(stack) > 0
        /\ ~stack[Len(stack)].nested => bms'.dispatching = FALSE
    BY <2>1, EmitReturnsFacts
  <2>3. Len(stack) = 1 /\ stack # <<>> /\ stack' = <<>>
    BY <1>2, <1>3, <2>2 DEF Flat
  <2>4. bms'.dispatching = FALSE
    BY <2>2, <2>3 DEF Flat
  <2> QED
    BY <1>3, <1>5, <2>3, <2>4 DEF Flat
<1> QED
  BY <1>5, <1>6, <1>7, <1>8, <1>9, <1>10

(* The step of a flat session: feed() and tick() come from the loop, and   *)
(* what a handler returns to is the loop.                                  *)
LEMMA NextFlat ==
    ASSUME MaxDepth = 1, Good(bms, stack, fate), Flat, [Next]_vars
    PROVE  /\ Flat'
           /\ Emits => stack = <<>> /\ Len(stack') = 1
           /\ stack # <<>> => Len(stack) = 1
           /\ stack' # <<>> => Len(stack') = 1
<1>0. Good(bms', stack', fate')
  BY NextGood
<1>1. /\ Len(stack) \in Nat /\ (stack = <<>> <=> Len(stack) = 0)
      /\ Len(stack') \in Nat /\ (stack' = <<>> <=> Len(stack') = 0)
  BY <1>0 DEF Good
<1>2. Emits => stack = <<>>
  BY <1>1 DEF Emits, MayDrive
<1>3. Emits => Len(stack') = 1
  BY <1>0, <1>2, KeepsFlat
<1>4. Flat'
  <2>1. CASE UNCHANGED vars
    BY <2>1 DEF vars, Flat
  <2>2. CASE Next
    <3>1. CASE \E p \in Polls : Poll(p)
      <4>1. bms'.dispatching = bms.dispatching /\ stack' = stack
        BY <3>1, PollFacts
      <4> QED
        BY <4>1 DEF Flat
    <3>2. CASE Reset
      <4>1. bms'.dispatching = bms.dispatching /\ stack' = stack
        BY <3>2, ResetStepFacts
      <4> QED
        BY <4>1 DEF Flat
    <3>3. Shape
      BY <2>2, NextShape
    <3> QED
      BY <1>0, <1>2, <3>1, <3>2, <3>3, KeepsFlat DEF Shape
  <2> QED
    BY <2>1, <2>2
<1>5. ASSUME NEW n \in Nat, n <= 1
      PROVE  n # 0 => n = 1
  BY <1>5
<1> QED
  BY <1>1, <1>2, <1>3, <1>4, <1>5 DEF Flat

(* Where nobody will pump the ring, an idle session has nothing in it.     *)
NothingWaits ==
    (stack = <<>> \/ stack[1].then = "return") /\ bms.state = "IDLE" => bms.queue_count = 0

Disciplined == Good(bms, stack, fate) /\ Flat /\ NothingWaits

(* Every step keeps the discipline.                                        *)
LEMMA NextDisciplined ==
    ASSUME MaxDepth = 1, ~PollWhenIdle, Disciplined, [Next]_vars
    PROVE  Disciplined' /\ NoTxInsideHandlerStep
<1>0. /\ Good(bms, stack, fate) /\ Flat /\ NothingWaits
      /\ Good(bms', stack', fate') /\ Flat'
  BY NextGood, NextFlat DEF Disciplined
<1>1. /\ stack \in Seq(Activation) /\ stack' \in Seq(Activation)
      /\ bms \in Object /\ bms' \in Object
  BY <1>0 DEF Good, Sound
<1>2. Len(stack) \in Nat /\ (stack = <<>> <=> Len(stack) = 0)
  BY <1>1
<1>3. Len(stack') \in Nat /\ (stack' = <<>> <=> Len(stack') = 0)
  BY <1>1
<1>4. MayDrive => stack = <<>>
  BY <1>2 DEF MayDrive
<1> SUFFICES NothingWaits' /\ NoTxInsideHandlerStep
  BY <1>0 DEF Disciplined
<1>5. CASE UNCHANGED vars
  BY <1>0, <1>5 DEF vars, Flat, NothingWaits, NoTxInsideHandlerStep
<1>6. CASE Next
  <2>0. Shape
    BY <1>0, <1>6, NextShape
  <2>1. CASE Emits
    <3>1. PICK b \in Object, event \in Event, then \in Continuations :
              /\ Untouched(bms, b) /\ emit(b, event, then)
              /\ then # "return" => bms.state = "AWAITING"
      BY <2>1, Zenon DEF Emits
    <3>2. Good(b, stack, fate)
      BY <1>0, <3>1, UntouchedSound DEF Good
    <3>3. stack = <<>> /\ Len(stack) = 0
      BY <1>2, <1>4, <2>1 DEF Emits
    <3>4. /\ SameQueue(b, bms') /\ bms'.state = b.state /\ bms'.sent = b.sent
          /\ bms'.dispatching = TRUE
          /\ Len(stack') = 1 /\ stack'[1].then = then /\ stack'[1].nested = b.dispatching
      <4>1. /\ SameQueue(b, bms') /\ bms'.state = b.state /\ bms'.sent = b.sent
            /\ bms'.dispatching = TRUE
            /\ Len(stack') = Len(stack) + 1 /\ stack'[Len(stack) + 1].then = then
            /\ stack'[Len(stack) + 1].nested = b.dispatching
        BY <3>1, <3>2, EmitFacts
      <4>2. Len(stack) + 1 = 1
        BY <3>3
      <4> QED
        BY <4>1, <4>2
    <3>5. b.dispatching = FALSE /\ b.sent = bms.sent /\ b.state = bms.state
          /\ b.queue_count = bms.queue_count
      BY <1>0, <3>1, <3>3 DEF Untouched, Flat, SameQueue
    <3>6. bms.state = "IDLE" => bms.queue_count = 0
      BY <1>0, <3>3 DEF NothingWaits
    <3>7. NothingWaits'
      BY <3>4, <3>5, <3>6 DEF NothingWaits, SameQueue
    <3>8. NoTxInsideHandlerStep
      BY <3>4, <3>5 DEF NoTxInsideHandlerStep
    <3> QED
      BY <3>7, <3>8
  <2>2. CASE Leaves
    BY <1>0, <2>2 DEF Leaves, Untouched, SameQueue, Flat, NothingWaits, NoTxInsideHandlerStep
  <2>3. CASE Retries
    BY <1>0, <1>4, <2>3 DEF Retries, SameQueue, Flat, NothingWaits, NoTxInsideHandlerStep
  <2>4. CASE Ends
    <3>1. stack' = <<>> /\ stack = <<>> /\ bms' = complete(bms)
      BY <1>4, <2>4 DEF Ends
    <3>2. bms'.dispatching = bms.dispatching /\ (bms'.state = "IDLE" => bms'.queue_count = 0)
      BY <1>0, <3>1, CompleteFacts DEF Good
    <3> QED
      BY <1>0, <3>1, <3>2 DEF Flat, NothingWaits, NoTxInsideHandlerStep
  <2>5. CASE \E p \in Polls : Poll(p)
    <3>1. PICK p \in Polls : Poll(p)
      BY <2>5
    <3>2. /\ bms'.dispatching = bms.dispatching /\ stack' = stack
          /\ bms.dispatching => bms'.state = bms.state /\ bms'.sent = bms.sent
          /\ ~bms.dispatching /\ bms'.state = "IDLE" => bms'.queue_count = 0
      BY <1>0, <3>1, PollFacts
    <3>3. stack # <<>> /\ stack[1].then = "return" => bms.state = "AWAITING"
      <4>1. stack # <<>> => Len(stack) = 1
        <5>1. Len(stack) <= 1
          BY <1>0 DEF Flat
        <5> QED
          BY <1>2, <5>1, ZeroOrOne, Zenon
      <4> QED
        BY <3>1, <4>1 DEF Poll, MayPoll, Top
    <3> QED
      BY <1>0, <3>2, <3>3 DEF Flat, NothingWaits, NoTxInsideHandlerStep
  <2>6. CASE Reset
    <3>1. bms'.queue_count = 0 /\ bms'.dispatching = bms.dispatching /\ stack' = stack
      BY <1>0, <2>6, ResetStepFacts
    <3>2. bms'.sent = bms.sent
      BY <1>1, <2>6 DEF Reset, reset, Object
    <3> QED
      BY <1>0, <3>1, <3>2 DEF Flat, NothingWaits, NoTxInsideHandlerStep
  <2>7. CASE SessionHandlerRuns
    <3>0. Len(stack) = 1
      <4>1. Len(stack) <= 1 /\ stack # <<>>
        BY <1>0, <2>7 DEF SessionHandlerRuns, Flat
      <4> QED
        BY <1>2, <4>1, ZeroOrOne, Zenon
    <3>1. /\ bms' = bms /\ stack # <<>> /\ Len(stack) = 1
          /\ stack' = [stack EXCEPT ![1].run = "session"]
      BY <3>0, <2>7 DEF SessionHandlerRuns
    <3>2. stack[1] \in Activation /\ 1 \in DOMAIN stack
      BY <1>1, <3>1
    <3>3. stack'[1] = [stack[1] EXCEPT !.run = "session"] /\ Len(stack') = 1
      BY <1>1, <3>1, <3>2
    <3>4. stack'[1].then = stack[1].then /\ stack'[1].nested = stack[1].nested
      BY <3>2, <3>3 DEF Activation
    <3>5. stack' # <<>>
      BY <1>3, <3>3
    <3> QED
      BY <1>0, <3>1, <3>3, <3>4, <3>5 DEF Flat, NothingWaits, NoTxInsideHandlerStep
  <2>8. CASE \E then \in Continuations : EmitReturns(then)
    <3>1. PICK then \in Continuations : EmitReturns(then)
      BY <2>8
    <3>2. /\ Len(stack') = Len(stack) - 1 /\ Len(stack) > 0
          /\ ~stack[Len(stack)].nested => bms'.dispatching = FALSE
          /\ then # "return" /\ bms'.state = "IDLE" => bms'.queue_count = 0
          /\ then = "return" => bms'.state = bms.state /\ bms'.queue_count = bms.queue_count
      BY <1>0, <3>1, EmitReturnsFacts
    <3>3. Len(stack) = 1 /\ stack # <<>> /\ stack' = <<>>
      BY <1>0, <1>2, <1>3, <3>2 DEF Flat
    <3>4. ~stack[1].nested /\ stack[1].then = then
      BY <1>0, <3>1, <3>3 DEF EmitReturns, Top, Flat
    <3>5. bms'.state = "IDLE" => bms'.queue_count = 0
      BY <1>0, <3>2, <3>3, <3>4 DEF NothingWaits
    <3>6. NothingWaits'
      BY <3>5 DEF NothingWaits
    <3>7. NoTxInsideHandlerStep
      BY <3>3 DEF NoTxInsideHandlerStep
    <3> QED
      BY <3>6, <3>7
  <2> QED
    BY <2>0, <2>1, <2>2, <2>3, <2>4, <2>5, <2>6, <2>7, <2>8 DEF Shape
<1> QED
  BY <1>5, <1>6

(* A new session is disciplined.                                           *)
LEMMA InitDisciplined ==
    ASSUME Init
    PROVE  Disciplined
<1>1. Good(bms, stack, fate)
  BY InitGood
<1>2. stack = <<>> /\ Len(stack) = 0
  BY DEF Init
<1>3. bms.dispatching = FALSE /\ bms.queue_count = 0
  BY DEF Init
<1> QED
  BY <1>1, <1>2, <1>3 DEF Disciplined, Flat, NothingWaits

(* The discipline is an invariant.                                         *)
LEMMA DisciplinedInvariant ==
    ASSUME MaxDepth = 1, ~PollWhenIdle
    PROVE  Spec => []Disciplined
<1>1. Init => Disciplined
  BY InitDisciplined
<1>2. Disciplined /\ [Next]_vars => Disciplined'
  BY NextDisciplined
<1> QED
  BY <1>1, <1>2, PTL DEF Spec

(* With control back in the application, an idle session has no queued     *)
(* work: whatever handlers polled or reset, it has gone out.               *)
THEOREM NothingStranded ==
    ASSUME MaxDepth = 1, ~PollWhenIdle
    PROVE  Spec => []NoStrandedWork
<1>1. Disciplined => NoStrandedWork
  BY DEF Disciplined, NothingWaits, NoStrandedWork
<1> QED
  BY <1>1, DisciplinedInvariant, PTL

(* No step that leaves a handler running transmits.                        *)
THEOREM TransmitsOnlyBetweenHandlers ==
    ASSUME MaxDepth = 1, ~PollWhenIdle
    PROVE  Spec => NoTxInsideHandler
<1>1. Disciplined /\ [Next]_vars => NoTxInsideHandlerStep
  BY NextDisciplined
<1>2. Disciplined /\ [Next]_vars => [NoTxInsideHandlerStep]_vars
  BY <1>1
<1> QED
  BY <1>2, DisciplinedInvariant, PTL DEF Spec, NoTxInsideHandler
=============================================================================
