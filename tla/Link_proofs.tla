----------------------------- MODULE Link_proofs -----------------------------
(***************************************************************************)
(* Proofs about the session on its line: with timeouts that cover the line *)
(* whatever is read answers the latest transmission, and what arrives      *)
(* whole is heard, for every ring, every clock, every mix of requests,     *)
(* every length of reply and whatever the line loses or corrupts.          *)
(***************************************************************************)
EXTENDS Link, HaidiBMS_traffic_proofs

(* A reply of numbered frames; how many frames the reply awaited has; how  *)
(* many of them are no longer in the pack; the time to the deadline.       *)
Paged(b)      == Multi(b) /\ ~Streaming(b)
FrameTotal(b) == IF b.expected_frames > 0 THEN b.expected_frames ELSE 1
Out(b, l)     == FrameTotal(b) - Len(l)
Left(b)       == (b.deadline_ms - b.now_ms) % ClockMod

(* The outcome of the request in flight is being dispatched; or it is      *)
(* still to come.                                                          *)
Settling == stack # <<>> /\ stack[1].then # "return"
Waiting  == bms.state = "AWAITING" /\ ~Settling

Packet == [frame : [src : {BmsAddress}, id : Byte, data : Data],
           of : [ctx : Nat, tries : Nat], within : Nat]

(* The session's books on the request in flight.                           *)
InHand(b) ==
    /\ b.sent.ctx = head(b).ctx /\ head(b).id # NONE
    /\ b.expected_frames <= MaxFrames /\ b.expected_frames <= MAX_FRAME_INDEX
    /\ Paged(b) => b.frames_seen = Cardinality(b.seen_mask)
    /\ ~Paged(b) => b.expected_frames = 0 /\ b.frames_seen = 0

(* A request the line can serve.                                           *)
Fits(req) == ReplyFits(req) /\ req.id # NONE

(* The session as it is on the line: what it may ask for fits, and         *)
(* nothing of what it was set up with changes.                             *)
Plugged(b) ==
    /\ b.tx_fn
    /\ b.response_timeout_ms = DEFAULT_RESPONSE_TIMEOUT_MS
    /\ b.interframe_timeout_ms = DEFAULT_INTERFRAME_TIMEOUT_MS
    /\ \A s \in Slots : Fits(b.queue[s])

(* What the pack still has to send is the end of the reply.                *)
OnLine(b, l) ==
    \A i \in 1..Len(l) :
        /\ l[i].of = b.sent /\ l[i].frame.id = head(b).id
        /\ l[i].within = IF Out(b, l) + i = 1 THEN MaxDelay ELSE MaxGap
        /\ Paged(b) => l[i].frame.data[0] = Out(b, l) + i
        /\ Streaming(b) => l[i].frame.data[0] = FRAME_NO_END

(* What has arrived is of the same reply, and no counter of it twice.      *)
OnUart(b, l, u) ==
    \A i \in 1..Len(u) :
        /\ u[i].of = b.sent /\ u[i].frame.id \in {NONE, head(b).id}
        /\ Paged(b) =>
               /\ u[i].frame.data[0] \in 1..Out(b, l)
               /\ u[i].frame.data[0] \notin b.seen_mask
               /\ \A j \in 1..Len(u) : i # j => u[j].frame.data[0] # u[i].frame.data[0]
        /\ Streaming(b) => u[i].frame.data[0] = FRAME_NO_END

(* Every frame is in the pack, on its way, or counted, unless one was      *)
(* lost; g is the set of transmissions that lost one.                      *)
Balance(b, l, u, g) ==
    /\ Paged(b) => b.seen_mask \subseteq 1..Out(b, l)
    /\ b.frames_seen + Len(u) <= Out(b, l)
    /\ \A i \in 1..Len(u) : u[i].frame.id = NONE => b.sent \in g
    /\ b.sent \notin g => b.frames_seen + Len(u) = Out(b, l)

(* The time the pack may still take; and the deadline is later than that   *)
(* and the turn in which the loop reads the last frame.  p is where the    *)
(* loop is, a the age of now_ms_, w the time since the last frame.         *)
Rest(l, w) == (l[1].within - w) + (Len(l) - 1) * MaxGap
InTime(b, l, u, p, a, w) ==
    /\ l # <<>> => w <= l[1].within /\ a + Rest(l, w) + LoopPeriod < Left(b) /\ Left(b) <= Half
    /\ u # <<>> /\ p = "work" => LoopPeriod < Left(b) /\ Left(b) <= Half

(* The inductive invariant.                                                *)
LinkTyped ==
    /\ line \in Seq(Packet) /\ uart \in Seq(Packet)
    /\ late \in 0..LoopPeriod /\ waited \in Nat
LinkSession ==
    /\ Good(bms, stack, fate) /\ Booked /\ Flat
    /\ Plugged(bms)
    /\ bms.state = "AWAITING" => InHand(bms)
    /\ stack # <<>> => stack[1].then # "stream"
LinkTraffic ==
    /\ Waiting => OnLine(bms, line) /\ OnUart(bms, line, uart) /\ Balance(bms, line, uart, lost)
    /\ Waiting => InTime(bms, line, uart, loop, late, waited)
    /\ ~Waiting => line = <<>> /\ uart = <<>>
LinkUp == loop \in {"work", "read"} /\ LinkTyped /\ LinkSession /\ LinkTraffic /\ PromptReplyHeard
LinkInv == (loop = "setup" /\ LinkInit) \/ LinkUp

-----------------------------------------------------------------------------
(* Arithmetic.                                                             *)

(* Gaps add up.                                                            *)
LEMMA Gaps ==
    ASSUME NEW g \in Nat, NEW a \in Nat, NEW b \in Nat, a <= b
    PROVE  /\ a * g \in Nat /\ b * g \in Nat /\ a * g <= b * g
           /\ (a + 1) * g = a * g + g
<1> DEFINE k == b - a
<1>1. k \in Nat /\ b = a + k
  OBVIOUS
<1> HIDE DEF k
<1>2. b * g = a * g + k * g
  BY <1>1
<1>3. k * g \in Nat /\ a * g \in Nat
  BY <1>1
<1> QED
  BY <1>1, <1>2, <1>3

(* The timeouts and the turn of the loop against half the clock.           *)
LEMMA LinkTimes ==
    /\ DEFAULT_RESPONSE_TIMEOUT_MS \in 1..Half /\ DEFAULT_INTERFRAME_TIMEOUT_MS \in 1..Half
    /\ LoopPeriod \in Nat /\ LoopPeriod <= Half /\ 0..LoopPeriod \subseteq Timeout
    /\ MaxDelay \in Nat /\ MaxGap \in Nat /\ MaxFrames \in Nat /\ MaxFrames >= 1
<1>1. (MaxFrames - 1) * MaxGap \in Nat
  <2>1. MaxFrames - 1 \in Nat /\ MaxGap \in Nat
    BY LinkAssumption
  <2> QED
    BY <2>1, Gaps
<1> DEFINE all == (MaxFrames - 1) * MaxGap
<1>2. /\ LoopPeriod \in Nat /\ MaxDelay \in Nat /\ MaxGap \in Nat /\ MaxFrames \in Nat \ {0}
      /\ MaxDelay + all + 2 * LoopPeriod < DEFAULT_RESPONSE_TIMEOUT_MS
      /\ all + 2 * LoopPeriod < DEFAULT_INTERFRAME_TIMEOUT_MS
      /\ DEFAULT_RESPONSE_TIMEOUT_MS <= Half /\ DEFAULT_INTERFRAME_TIMEOUT_MS <= Half
  BY LinkAssumption DEF Half
<1>3. DEFAULT_RESPONSE_TIMEOUT_MS \in Nat /\ DEFAULT_INTERFRAME_TIMEOUT_MS \in Nat
  BY TimingAssumption DEF Timeout
<1>4. all \in Nat
  BY <1>1
<1> HIDE DEF all
<1> QED
  BY <1>2, <1>3, <1>4, HalfClock DEF Timeout

(* A reply on its way when the deadline is armed, whatever the age of      *)
(* now_ms_, arrives and is read before it.                                 *)
LEMMA Covered ==
    ASSUME NEW k \in Nat, k + 1 <= MaxFrames, NEW a \in 0..LoopPeriod
    PROVE  /\ k * MaxGap \in Nat
           /\ a + (MaxDelay + k * MaxGap) + LoopPeriod < DEFAULT_RESPONSE_TIMEOUT_MS
           /\ a + k * MaxGap + LoopPeriod < DEFAULT_INTERFRAME_TIMEOUT_MS
<1> DEFINE all == (MaxFrames - 1) * MaxGap
           some == k * MaxGap
<1>1. some \in Nat /\ all \in Nat /\ some <= all
  <2>1. MaxFrames - 1 \in Nat /\ k <= MaxFrames - 1 /\ MaxGap \in Nat
    BY LinkTimes
  <2> QED
    BY <2>1, Gaps
<1>2. /\ MaxDelay + all + 2 * LoopPeriod < DEFAULT_RESPONSE_TIMEOUT_MS
      /\ all + 2 * LoopPeriod < DEFAULT_INTERFRAME_TIMEOUT_MS
  BY LinkAssumption
<1>3. /\ DEFAULT_RESPONSE_TIMEOUT_MS \in Nat /\ DEFAULT_INTERFRAME_TIMEOUT_MS \in Nat
      /\ MaxDelay \in Nat /\ LoopPeriod \in Nat /\ a \in Nat /\ a <= LoopPeriod
  BY LinkTimes
<1> HIDE DEF all, some
<1>4. /\ a + (MaxDelay + some) + LoopPeriod < DEFAULT_RESPONSE_TIMEOUT_MS
      /\ a + some + LoopPeriod < DEFAULT_INTERFRAME_TIMEOUT_MS
  BY <1>1, <1>2, <1>3
<1> QED
  BY <1>1, <1>4 DEF some

(* A tick that comes before the deadline finds it not expired, and that    *)
(* much nearer.                                                            *)
LEMMA TickNears ==
    ASSUME NEW now \in Timeout, NEW due \in Timeout, NEW d \in 0..Half,
           d < (due - now) % ClockMod, (due - now) % ClockMod <= Half
    PROVE  /\ ~expired((now + d) % ClockMod, due)
           /\ (due - ((now + d) % ClockMod)) % ClockMod = ((due - now) % ClockMod) - d
<1> DEFINE m == ClockMod
           h == Half
           later == (now + d) % m
           dist == (due - now) % m
           over == (later - due) % m
           rest == (due - later) % m
<1>1. /\ m \in Nat /\ h \in Nat /\ h > 0 /\ m = 2 * h /\ m > 0 /\ now \in 0..(m - 1)
      /\ due \in 0..(m - 1) /\ d \in 0..h
  BY HalfClock DEF Timeout
<1>2. d < dist /\ dist <= h
  OBVIOUS
<1>3. later = IF now + d < m THEN now + d ELSE now + d - m
  <2>1. now + d \in (-m)..(2 * m - 1) /\ ~(now + d < 0)
    BY <1>1
  <2> QED
    BY <1>1, <2>1, Turn
<1>4. dist = IF due - now < 0 THEN due - now + m ELSE due - now
  <2>1. due - now \in (-m)..(2 * m - 1) /\ due - now < m
    BY <1>1
  <2> QED
    BY <1>1, <2>1, Turn
<1>5. later \in 0..(m - 1)
  <2> HIDE DEF m, h, later
  <2> QED
    BY <1>1, <1>3
<1>6. over = IF later - due < 0 THEN later - due + m ELSE later - due
  <2> HIDE DEF later
  <2>1. later - due \in (-m)..(2 * m - 1) /\ later - due < m
    BY <1>1, <1>5
  <2> QED
    BY <1>1, <2>1, Turn
<1>7. rest = IF due - later < 0 THEN due - later + m ELSE due - later
  <2> HIDE DEF later
  <2>1. due - later \in (-m)..(2 * m - 1) /\ due - later < m
    BY <1>1, <1>5
  <2> QED
    BY <1>1, <2>1, Turn
<1> HIDE DEF m, h, later, dist, over, rest
<1>8. rest = dist - d /\ ~(over < h)
  BY <1>1, <1>2, <1>3, <1>4, <1>5, <1>6, <1>7
<1>9. ~expired(later, due)
  BY <1>8 DEF expired, over, h, m, Half
<1> QED
  BY <1>8, <1>9 DEF rest, later, dist, m

-----------------------------------------------------------------------------
(* The session between two transmissions.                                  *)

(* frames_for() keeps to the limit it is given.                            *)
LEMMA FramesForFits ==
    ASSUME NEW count \in Byte, NEW per \in 1..7, NEW max \in Byte
    PROVE  frames_for(count, per, max) <= max
<1> DEFINE frames == (count + per - 1) \div per
<1>1. frames \in Int
  BY DEF Byte
<1>2. frames_for(count, per, max) = IF count = 0 THEN 0 ELSE IF frames > max THEN max ELSE frames
  BY DEF frames_for
<1> HIDE DEF frames
<1> QED
  BY <1>1, <1>2 DEF Byte

(* A page of the reply can be told from every other: no reply has more     *)
(* frames than the session can count, and none is longer than the line     *)
(* allows for.                                                             *)
LEMMA ExpectedFits ==
    ASSUME NEW b \in Object, ReplyFits(head(b))
    PROVE  /\ FramesExpected(b) <= MaxFrames /\ FramesExpected(b) <= MAX_FRAME_INDEX
           /\ ~Paged(b) => FramesExpected(b) = 0
<1> DEFINE req == head(b)
           items == ItemsExpected(b)
<1>0. req \in Request /\ req.hint \in Byte
  BY HeadType DEF Request
<1>1. CASE req.id = CELL_VOLTAGES
  <2>1. items = IF req.hint # 0 THEN req.hint ELSE b.cached_cell_count
    BY <1>1 DEF ItemsExpected, CELL_VOLTAGES, CELL_TEMPERATURES
  <2>2. items \in Byte /\ items \in IF req.hint # 0 THEN {req.hint} ELSE Byte
    BY <1>0, <2>1 DEF Object
  <2>3. FramesExpected(b) = cell_voltage_frames(items)
    BY <1>1 DEF FramesExpected, CELL_VOLTAGES, CELL_TEMPERATURES
  <2> HIDE DEF items, req
  <2>4. cell_voltage_frames(items) <= MaxFrames
    BY <1>1, <2>2 DEF ReplyFits, req, CELL_VOLTAGES, CELL_TEMPERATURES
  <2>5. cell_voltage_frames(items) <= MAX_FRAME_INDEX
    <3>1. 3 \in 1..7 /\ 16 \in Byte
      BY DEF Byte
    <3> QED
      BY <2>2, <3>1, FramesForFits DEF cell_voltage_frames, MAX_FRAME_INDEX
  <2>6. Paged(b)
    BY <1>1 DEF req, Paged, Multi, Streaming, multiframe_info, Layout, CELL_VOLTAGES,
         CELL_TEMPERATURES, FAULT_RECORDS, ManufacturerName, LongText, Versions
  <2> QED
    BY <2>3, <2>4, <2>5, <2>6
<1>2. CASE req.id = CELL_TEMPERATURES
  <2>1. items = IF req.hint # 0 THEN req.hint ELSE b.cached_temp_count
    BY <1>2 DEF ItemsExpected, CELL_VOLTAGES, CELL_TEMPERATURES
  <2>2. items \in Byte /\ items \in IF req.hint # 0 THEN {req.hint} ELSE Byte
    BY <1>0, <2>1 DEF Object
  <2>3. FramesExpected(b) = cell_temperature_frames(items)
    BY <1>2 DEF FramesExpected, CELL_VOLTAGES, CELL_TEMPERATURES
  <2> HIDE DEF items, req
  <2>4. cell_temperature_frames(items) <= MaxFrames
    BY <1>2, <2>2 DEF ReplyFits, req, CELL_VOLTAGES, CELL_TEMPERATURES
  <2>5. cell_temperature_frames(items) <= 3 /\ cell_temperature_frames(items) \in Byte
    <3>1. 7 \in 1..7 /\ 3 \in Byte
      BY DEF Byte
    <3> QED
      BY <2>2, <3>1, FramesForFits, FramesForRange DEF cell_temperature_frames
  <2>6. Paged(b)
    BY <1>2 DEF req, Paged, Multi, Streaming, multiframe_info, Layout, CELL_VOLTAGES,
         CELL_TEMPERATURES, FAULT_RECORDS, ManufacturerName, LongText, Versions
  <2> QED
    BY <2>3, <2>4, <2>5, <2>6 DEF MAX_FRAME_INDEX, Byte
<1>3. CASE req.id \notin {CELL_VOLTAGES, CELL_TEMPERATURES}
  <2>1. FramesExpected(b) = multiframe_info(req.id).frame_count
    BY <1>3 DEF FramesExpected
  <2>2. PICK count \in IF req.hint # 0 THEN {req.hint} ELSE Byte : TRUE
    BY <1>0
  <2>3. multiframe_info(req.id).frame_count <= MaxFrames
    BY <1>3, <2>2 DEF ReplyFits
  <2>4. multiframe_info(req.id).frame_count \in {0, 2, 3, 5}
    BY DEF multiframe_info, Layout
  <2>5. multiframe_info(req.id).frame_count # 0 => Paged(b)
    BY DEF req, Paged, Multi, Streaming, multiframe_info, Layout
  <2> QED
    BY <2>1, <2>3, <2>4, <2>5 DEF MAX_FRAME_INDEX
<1> QED
  BY <1>1, <1>2, <1>3

(* A transaction has just been started: the request is on the wire for the *)
(* first time, and the whole response timeout is left.                     *)
Opened(b) ==
    /\ b.frames_seen = 0 /\ (Paged(b) => b.seen_mask = {})
    /\ Left(b) = DEFAULT_RESPONSE_TIMEOUT_MS

(* pump(): either nothing is queued, or the oldest request is opened, one  *)
(* that was never sent before.                                             *)
LEMMA PumpOpens ==
    ASSUME NEW b, NEW n \in Nat, Traffic(b, n), b.state = "IDLE", Plugged(b), NEW c, c = pump(b)
    PROVE  /\ Plugged(c)
           /\ c.state = "IDLE" => c.sent = b.sent
           /\ c.state = "AWAITING" =>
                  /\ InHand(c) /\ Opened(c)
                  /\ c.sent.ctx # b.sent.ctx /\ c.sent.tries = 1
<1>0. /\ b \in Object /\ Sound(b, n) /\ b.queue_count \in Nat /\ b.queue_head \in Slots
      /\ b.now_ms \in Timeout /\ b.sent \in [ctx : Nat, tries : Nat]
  BY DEF Traffic, Sound, Object
<1>1. CASE b.queue_count = 0
  BY <1>1 DEF pump
<1>2. CASE b.queue_count # 0
  <2>0. b.queue_count > 0
    BY <1>0, <1>2
  <2>1. /\ SameQueue(b, c)
        /\ c.state = "AWAITING" /\ c.tx_fn = b.tx_fn /\ c.sent = Handed(b)
        /\ c.seen_mask = {} /\ c.frames_seen = 0
        /\ c.expected_frames = FramesExpected(b)
        /\ c.now_ms = b.now_ms
        /\ c.deadline_ms = (b.now_ms + b.response_timeout_ms) % ClockMod
        /\ c.response_timeout_ms = b.response_timeout_ms
        /\ c.interframe_timeout_ms = b.interframe_timeout_ms
    BY <1>0, <2>0, PumpStarts
  <2>2. Plugged(c)
    BY <2>1 DEF Plugged, SameQueue
  <2>3. ReplyFits(head(b)) /\ head(b).id # NONE
    BY <1>0 DEF Plugged, Fits, head
  <2>4. head(c) = head(b) /\ Paged(c) = Paged(b)
    BY <2>1, SameHead DEF Paged
  <2>5. head(b).ctx = n - b.queue_count + 1 /\ b.sent.ctx <= n - b.queue_count
    BY <1>0, <2>0, HeadIsFirst DEF Traffic, SentBefore, FirstOf
  <2>6. b.sent.ctx # head(b).ctx
    BY <1>0, <2>5
  <2>7. c.sent = [ctx |-> head(b).ctx, tries |-> 1]
    BY <2>1, <2>6 DEF Handed, Plugged
  <2>8. Cardinality({}) = 0
    BY FS_EmptySet
  <2>9. InHand(c)
    BY <1>0, <2>1, <2>3, <2>4, <2>7, <2>8, ExpectedFits DEF InHand
  <2>10. Left(c) = DEFAULT_RESPONSE_TIMEOUT_MS
    <3>1. b.response_timeout_ms = DEFAULT_RESPONSE_TIMEOUT_MS
      BY DEF Plugged
    <3> QED
      BY <1>0, <2>1, <3>1, LinkTimes, ArmedDistance DEF Left
  <2> QED
    BY <2>1, <2>2, <2>6, <2>7, <2>9, <2>10 DEF Opened
<1> QED
  BY <1>1, <1>2

(* So does complete(), once the request in flight is retired.              *)
LEMMA CompleteOpens ==
    ASSUME NEW b, NEW n \in Nat, Traffic(b, n), Plugged(b), NEW c, c = complete(b)
    PROVE  /\ Plugged(c)
           /\ c.state = "IDLE" => c.sent = b.sent
           /\ c.state = "AWAITING" =>
                  /\ InHand(c) /\ Opened(c)
                  /\ c.sent.ctx # b.sent.ctx /\ c.sent.tries = 1
<1> DEFINE idle == [(IF b.state = "AWAITING" THEN pop(b) ELSE b) EXCEPT !.state = "IDLE"]
<1>0. Sound(b, n) /\ b \in Object /\ b.queue_count \in Nat /\ b.sent.ctx \in Nat
  BY DEF Traffic, Sound, Object
<1>1. Sound(idle, n)
  BY <1>0, IdleSound
<1>2. /\ idle.state = "IDLE" /\ idle.sent = b.sent /\ idle.tx_fn = b.tx_fn /\ idle.queue = b.queue
      /\ SameTimeouts(b, idle)
      /\ idle.queue_count = IF b.state = "AWAITING" THEN b.queue_count - 1 ELSE b.queue_count
  BY <1>0 DEF pop, Object, SameTimeouts
<1>3. complete(b) = pump(idle)
  BY DEF complete
<1> HIDE DEF idle
<1>4. SentBefore(idle, n)
  BY <1>0, <1>2 DEF Traffic, SentBefore
<1>5. idle.tx_fn
  BY <1>2, Zenon DEF Plugged
<1>6. Traffic(idle, n)
  BY <1>1, <1>2, <1>4, <1>5, IdleTraffic, Zenon
<1>7. Plugged(idle)
  BY <1>2, Zenon DEF Plugged, SameTimeouts
<1> QED
  BY <1>2, <1>3, <1>6, <1>7, PumpOpens

(* The transaction in flight is the same, with the same frames counted.    *)
SameWait(b, c) ==
    /\ head(c) = head(b) /\ c.state = b.state /\ c.sent = b.sent
    /\ c.expected_frames = b.expected_frames
    /\ c.seen_mask = b.seen_mask /\ c.frames_seen = b.frames_seen
SameLeft(b, c) == c.now_ms = b.now_ms /\ c.deadline_ms = b.deadline_ms

(* Then so is all that is said of it.                                      *)
LEMMA SameWaitKeeps ==
    ASSUME NEW b, NEW c, SameWait(b, c), NEW l, NEW u, NEW g
    PROVE  /\ Paged(c) = Paged(b) /\ Streaming(c) = Streaming(b) /\ Out(c, l) = Out(b, l)
           /\ InHand(b) => InHand(c)
           /\ OnLine(b, l) => OnLine(c, l)
           /\ OnUart(b, l, u) => OnUart(c, l, u)
           /\ Balance(b, l, u, g) => Balance(c, l, u, g)
<1>1. Paged(c) = Paged(b) /\ Streaming(c) = Streaming(b)
  BY DEF SameWait, Paged, Multi, Streaming
<1>2. Out(c, l) = Out(b, l)
  BY DEF SameWait, Out, FrameTotal
<1>3. InHand(b) => InHand(c)
  BY <1>1 DEF SameWait, InHand
<1>4. OnLine(b, l) => OnLine(c, l)
  BY <1>1, <1>2, Zenon DEF SameWait, OnLine
<1>5. OnUart(b, l, u) => OnUart(c, l, u)
  BY <1>1, <1>2, Zenon DEF SameWait, OnUart
<1>6. Balance(b, l, u, g) => Balance(c, l, u, g)
  BY <1>1, <1>2, Zenon DEF SameWait, Balance
<1> QED
  BY <1>1, <1>2, <1>3, <1>4, <1>5, <1>6, Zenon

(* Filing a request behind the one in flight.                              *)
LEMMA FilingKeeps ==
    ASSUME NEW b, NEW n \in Nat, Sound(b, n), b.queue_count < QUEUE_CAPACITY, Plugged(b),
           NEW req \in Request, Fits(req), NEW c, c = Filing(b, req)
    PROVE  /\ Plugged(c) /\ c.state = b.state /\ c.sent = b.sent
           /\ c.expected_frames = b.expected_frames
           /\ b.queue_count > 0 => SameWait(b, c) /\ SameLeft(b, c)
<1> DEFINE at == (b.queue_head + b.queue_count) % QUEUE_CAPACITY
           queue == [b.queue EXCEPT ![at] = req]
<1>0. /\ b \in Object /\ b.queue_head \in Slots /\ b.queue \in [Slots -> Request]
      /\ b.queue_count \in 0..QUEUE_CAPACITY
  BY DEF Sound, Object
<1>1. c = [b EXCEPT !.queue = queue, !.queue_count = b.queue_count + 1]
  BY <1>0 DEF Filing, Object
<1>2. at \in Slots /\ at = IF b.queue_head + b.queue_count < QUEUE_CAPACITY
                           THEN b.queue_head + b.queue_count
                           ELSE b.queue_head + b.queue_count - QUEUE_CAPACITY
  BY <1>0, SlotIndex
<1>3. /\ c.queue = queue /\ c.queue_head = b.queue_head /\ c.state = b.state /\ c.sent = b.sent
      /\ c.expected_frames = b.expected_frames /\ c.seen_mask = b.seen_mask
      /\ c.frames_seen = b.frames_seen /\ c.now_ms = b.now_ms /\ c.deadline_ms = b.deadline_ms
      /\ c.tx_fn = b.tx_fn /\ SameTimeouts(b, c)
  <2> HIDE DEF queue
  <2> QED
    BY <1>0, <1>1 DEF Object, SameTimeouts
<1> HIDE DEF at
<1>4. \A s \in Slots : Fits(queue[s])
  <2> SUFFICES ASSUME NEW s \in Slots
               PROVE  Fits(queue[s])
    OBVIOUS
  <2>1. queue[s] = IF s = at THEN req ELSE b.queue[s]
    BY <1>0
  <2> QED
    BY <2>1, Zenon DEF Plugged
<1>5. Plugged(c)
  <2> HIDE DEF queue
  <2> QED
    BY <1>3, <1>4, Zenon DEF Plugged, SameTimeouts
<1>6. ASSUME b.queue_count > 0
      PROVE  head(c) = head(b)
  <2>1. at # b.queue_head
    BY <1>0, <1>2, <1>6, CapacityAssumption DEF Slots
  <2>2. queue[b.queue_head] = b.queue[b.queue_head]
    BY <1>0, <2>1
  <2> QED
    BY <1>3, <2>2, Zenon DEF head
<1> QED
  BY <1>3, <1>5, <1>6, Zenon DEF SameWait, SameLeft

(* enqueue(): a request polled from a handler, or while another is in      *)
(* flight, changes nothing of what the line sees; any other is opened.     *)
LEMMA EnqueueOpens ==
    ASSUME NEW b, NEW n \in Nat, Traffic(b, n), b.queue_count < QUEUE_CAPACITY, Plugged(b),
           NEW req \in Request, req.ctx = n + 1, Fits(req), NEW c, c = enqueue(b, req)
    PROVE  /\ Plugged(c)
           /\ b.state = "AWAITING" => SameWait(b, c) /\ SameLeft(b, c)
           /\ b.dispatching =>
                  c.state = b.state /\ c.sent = b.sent /\ c.expected_frames = b.expected_frames
           /\ b.state = "IDLE" /\ ~b.dispatching =>
                  /\ c.state = "AWAITING" /\ InHand(c) /\ Opened(c)
                  /\ c.sent.ctx # b.sent.ctx /\ c.sent.tries = 1
<1> DEFINE filed == Filing(b, req)
<1>0. Sound(b, n) /\ b \in Object /\ b.tx_fn
  BY DEF Traffic, Sound, Plugged
<1>1. c = IF b.dispatching THEN filed ELSE pump(filed)
  BY DEF enqueue, Filing
<1>2. /\ Plugged(filed) /\ filed.state = b.state /\ filed.sent = b.sent
      /\ filed.expected_frames = b.expected_frames
      /\ b.queue_count > 0 => SameWait(b, filed) /\ SameLeft(b, filed)
  BY <1>0, FilingKeeps
<1>3. Traffic(filed, n + 1) /\ filed.queue_count = b.queue_count + 1
  BY <1>0, FilingTraffic, FilingSound
<1>4. b.state = "AWAITING" => b.queue_count > 0
  BY <1>0 DEF Sound
<1>5. b.queue_count \in Nat /\ b.state \in {"IDLE", "AWAITING"}
  BY <1>0 DEF Object
<1> HIDE DEF filed
<1>6. CASE b.state = "AWAITING"
  <2>1. c = filed
    BY <1>1, <1>2, <1>6 DEF pump
  <2> QED
    BY <1>2, <1>4, <1>6, <2>1
<1>7. CASE b.state = "IDLE" /\ b.dispatching
  BY <1>1, <1>2, <1>7
<1>8. CASE b.state = "IDLE" /\ ~b.dispatching
  <2>1. c = pump(filed) /\ n + 1 \in Nat
    BY <1>1, <1>8
  <2>2. filed.queue_count > 0
    BY <1>3, <1>5
  <2>3. filed.state = "IDLE" /\ Sound(filed, n + 1)
    BY <1>2, <1>3, <1>8 DEF Traffic
  <2>4. c.state = "AWAITING"
    BY <2>1, <2>2, <2>3, PumpSends
  <2>5. /\ Plugged(c)
        /\ c.state = "AWAITING" =>
               InHand(c) /\ Opened(c) /\ c.sent.ctx # filed.sent.ctx /\ c.sent.tries = 1
    BY <1>2, <1>3, <2>1, <2>3, PumpOpens
  <2> QED
    BY <1>2, <1>8, <2>4, <2>5
<1> QED
  BY <1>5, <1>6, <1>7, <1>8

(* Counting frames by their counters.                                      *)
LEMMA MaskFacts ==
    ASSUME NEW m \in SUBSET (0..MAX_FRAME_INDEX)
    PROVE  /\ Cardinality(m) = 0 => m = {}
           /\ \A no : no \notin m => Cardinality(m \cup {no}) = Cardinality(m) + 1
<1>1. IsFiniteSet(0..16)
  BY 0 \in Int, 16 \in Int, FS_Interval, Zenon
<1>2. m \in SUBSET (0..16)
  BY DEF MAX_FRAME_INDEX
<1>3. IsFiniteSet(m)
  BY <1>1, <1>2, FS_Subset, Zenon
<1> QED
  BY <1>3, FS_EmptySet, FS_AddElement, Zenon

(* tick() with nothing heard puts the request on the wire once more, and   *)
(* the whole response timeout is left again.                               *)
LEMMA RetryOpens ==
    ASSUME bms \in Object, bms.state = "AWAITING", InHand(bms), Plugged(bms),
           bms.frames_seen = 0, bms.retries + 1 \in Byte, NEW d \in Timeout,
           NEW c, c = transmit([At(d) EXCEPT !.retries = @ + 1])
    PROVE  /\ Plugged(c) /\ c.state = "AWAITING" /\ InHand(c) /\ Opened(c)
           /\ c.expected_frames = bms.expected_frames
           /\ c.sent = [ctx |-> bms.sent.ctx, tries |-> bms.sent.tries + 1]
<1> DEFINE now == (bms.now_ms + d) % ClockMod
           more == bms.retries + 1
           again == [bms EXCEPT !.now_ms = now, !.retries = more]
           new == [ctx |-> bms.sent.ctx, tries |-> bms.sent.tries + 1]
           deadline == (now + DEFAULT_RESPONSE_TIMEOUT_MS) % ClockMod
<1>0. /\ bms.now_ms \in Timeout /\ bms.sent \in [ctx : Nat, tries : Nat]
      /\ bms.seen_mask \in SUBSET (0..MAX_FRAME_INDEX)
  BY DEF Object
<1>1. now \in Timeout
  BY <1>0, ClockRange
<1>2. [At(d) EXCEPT !.retries = @ + 1] = again
  BY DEF At, Object
<1> HIDE DEF now, more
<1>3. /\ again.tx_fn /\ again.sent = bms.sent /\ head(again) = head(bms) /\ again.now_ms = now
      /\ again.response_timeout_ms = DEFAULT_RESPONSE_TIMEOUT_MS
  BY DEF Object, head, Plugged
<1>4. transmit(again) = [again EXCEPT !.sent = new, !.deadline_ms = deadline]
  <2>1. again.sent.ctx = head(again).ctx
    BY <1>3 DEF InHand
  <2> HIDE DEF again
  <2> QED
    BY <1>3, <2>1 DEF transmit
<1> HIDE DEF new, deadline
<1>5. /\ c.sent = new /\ c.deadline_ms = deadline /\ c.now_ms = now
      /\ c.state = bms.state /\ c.queue = bms.queue /\ c.queue_head = bms.queue_head
      /\ c.expected_frames = bms.expected_frames /\ c.frames_seen = bms.frames_seen
      /\ c.seen_mask = bms.seen_mask /\ c.tx_fn = bms.tx_fn /\ SameTimeouts(bms, c)
  <2>1. c = [again EXCEPT !.sent = new, !.deadline_ms = deadline]
    BY <1>2, <1>4, Zenon
  <2> QED
    BY <2>1 DEF Object, SameTimeouts
<1>6. head(c) = head(bms) /\ Paged(c) = Paged(bms)
  BY <1>5 DEF head, Paged, Multi, Streaming
<1>7. Plugged(c)
  BY <1>5, Zenon DEF Plugged, SameTimeouts
<1>8. InHand(c)
  BY <1>0, <1>5, <1>6 DEF InHand, new
<1>9. Left(c) = DEFAULT_RESPONSE_TIMEOUT_MS
  BY <1>1, <1>5, LinkTimes, ArmedDistance DEF Left, deadline
<1>10. Paged(bms) => bms.seen_mask = {}
  BY <1>0, MaskFacts DEF InHand
<1> QED
  BY <1>5, <1>6, <1>7, <1>8, <1>9, <1>10 DEF Opened, new

-----------------------------------------------------------------------------
(* The pack and the line.                                                  *)

(* A frame of the pack is a frame of the protocol.                         *)
LEMMA DatagramType ==
    ASSUME NEW id \in Byte, NEW first \in Byte
    PROVE  /\ Datagram(id, first) \in [src : {BmsAddress}, id : Byte, data : Data]
           /\ Datagram(id, first).id = id /\ Datagram(id, first).data[0] = first
<1> DEFINE data == [i \in 0..7 |-> IF i = 0 THEN first ELSE 0]
<1>1. data \in Data /\ data[0] = first
  BY DEF Data, Byte
<1>2. Datagram(id, first) = [src |-> BmsAddress, id |-> id, data |-> data]
  BY DEF Datagram
<1> HIDE DEF data
<1> QED
  BY <1>1, <1>2

(* The reply to a request: as many frames as are awaited, numbered as the  *)
(* session counts them.                                                    *)
LEMMA ReplyFacts ==
    ASSUME NEW c \in Object, InHand(c), NEW reply \in Replies(c)
    PROVE  /\ FrameTotal(c) \in 1..MAX_FRAME_INDEX /\ FrameTotal(c) <= MaxFrames
           /\ reply = [i \in 1..FrameTotal(c) |-> reply[i]]
           /\ \A i \in 1..FrameTotal(c) :
                  /\ reply[i] \in [src : {BmsAddress}, id : Byte, data : Data]
                  /\ reply[i].id = head(c).id
                  /\ Paged(c) => reply[i].data[0] = i
                  /\ Streaming(c) => reply[i].data[0] = FRAME_NO_END
<1> DEFINE id == head(c).id
           k == FrameTotal(c)
<1>0. id \in Byte /\ c.expected_frames \in Byte
  BY HeadType DEF Request, Object
<1>1. k \in 1..MAX_FRAME_INDEX /\ k <= MaxFrames
  BY <1>0, LinkTimes DEF FrameTotal, InHand, MAX_FRAME_INDEX, Byte
<1>2. ASSUME NEW first \in Byte, reply = <<Datagram(id, first)>>, k = 1,
             Paged(c) => first = 1, Streaming(c) => first = FRAME_NO_END
      PROVE  /\ reply = [i \in 1..k |-> reply[i]]
             /\ \A i \in 1..k :
                    /\ reply[i] \in [src : {BmsAddress}, id : Byte, data : Data]
                    /\ reply[i].id = id
                    /\ Paged(c) => reply[i].data[0] = i
                    /\ Streaming(c) => reply[i].data[0] = FRAME_NO_END
  <2>1. /\ Datagram(id, first) \in [src : {BmsAddress}, id : Byte, data : Data]
        /\ Datagram(id, first).id = id /\ Datagram(id, first).data[0] = first
    BY <1>0, DatagramType
  <2>2. reply = [i \in 1..1 |-> reply[i]] /\ reply[1] = Datagram(id, first)
    BY <1>2
  <2> QED
    BY <1>2, <2>1, <2>2
<1>3. 0 \in Byte /\ 1 \in Byte /\ FRAME_NO_END \in Byte
  BY DEF Byte, FRAME_NO_END
<1>4. CASE id \in MosControl
  <2>1. ~Paged(c) /\ ~Streaming(c)
    BY <1>4 DEF Paged, Multi, Streaming, multiframe_info, Layout, CELL_VOLTAGES, MosControl,
         DISCHARGE_MOS_CONTROL, CHARGE_MOS_CONTROL, CELL_TEMPERATURES, FAULT_RECORDS,
         ManufacturerName, LongText, Versions
  <2>2. k = 1
    BY <2>1 DEF InHand, FrameTotal
  <2>3. reply \in {<<Datagram(id, 0)>>, <<Datagram(id, 1)>>}
    <3>1. c.expected_frames = 0
      BY <2>1 DEF InHand
    <3> QED
      BY <1>4, <3>1
      DEF Replies, MosControl, DISCHARGE_MOS_CONTROL, CHARGE_MOS_CONTROL, FAULT_RECORDS
  <2> QED
    BY <1>1, <1>2, <1>3, <2>1, <2>2, <2>3
<1>5. CASE id = FAULT_RECORDS
  <2>1. ~Paged(c) /\ Streaming(c)
    BY <1>5 DEF Paged, Multi, Streaming, multiframe_info, Layout, CELL_VOLTAGES,
         CELL_TEMPERATURES, FAULT_RECORDS, ManufacturerName, LongText, Versions
  <2>2. k = 1
    BY <2>1 DEF InHand, FrameTotal
  <2>3. reply \in {<<Datagram(id, FRAME_NO_END)>>}
    <3>1. c.expected_frames = 0
      BY <2>1 DEF InHand
    <3> QED
      BY <1>5, <3>1
      DEF Replies, MosControl, DISCHARGE_MOS_CONTROL, CHARGE_MOS_CONTROL, FAULT_RECORDS
  <2> QED
    BY <1>1, <1>2, <1>3, <2>1, <2>2, <2>3
<1>6. CASE id \notin MosControl /\ id # FAULT_RECORDS
  <2>1. ~Streaming(c)
    BY <1>6 DEF Streaming, multiframe_info, Layout
  <2>2. CASE c.expected_frames > 0
    <3>1. reply = [i \in 1..k |-> Datagram(id, i)]
      BY <1>6, <2>2 DEF Replies, FrameTotal
    <3>2. ASSUME NEW i \in 1..k
          PROVE  /\ reply[i] \in [src : {BmsAddress}, id : Byte, data : Data]
                 /\ reply[i].id = id /\ reply[i].data[0] = i
      <4>1. i \in Byte
        BY <1>1 DEF Byte, MAX_FRAME_INDEX
      <4>2. reply[i] = Datagram(id, i)
        BY <3>1
      <4> QED
        BY <1>0, <4>1, <4>2, DatagramType
    <3>3. reply = [i \in 1..k |-> reply[i]]
      BY <3>1
    <3> QED
      BY <1>1, <2>1, <3>2, <3>3
  <2>3. CASE ~(c.expected_frames > 0)
    <3>1. reply \in {<<Datagram(id, 1)>>} /\ k = 1
      BY <1>6, <2>3 DEF Replies, FrameTotal
    <3> QED
      BY <1>1, <1>2, <1>3, <2>1, <3>1
  <2> QED
    BY <2>2, <2>3
<1> QED
  BY <1>4, <1>5, <1>6

(* When a request goes out on a free line the whole reply is in the pack,  *)
(* and the response timeout covers it, however old now_ms_ is.             *)
LEMMA ReplyOpens ==
    ASSUME NEW c \in Object, InHand(c), Opened(c), NEW reply \in Replies(c),
           NEW l, l = [i \in DOMAIN reply |-> [frame |-> reply[i], of |-> c.sent,
                                               within |-> IF i = 1 THEN MaxDelay ELSE MaxGap]],
           NEW g, NEW p, NEW a \in 0..LoopPeriod
    PROVE  /\ l \in Seq(Packet)
           /\ OnLine(c, l) /\ OnUart(c, l, <<>>) /\ Balance(c, l, <<>>, g)
           /\ InTime(c, l, <<>>, p, a, 0)
<1> DEFINE k == FrameTotal(c)
<1>1. /\ k \in 1..MAX_FRAME_INDEX /\ k <= MaxFrames
      /\ reply = [i \in 1..k |-> reply[i]]
      /\ \A i \in 1..k :
             /\ reply[i] \in [src : {BmsAddress}, id : Byte, data : Data]
             /\ reply[i].id = head(c).id
             /\ Paged(c) => reply[i].data[0] = i
             /\ Streaming(c) => reply[i].data[0] = FRAME_NO_END
  BY ReplyFacts
<1> HIDE DEF k
<1>2. k \in Nat /\ k >= 1
  BY <1>1 DEF MAX_FRAME_INDEX
<1>3. DOMAIN reply = 1..k
  BY <1>1
<1>4. c.sent \in [ctx : Nat, tries : Nat] /\ MaxDelay \in Nat /\ MaxGap \in Nat
  BY LinkTimes DEF Object
<1>5. \A i \in 1..k : l[i] = [frame |-> reply[i], of |-> c.sent,
                              within |-> IF i = 1 THEN MaxDelay ELSE MaxGap]
  BY <1>3
<1>6. \A i \in 1..k : l[i] \in Packet
  BY <1>1, <1>4, <1>5 DEF Packet
<1>7. l \in Seq(Packet) /\ Len(l) = k
  <2>1. l = [i \in 1..k |-> l[i]]
    BY <1>3
  <2>2. l \in [1..k -> Packet]
    BY <1>6, <2>1
  <2> QED
    BY <1>2, <2>2
<1>8. Out(c, l) = 0
  BY <1>2, <1>7 DEF Out, k
<1>9. OnLine(c, l)
  BY <1>1, <1>2, <1>5, <1>7, <1>8 DEF OnLine
<1>10. OnUart(c, l, <<>>)
  BY DEF OnUart
<1>11. Balance(c, l, <<>>, g)
  BY <1>8 DEF Balance, Opened
<1>12. InTime(c, l, <<>>, p, a, 0)
  <2>1. l[1].within = MaxDelay /\ l # <<>>
    BY <1>2, <1>5, <1>7
  <2>2. k - 1 \in Nat /\ (k - 1) + 1 <= MaxFrames
    BY <1>1, <1>2, LinkTimes
  <2>3. /\ (k - 1) * MaxGap \in Nat
        /\ a + (MaxDelay + (k - 1) * MaxGap) + LoopPeriod < DEFAULT_RESPONSE_TIMEOUT_MS
    BY <2>2, Covered
  <2> DEFINE some == (k - 1) * MaxGap
  <2>4. Rest(l, 0) = (MaxDelay - 0) + some
    BY <1>7, <2>1 DEF Rest
  <2>5. some \in Nat /\ a + (MaxDelay + some) + LoopPeriod < DEFAULT_RESPONSE_TIMEOUT_MS
    BY <2>3
  <2> HIDE DEF some
  <2>6. a + Rest(l, 0) + LoopPeriod < Left(c) /\ Left(c) <= Half
    BY <1>4, <2>4, <2>5, LinkTimes, HalfClock DEF Opened
  <2> QED
    BY <1>4, <2>1, <2>6 DEF InTime
<1> QED
  BY <1>7, <1>9, <1>10, <1>11, <1>12

(* Taking the first element off a sequence.                                *)
LEMMA TakeFirst ==
    ASSUME NEW S, NEW s \in Seq(S), s # <<>>
    PROVE  /\ Len(s) \in Nat /\ Len(s) >= 1 /\ 1 \in 1..Len(s) /\ Head(s) = s[1] /\ s[1] \in S
           /\ Tail(s) \in Seq(S) /\ Len(Tail(s)) = Len(s) - 1
           /\ \A i \in 1..Len(Tail(s)) : Tail(s)[i] = s[i + 1] /\ i + 1 \in 1..Len(s)
<1>1. Len(s) \in Nat /\ Len(s) # 0
  BY EmptySeq
<1>2. Len(s) >= 1 /\ 1 \in 1..Len(s)
  BY <1>1
<1>3. Head(s) = s[1] /\ s[1] \in S
  BY <1>2, ElementOfSeq
<1>4. Tail(s) \in Seq(S) /\ Len(Tail(s)) = Len(s) - 1
  BY HeadTailProperties
<1>5. \A i \in 1..Len(Tail(s)) : Tail(s)[i] = s[i + 1]
  BY HeadTailProperties
<1>6. \A i \in 1..Len(Tail(s)) : i + 1 \in 1..Len(s)
  BY <1>1, <1>4
<1> QED
  BY <1>1, <1>2, <1>3, <1>4, <1>5, <1>6

(* The time left is a time.                                                *)
LEMMA LeftType ==
    ASSUME NEW b \in Object
    PROVE  Left(b) \in Int
<1>1. b.deadline_ms \in 0..(ClockMod - 1) /\ b.now_ms \in 0..(ClockMod - 1)
  BY DEF Object, Timeout
<1>2. ClockMod \in Nat /\ ClockMod > 0
  BY ClockAssumption
<1> DEFINE x == b.deadline_ms - b.now_ms
<1>3. x \in (-ClockMod)..(2 * ClockMod - 1)
  BY <1>1, <1>2
<1>4. Left(b) = x % ClockMod
  BY DEF Left
<1> HIDE DEF x
<1>5. x % ClockMod = IF x < 0 THEN x + ClockMod ELSE IF x < ClockMod THEN x ELSE x - ClockMod
  BY <1>2, <1>3, Turn
<1> QED
  BY <1>2, <1>3, <1>4, <1>5

(* The counts are numbers.                                                 *)
LEMMA CountsType ==
    ASSUME NEW b \in Object
    PROVE  FrameTotal(b) \in Nat /\ FrameTotal(b) >= 1 /\ b.frames_seen \in Nat
<1>1. b.expected_frames \in Byte /\ b.frames_seen \in Byte
  BY DEF Object
<1> QED
  BY <1>1 DEF FrameTotal, Byte

(* The frame at the head of the line leaves the pack.                      *)
LEMMA FrameLeaves ==
    ASSUME NEW b \in Object, InHand(b), NEW l \in Seq(Packet), l # <<>>, NEW u \in Seq(Packet),
           OnLine(b, l), OnUart(b, l, u), NEW g, Balance(b, l, u, g)
    PROVE  /\ Tail(l) \in Seq(Packet) /\ Len(Tail(l)) = Len(l) - 1
           /\ Out(b, l) \in Nat /\ Out(b, Tail(l)) = Out(b, l) + 1
           /\ b.frames_seen \in Nat
           /\ OnLine(b, Tail(l)) /\ OnUart(b, Tail(l), u)
           /\ Paged(b) => b.seen_mask \subseteq 1..Out(b, l)
<1> DEFINE t == Tail(l)
<1>1. Len(l) \in Nat /\ Len(l) > 0 /\ Len(u) \in Nat
  BY TakeFirst
<1>2. t \in Seq(Packet) /\ Len(t) = Len(l) - 1 /\ \A i \in 1..Len(t) : t[i] = l[i + 1]
  BY TakeFirst
<1>3. FrameTotal(b) \in Int /\ b.frames_seen \in Nat
  BY CountsType
<1> HIDE DEF t
<1>4. Out(b, l) \in Nat /\ Out(b, t) = Out(b, l) + 1
  BY <1>1, <1>2, <1>3 DEF Out, Balance
<1>5. OnLine(b, t)
  <2> SUFFICES ASSUME NEW i \in 1..Len(t)
               PROVE  /\ t[i].of = b.sent /\ t[i].frame.id = head(b).id
                      /\ t[i].within = IF Out(b, t) + i = 1 THEN MaxDelay ELSE MaxGap
                      /\ Paged(b) => t[i].frame.data[0] = Out(b, t) + i
                      /\ Streaming(b) => t[i].frame.data[0] = FRAME_NO_END
    BY DEF OnLine
  <2>1. i + 1 \in 1..Len(l) /\ t[i] = l[i + 1]
    BY <1>1, <1>2
  <2>2. Out(b, t) + i = Out(b, l) + (i + 1)
    BY <1>1, <1>2, <1>4
  <2> QED
    BY <2>1, <2>2 DEF OnLine
<1>6. OnUart(b, t, u)
  <2>1. 1..Out(b, l) \subseteq 1..Out(b, t)
    BY <1>4
  <2> QED
    BY <2>1 DEF OnUart
<1>7. Paged(b) => b.seen_mask \subseteq 1..Out(b, l)
  BY DEF Balance
<1> QED
  BY <1>2, <1>3, <1>4, <1>5, <1>6, <1>7 DEF t

(* It is lost.                                                             *)
LEMMA LostBooks ==
    ASSUME NEW b \in Object, InHand(b), NEW l \in Seq(Packet), l # <<>>, NEW u \in Seq(Packet),
           OnLine(b, l), OnUart(b, l, u), NEW g, Balance(b, l, u, g)
    PROVE  Balance(b, Tail(l), u, g \cup {Head(l).of})
<1>1. /\ Out(b, l) \in Nat /\ Out(b, Tail(l)) = Out(b, l) + 1 /\ b.frames_seen \in Nat
      /\ Len(u) \in Nat
  BY FrameLeaves
<1>2. Head(l).of = b.sent
  BY DEF OnLine
<1>3. b.frames_seen + Len(u) <= Out(b, Tail(l))
  BY <1>1 DEF Balance
<1>4. Paged(b) => b.seen_mask \subseteq 1..Out(b, Tail(l))
  <2>1. 1..Out(b, l) \subseteq 1..Out(b, Tail(l))
    BY <1>1
  <2> QED
    BY <2>1 DEF Balance
<1> QED
  BY <1>2, <1>3, <1>4 DEF Balance

(* It arrives, as it is or with a byte wrong.                              *)
LEMMA ArrivalBooks ==
    ASSUME NEW b \in Object, InHand(b), NEW l \in Seq(Packet), l # <<>>, NEW u \in Seq(Packet),
           OnLine(b, l), OnUart(b, l, u), NEW g, Balance(b, l, u, g), NEW q \in Packet,
           q.frame.id = NONE => b.sent \in g,
           q.of = Head(l).of, q.frame.id \in {NONE, Head(l).frame.id},
           q.frame.data = Head(l).frame.data
    PROVE  OnUart(b, Tail(l), Append(u, q)) /\ Balance(b, Tail(l), Append(u, q), g)
<1> DEFINE t == Tail(l)
           v == Append(u, q)
           no == q.frame.data[0]
<1>1. /\ Out(b, l) \in Nat /\ Out(b, t) = Out(b, l) + 1 /\ b.frames_seen \in Nat
      /\ OnUart(b, t, u) /\ Len(u) \in Nat
      /\ Paged(b) => b.seen_mask \subseteq 1..Out(b, l)
  BY FrameLeaves
<1>2. /\ Len(v) = Len(u) + 1 /\ v[Len(u) + 1] = q
      /\ \A i \in 1..Len(u) : v[i] = u[i]
  OBVIOUS
<1>3. l[1] = Head(l) /\ 1 \in 1..Len(l)
  BY TakeFirst
<1>4. /\ q.of = b.sent /\ q.frame.id \in {NONE, head(b).id}
      /\ Paged(b) => no = Out(b, l) + 1
      /\ Streaming(b) => no = FRAME_NO_END
  BY <1>3 DEF OnLine
<1> HIDE DEF t, v, no
<1>5. Paged(b) => no \in 1..Out(b, t) /\ no \notin b.seen_mask
  BY <1>1, <1>4
<1>6. ASSUME Paged(b), NEW i \in 1..Len(u)
      PROVE  v[i].frame.data[0] \in 1..Out(b, l) /\ v[i].frame.data[0] # no
  <2>1. v[i].frame.data[0] \in 1..Out(b, l)
    <3>1. v[i] = u[i]
      BY <1>2
    <3> QED
      BY <1>6, <3>1, Zenon DEF OnUart
  <2>2. no = Out(b, l) + 1
    BY <1>4, <1>6
  <2> QED
    BY <1>1, <2>1, <2>2
<1>7. OnUart(b, t, v)
  <2> SUFFICES ASSUME NEW i \in 1..Len(v)
               PROVE  /\ v[i].of = b.sent /\ v[i].frame.id \in {NONE, head(b).id}
                      /\ Paged(b) =>
                             /\ v[i].frame.data[0] \in 1..Out(b, t)
                             /\ v[i].frame.data[0] \notin b.seen_mask
                             /\ \A j \in 1..Len(v) :
                                    i # j => v[j].frame.data[0] # v[i].frame.data[0]
                      /\ Streaming(b) => v[i].frame.data[0] = FRAME_NO_END
    BY DEF OnUart
  <2>1. i \in 1..Len(u) \/ i = Len(u) + 1
    BY <1>1, <1>2
  <2>2. \A j \in 1..Len(v) : j \in 1..Len(u) \/ j = Len(u) + 1
    BY <1>1, <1>2
  <2>3. CASE i \in 1..Len(u)
    <3>1. v[i] = u[i]
      BY <1>2, <2>3
    <3>2. /\ v[i].of = b.sent /\ v[i].frame.id \in {NONE, head(b).id}
          /\ Streaming(b) => v[i].frame.data[0] = FRAME_NO_END
          /\ Paged(b) => v[i].frame.data[0] \in 1..Out(b, t) /\ v[i].frame.data[0] \notin b.seen_mask
      BY <1>1, <2>3, <3>1, Zenon DEF OnUart
    <3>3. ASSUME Paged(b), NEW j \in 1..Len(v), i # j
          PROVE  v[j].frame.data[0] # v[i].frame.data[0]
      <4>1. CASE j \in 1..Len(u)
        <5>1. v[j] = u[j]
          BY <1>2, <4>1
        <5> QED
          BY <1>1, <2>3, <3>1, <3>3, <4>1, <5>1, Zenon DEF OnUart
      <4>2. CASE j = Len(u) + 1
        <5>1. v[j].frame.data[0] = no
          BY <1>2, <4>2 DEF no
        <5> QED
          BY <1>6, <2>3, <3>3, <5>1
      <4> QED
        BY <2>2, <3>3, <4>1, <4>2
    <3> QED
      BY <3>2, <3>3, Zenon
  <2>4. CASE i = Len(u) + 1
    <3>1. v[i] = q /\ v[i].frame.data[0] = no
      BY <1>2, <2>4 DEF no
    <3>2. ASSUME Paged(b), NEW j \in 1..Len(v), i # j
          PROVE  v[j].frame.data[0] # v[i].frame.data[0]
      <4>1. j \in 1..Len(u)
        BY <2>2, <2>4, <3>2
      <4> QED
        BY <1>6, <3>1, <3>2, <4>1
    <3> QED
      BY <1>4, <1>5, <3>1, <3>2, Zenon
  <2> QED
    BY <2>1, <2>3, <2>4
<1>8. Balance(b, t, v, g)
  <2>1. 1..Out(b, l) \subseteq 1..Out(b, t)
    BY <1>1
  <2>2. Paged(b) => b.seen_mask \subseteq 1..Out(b, t)
    BY <1>1, <2>1
  <2>3. /\ b.frames_seen + Len(u) <= Out(b, l)
        /\ b.sent \notin g => b.frames_seen + Len(u) = Out(b, l)
    BY DEF Balance
  <2>4. /\ b.frames_seen + Len(v) <= Out(b, t)
        /\ b.sent \notin g => b.frames_seen + Len(v) = Out(b, t)
    BY <1>1, <1>2, <2>3
  <2>5. \A i \in 1..Len(v) : v[i].frame.id = NONE => b.sent \in g
    <3> SUFFICES ASSUME NEW i \in 1..Len(v), v[i].frame.id = NONE
                 PROVE  b.sent \in g
      OBVIOUS
    <3>1. CASE i \in 1..Len(u)
      <4>1. v[i] = u[i]
        BY <1>2, <3>1
      <4> QED
        BY <3>1, <4>1, Zenon DEF Balance
    <3>2. CASE i = Len(u) + 1
      <4>1. v[i] = q
        BY <1>2, <3>2
      <4> QED
        BY <4>1, Zenon
    <3> QED
      BY <1>1, <1>2, <3>1, <3>2
  <2> QED
    BY <2>2, <2>4, <2>5 DEF Balance
<1> QED
  BY <1>7, <1>8 DEF t, v

(* Less is left to come, and there is time to read what has come.          *)
LEMMA RestShrinks ==
    ASSUME NEW b \in Object, InHand(b), NEW l \in Seq(Packet), l # <<>>, NEW u \in Seq(Packet),
           OnLine(b, l), OnUart(b, l, u), NEW g, Balance(b, l, u, g),
           NEW p, NEW a \in 0..LoopPeriod, NEW w \in Nat, InTime(b, l, u, p, a, w)
    PROVE  \A v : InTime(b, Tail(l), v, p, a, 0)
<1> DEFINE t == Tail(l)
           some == (Len(l) - 1) * MaxGap
<1>1. /\ Len(l) \in Nat /\ Len(l) >= 1 /\ Len(t) = Len(l) - 1 /\ Len(t) \in Nat
      /\ \A i \in 1..Len(t) : t[i] = l[i + 1]
      /\ OnLine(b, t) /\ Out(b, t) \in Nat /\ Out(b, t) >= 1
  BY TakeFirst, FrameLeaves
<1>2. /\ LoopPeriod \in Nat /\ MaxGap \in Nat /\ Half \in Nat /\ ClockMod \in Nat /\ ClockMod > 0
  BY LinkTimes, HalfClock, ClockAssumption
<1>3. some \in Nat
  BY <1>1, <1>2, Gaps
<1>4. l[1].within \in Nat
  <2>1. l[1] \in Packet
    BY TakeFirst
  <2> QED
    BY <2>1 DEF Packet
<1>5. Rest(l, w) = (l[1].within - w) + some
  BY DEF Rest
<1>6. w <= l[1].within /\ a + Rest(l, w) + LoopPeriod < Left(b) /\ Left(b) <= Half
  BY DEF InTime
<1>7. Left(b) \in Int
  BY LeftType
<1> HIDE DEF t, some
<1>8. a + some + LoopPeriod < Left(b) /\ LoopPeriod < Left(b)
  <2>1. ASSUME NEW x \in Nat, NEW s \in Nat, NEW left \in Int, w <= x,
               a + ((x - w) + s) + LoopPeriod < left
        PROVE  a + s + LoopPeriod < left /\ LoopPeriod < left
    BY <1>2, <2>1
  <2> QED
    BY <1>3, <1>4, <1>5, <1>6, <1>7, <2>1
<1>9. ASSUME t # <<>>
      PROVE  0 <= t[1].within /\ Rest(t, 0) = some
  <2>1. 1 \in 1..Len(t) /\ Len(t) - 1 \in Nat
    BY <1>1, <1>9, FrameLeaves, TakeFirst DEF t
  <2>2. t[1].within = MaxGap
    BY <1>1, <2>1 DEF OnLine
  <2>3. ((Len(t) - 1) + 1) * MaxGap = (Len(t) - 1) * MaxGap + MaxGap /\ (Len(t) - 1) * MaxGap \in Nat
    BY <1>2, <2>1, Gaps
  <2>4. some = ((Len(t) - 1) + 1) * MaxGap
    BY <1>1 DEF some
  <2> DEFINE rest == (Len(t) - 1) * MaxGap
  <2>5. Rest(t, 0) = (MaxGap - 0) + rest /\ rest \in Nat /\ some = rest + MaxGap
    BY <2>2, <2>3, <2>4 DEF Rest
  <2> HIDE DEF rest
  <2> QED
    BY <1>2, <2>2, <2>5
<1> QED
  BY <1>6, <1>8, <1>9 DEF InTime, t

(* Losing more changes no book.                                            *)
LEMMA LosingMore ==
    ASSUME NEW b, NEW l, NEW u, NEW g, NEW h, g \subseteq h, Balance(b, l, u, g)
    PROVE  Balance(b, l, u, h)
BY DEF Balance

(* The first of what has arrived is read: what is left is as before.       *)
LEMMA ReadLeaves ==
    ASSUME NEW b, NEW l, NEW u \in Seq(Packet), u # <<>>, OnUart(b, l, u)
    PROVE  /\ Tail(u) \in Seq(Packet) /\ Len(Tail(u)) = Len(u) - 1 /\ Len(u) \in Nat
           /\ OnUart(b, l, Tail(u))
           /\ Head(u).of = b.sent /\ Head(u).frame.id \in {NONE, head(b).id}
           /\ Streaming(b) => Head(u).frame.data[0] = FRAME_NO_END
           /\ Paged(b) =>
                  /\ Head(u).frame.data[0] \in 1..Out(b, l)
                  /\ Head(u).frame.data[0] \notin b.seen_mask
                  /\ \A i \in 1..Len(Tail(u)) : Tail(u)[i].frame.data[0] # Head(u).frame.data[0]
<1> DEFINE t == Tail(u)
<1>1. /\ t \in Seq(Packet) /\ Len(t) = Len(u) - 1 /\ Len(u) \in Nat /\ 1 \in 1..Len(u)
      /\ Head(u) = u[1]
      /\ \A i \in 1..Len(t) : t[i] = u[i + 1] /\ i + 1 \in 1..Len(u)
  BY TakeFirst
<1>2. \A i, j \in 1..Len(t) : i # j => i + 1 # j + 1
  OBVIOUS
<1>3. \A i \in 1..Len(t) : i + 1 # 1
  OBVIOUS
<1> HIDE DEF t
<1>4. OnUart(b, l, t)
  <2> SUFFICES ASSUME NEW i \in 1..Len(t)
               PROVE  /\ t[i].of = b.sent /\ t[i].frame.id \in {NONE, head(b).id}
                      /\ Paged(b) =>
                             /\ t[i].frame.data[0] \in 1..Out(b, l)
                             /\ t[i].frame.data[0] \notin b.seen_mask
                             /\ \A j \in 1..Len(t) : i # j => t[j].frame.data[0] # t[i].frame.data[0]
                      /\ Streaming(b) => t[i].frame.data[0] = FRAME_NO_END
    BY Zenon DEF OnUart
  <2>1. t[i] = u[i + 1] /\ i + 1 \in 1..Len(u)
    BY <1>1
  <2>2. /\ u[i + 1].of = b.sent /\ u[i + 1].frame.id \in {NONE, head(b).id}
        /\ Paged(b) =>
               /\ u[i + 1].frame.data[0] \in 1..Out(b, l)
               /\ u[i + 1].frame.data[0] \notin b.seen_mask
               /\ \A j \in 1..Len(u) : i + 1 # j => u[j].frame.data[0] # u[i + 1].frame.data[0]
        /\ Streaming(b) => u[i + 1].frame.data[0] = FRAME_NO_END
    BY <2>1, Zenon DEF OnUart
  <2>3. ASSUME Paged(b), NEW j \in 1..Len(t), i # j
        PROVE  t[j].frame.data[0] # t[i].frame.data[0]
    <3>1. t[j] = u[j + 1] /\ j + 1 \in 1..Len(u) /\ i + 1 # j + 1
      BY <1>1, <1>2, <2>3
    <3> QED
      BY <2>1, <2>2, <2>3, <3>1
  <2> QED
    BY <2>1, <2>2, <2>3
<1>5. /\ Head(u).of = b.sent /\ Head(u).frame.id \in {NONE, head(b).id}
      /\ Streaming(b) => Head(u).frame.data[0] = FRAME_NO_END
      /\ Paged(b) =>
             /\ Head(u).frame.data[0] \in 1..Out(b, l)
             /\ Head(u).frame.data[0] \notin b.seen_mask
             /\ \A i \in 1..Len(t) : t[i].frame.data[0] # Head(u).frame.data[0]
  BY <1>1, <1>3, Zenon DEF OnUart
<1> QED
  BY <1>1, <1>4, <1>5 DEF t

(* A corrupt frame is read, and nothing is counted.                        *)
LEMMA CorruptBooks ==
    ASSUME NEW b \in Object, NEW l \in Seq(Packet), NEW u \in Seq(Packet), u # <<>>,
           OnUart(b, l, u), NEW g, Balance(b, l, u, g), Head(u).frame.id = NONE
    PROVE  Balance(b, l, Tail(u), g)
<1> DEFINE t == Tail(u)
<1>1. /\ Len(t) = Len(u) - 1 /\ Len(u) \in Nat /\ 1 \in 1..Len(u) /\ Head(u) = u[1]
      /\ \A i \in 1..Len(t) : t[i] = u[i + 1] /\ i + 1 \in 1..Len(u)
  BY TakeFirst
<1>2. b.frames_seen \in Nat /\ Out(b, l) \in Int
  BY CountsType DEF Out
<1> HIDE DEF t
<1>3. b.sent \in g
  BY <1>1, Zenon DEF Balance
<1>4. b.frames_seen + Len(t) <= Out(b, l)
  BY <1>1, <1>2 DEF Balance
<1> QED
  BY <1>3, <1>4 DEF Balance, t

(* A frame that has arrived is the last one outstanding when the reply is  *)
(* one of a single frame, or when with it all frames are in.               *)
LEMMA LastIsLast ==
    ASSUME NEW b \in Object, NEW l \in Seq(Packet), NEW u \in Seq(Packet), u # <<>>,
           NEW g, Balance(b, l, u, g), b.frames_seen + 1 >= FrameTotal(b)
    PROVE  l = <<>> /\ Tail(u) = <<>>
<1>1. Len(u) \in Nat /\ Len(u) >= 1 /\ Tail(u) \in Seq(Packet) /\ Len(Tail(u)) = Len(u) - 1
  BY TakeFirst
<1>2. b.frames_seen \in Nat /\ FrameTotal(b) \in Nat /\ Len(l) \in Nat
  BY CountsType
<1>3. b.frames_seen + Len(u) <= FrameTotal(b) - Len(l)
  BY DEF Balance, Out
<1>4. Len(l) = 0 /\ Len(Tail(u)) = 0
  BY <1>1, <1>2, <1>3
<1> QED
  BY <1>1, <1>4, EmptySeq

(* A frame is read and filed, and more are awaited: the inter-frame        *)
(* timeout covers what is still to come.                                   *)
LEMMA FiledBooks ==
    ASSUME NEW b \in Object, InHand(b), Paged(b), Plugged(b),
           NEW l \in Seq(Packet), NEW u \in Seq(Packet), u # <<>>,
           OnLine(b, l), OnUart(b, l, u), NEW g, Balance(b, l, u, g),
           Head(u).frame.id # NONE,
           NEW a \in 0..LoopPeriod, NEW w \in Nat, l # <<>> => w <= l[1].within,
           NEW no, no = Head(u).frame.data[0], NEW c, c = await_next_frame(FileFrame(b, no))
    PROVE  /\ c.frames_seen = b.frames_seen + 1 /\ InHand(c) /\ Plugged(c)
           /\ c.sent = b.sent /\ c.state = b.state /\ c.expected_frames = b.expected_frames
           /\ OnLine(c, l) /\ OnUart(c, l, Tail(u)) /\ Balance(c, l, Tail(u), g)
           /\ InTime(c, l, Tail(u), "read", a, w)
<1> DEFINE mask == b.seen_mask \cup {no}
           t == Tail(u)
           filed == FileFrame(b, no)
           deadline == (b.now_ms + b.interframe_timeout_ms) % ClockMod
<1>0. /\ b.seen_mask \in SUBSET (0..MAX_FRAME_INDEX) /\ b.now_ms \in Timeout
      /\ b.interframe_timeout_ms = DEFAULT_INTERFRAME_TIMEOUT_MS
  BY DEF Object, Plugged
<1>1. /\ t \in Seq(Packet) /\ Len(t) = Len(u) - 1 /\ Len(u) \in Nat /\ OnUart(b, l, t)
      /\ no \in 1..Out(b, l) /\ no \notin b.seen_mask
      /\ \A i \in 1..Len(t) : t[i].frame.data[0] # no
      /\ 1 \in 1..Len(u) /\ \A i \in 1..Len(t) : t[i] = u[i + 1] /\ i + 1 \in 1..Len(u)
  BY ReadLeaves, TakeFirst
<1>2. b.frames_seen \in Nat /\ FrameTotal(b) \in Nat /\ Len(l) \in Nat /\ Out(b, l) \in Int
  BY CountsType DEF Out
<1>3. Cardinality(mask) = b.frames_seen + 1
  BY <1>0, <1>1, MaskFacts DEF InHand
<1>4. c = [b EXCEPT !.seen_mask = mask, !.frames_seen = Cardinality(mask),
                    !.heard = b.heard + 1, !.deadline_ms = deadline]
  BY DEF await_next_frame, FileFrame, Object
<1> HIDE DEF mask, deadline
<1>5. /\ c.seen_mask = mask /\ c.frames_seen = b.frames_seen + 1 /\ c.deadline_ms = deadline
      /\ c.now_ms = b.now_ms /\ c.sent = b.sent /\ c.state = b.state /\ c.queue = b.queue
      /\ c.queue_head = b.queue_head /\ c.expected_frames = b.expected_frames
      /\ c.tx_fn = b.tx_fn /\ SameTimeouts(b, c)
  BY <1>3, <1>4 DEF Object, SameTimeouts
<1>6. head(c) = head(b) /\ Paged(c) = Paged(b) /\ Streaming(c) = Streaming(b) /\ Out(c, l) = Out(b, l)
  BY <1>5 DEF head, Paged, Multi, Streaming, Out, FrameTotal
<1> HIDE DEF t
<1>7. InHand(c)
  BY <1>3, <1>5, <1>6 DEF InHand
<1>8. Plugged(c)
  BY <1>5, Zenon DEF Plugged, SameTimeouts
<1>9. OnLine(c, l)
  BY <1>5, <1>6, Zenon DEF OnLine
<1>10. OnUart(c, l, t)
  BY <1>1, <1>5, <1>6 DEF OnUart, mask
<1>11. Balance(c, l, t, g)
  <2>1. mask \subseteq 1..Out(b, l)
    BY <1>1 DEF Balance, mask
  <2>2. \A i \in 1..Len(t) : t[i].frame.id = NONE => b.sent \in g
    BY <1>1, Zenon DEF Balance
  <2>3. /\ b.frames_seen + Len(u) <= Out(b, l)
        /\ b.sent \notin g => b.frames_seen + Len(u) = Out(b, l)
    BY DEF Balance
  <2>4. /\ (b.frames_seen + 1) + Len(t) <= Out(b, l)
        /\ b.sent \notin g => (b.frames_seen + 1) + Len(t) = Out(b, l)
    BY <1>1, <1>2, <2>3
  <2> QED
    BY <1>5, <1>6, <2>1, <2>2, <2>4 DEF Balance
<1>12. InTime(c, l, t, "read", a, w)
  <2> SUFFICES ASSUME l # <<>>
               PROVE  a + Rest(l, w) + LoopPeriod < Left(c) /\ Left(c) <= Half
    BY DEF InTime
  <2>1. Left(c) = DEFAULT_INTERFRAME_TIMEOUT_MS
    BY <1>0, <1>5, LinkTimes, ArmedDistance DEF Left, deadline
  <2>2. Len(l) >= 1 /\ 1 \in 1..Len(l)
    BY TakeFirst
  <2>3. Out(b, l) >= 1
    BY <1>1, <1>2
  <2>4. l[1].within = MaxGap
    BY <1>2, <2>2, <2>3 DEF OnLine
  <2>5. FrameTotal(b) <= MaxFrames
    BY LinkTimes DEF FrameTotal, InHand
  <2>6. Len(l) + 1 <= MaxFrames
    BY <1>2, <2>3, <2>5, LinkTimes DEF Out
  <2>7. /\ Len(l) * MaxGap \in Nat
        /\ a + Len(l) * MaxGap + LoopPeriod < DEFAULT_INTERFRAME_TIMEOUT_MS
    BY <1>2, <2>6, Covered
  <2>8. /\ ((Len(l) - 1) + 1) * MaxGap = (Len(l) - 1) * MaxGap + MaxGap
        /\ (Len(l) - 1) * MaxGap \in Nat
    <3>1. Len(l) - 1 \in Nat /\ MaxGap \in Nat
      BY <1>2, <2>2, LinkTimes
    <3> QED
      BY <3>1, Gaps
  <2> DEFINE rest == (Len(l) - 1) * MaxGap
             all == Len(l) * MaxGap
  <2>9. /\ Rest(l, w) = (MaxGap - w) + rest /\ rest \in Nat /\ all = rest + MaxGap /\ all \in Nat
        /\ a + all + LoopPeriod < DEFAULT_INTERFRAME_TIMEOUT_MS
    BY <1>2, <2>4, <2>7, <2>8 DEF Rest
  <2> HIDE DEF rest, all
  <2> QED
    BY <2>1, <2>9, LinkTimes
<1> QED
  BY <1>5, <1>7, <1>8, <1>9, <1>10, <1>11, <1>12 DEF t

-----------------------------------------------------------------------------
(* The steps of the line and of the clock: the session is as it was.       *)

(* The session keeps its books while only the line or the clock moves.     *)
LEMMA SessionStays ==
    ASSUME LinkSession, UNCHANGED <<bms, stack, fate>>
    PROVE  LinkSession' /\ Waiting' = Waiting
<1>1. bms' = bms /\ stack' = stack /\ fate' = fate
  OBVIOUS
<1> QED
  BY <1>1 DEF LinkSession, Waiting, Settling, Booked, Flat

(* Nor does losing more make a report false.                               *)
LEMMA StaysHeard ==
    ASSUME PromptReplyHeard, UNCHANGED <<bms, stack>>, lost \subseteq lost'
    PROVE  PromptReplyHeard'
<1>1. bms' = bms /\ stack' = stack
  OBVIOUS
<1>2. /\ \A t \in 1..(bms.sent.tries - 1) : [bms.sent EXCEPT !.tries = t] \in lost'
      /\ \A k \in DOMAIN stack :
             LET e == stack[k].event IN
             \/ e.kind = "TIMEOUT"
             \/ e.kind = "RESPONSE" /\ e.frames < bms.expected_frames
             => bms.sent \in lost'
  BY DEF PromptReplyHeard
<1> QED
  BY <1>1, <1>2 DEF PromptReplyHeard

(* While an answer is awaited, the session is what the pure lemmas need.   *)
LEMMA WaitingFacts ==
    ASSUME LinkTyped, LinkSession, LinkTraffic, Waiting
    PROVE  /\ bms \in Object /\ InHand(bms) /\ Plugged(bms)
           /\ line \in Seq(Packet) /\ uart \in Seq(Packet) /\ late \in 0..LoopPeriod /\ waited \in Nat
           /\ OnLine(bms, line) /\ OnUart(bms, line, uart) /\ Balance(bms, line, uart, lost)
           /\ InTime(bms, line, uart, loop, late, waited)
<1>1. bms \in Object
  BY DEF LinkSession, Good, Sound
<1> QED
  BY <1>1 DEF LinkTyped, LinkSession, LinkTraffic, Waiting

(* Time passes no deadline: the pack gets nearer by as much.               *)
LEMMA TimeCounts ==
    ASSUME NEW b \in Object, NEW l \in Seq(Packet), l # <<>>, NEW u, NEW p,
           NEW a \in 0..LoopPeriod, NEW w \in Nat, InTime(b, l, u, p, a, w), w < l[1].within
    PROVE  InTime(b, l, u, p, a + 1, w + 1)
<1> DEFINE some == (Len(l) - 1) * MaxGap
<1>1. l[1].within \in Nat
  <2>1. l[1] \in Packet
    BY TakeFirst
  <2> QED
    BY <2>1 DEF Packet
<1>2. some \in Nat
  <2>1. Len(l) - 1 \in Nat /\ MaxGap \in Nat
    BY TakeFirst, LinkTimes
  <2> QED
    BY <2>1, Gaps
<1>3. Rest(l, w) = (l[1].within - w) + some /\ Rest(l, w + 1) = (l[1].within - (w + 1)) + some
  BY DEF Rest
<1>4. a \in Nat
  BY LinkTimes
<1> HIDE DEF some
<1>5. a + 1 + Rest(l, w + 1) = a + Rest(l, w) /\ w + 1 <= l[1].within
  <2>1. ASSUME NEW x \in Nat, NEW s \in Nat, w < x
        PROVE  a + 1 + ((x - (w + 1)) + s) = a + ((x - w) + s) /\ w + 1 <= x
    BY <1>4, <2>1
  <2> QED
    BY <1>1, <1>2, <1>3, <2>1
<1> QED
  BY <1>5 DEF InTime

(* Time passes.                                                            *)
LEMMA TimePassesKeeps ==
    ASSUME LinkUp, TimePasses
    PROVE  LinkUp'
<1>1. /\ LinkTyped /\ LinkSession /\ LinkTraffic /\ PromptReplyHeard /\ loop \in {"work", "read"}
      /\ UNCHANGED <<bms, stack, fate>> /\ loop' = loop /\ line' = line /\ uart' = uart /\ lost' = lost
      /\ late' = late + 1 /\ late < LoopPeriod /\ late \in 0..LoopPeriod /\ waited \in Nat
      /\ waited' = IF line = <<>> THEN 0 ELSE waited + 1
      /\ line # <<>> => waited < Head(line).within
  BY DEF LinkUp, LinkTyped, TimePasses
<1>2. late' \in 0..LoopPeriod /\ waited' \in Nat
  BY <1>1, LinkTimes
<1>3. LinkTyped'
  BY <1>1, <1>2 DEF LinkTyped
<1>4. LinkSession' /\ Waiting' = Waiting /\ PromptReplyHeard'
  BY <1>1, SessionStays, StaysHeard
<1>5. bms' = bms
  BY <1>1
<1>6. ASSUME Waiting
      PROVE  /\ OnLine(bms, line) /\ OnUart(bms, line, uart) /\ Balance(bms, line, uart, lost)
             /\ InTime(bms, line, uart, loop, late', waited')
  <2>1. CASE line = <<>>
    BY <1>1, <1>6, <2>1, WaitingFacts DEF InTime
  <2>2. CASE line # <<>>
    <3>1. Head(line) = line[1]
      BY <1>1, <1>6, <2>2, WaitingFacts, TakeFirst
    <3>2. InTime(bms, line, uart, loop, late + 1, waited + 1)
      BY <1>1, <1>6, <2>2, <3>1, WaitingFacts, TimeCounts
    <3> QED
      BY <1>1, <1>6, <2>2, <3>2, WaitingFacts
  <2> QED
    BY <2>1, <2>2
<1>7. LinkTraffic'
  BY <1>1, <1>4, <1>5, <1>6 DEF LinkTraffic
<1> QED
  BY <1>1, <1>3, <1>4, <1>7 DEF LinkUp

(* A corrupted packet is a packet.                                         *)
LEMMA SpoiledType ==
    ASSUME NEW q \in Packet
    PROVE  /\ [q EXCEPT !.frame.id = NONE] \in Packet
           /\ [q EXCEPT !.frame.id = NONE].of = q.of
           /\ [q EXCEPT !.frame.id = NONE].frame.id = NONE
           /\ [q EXCEPT !.frame.id = NONE].frame.data = q.frame.data
<1>1. NONE \in Byte
  BY DEF NONE, Byte
<1>2. /\ q = [frame |-> q.frame, of |-> q.of, within |-> q.within]
      /\ q.frame \in [src : {BmsAddress}, id : Byte, data : Data]
      /\ q.of \in [ctx : Nat, tries : Nat] /\ q.within \in Nat
  BY DEF Packet
<1> DEFINE f == [q.frame EXCEPT !.id = NONE]
<1>3. f \in [src : {BmsAddress}, id : Byte, data : Data] /\ f.id = NONE /\ f.data = q.frame.data
  BY <1>1, <1>2
<1>4. [q EXCEPT !.frame.id = NONE] = [frame |-> f, of |-> q.of, within |-> q.within]
  BY <1>2
<1> HIDE DEF f
<1> QED
  BY <1>2, <1>3, <1>4 DEF Packet

(* A frame arrives, whole or not, or is lost.                              *)
LEMMA LineMoves ==
    ASSUME LinkUp, FrameArrives \/ FrameSpoiled
    PROVE  LinkUp'
<1>1. /\ LinkTyped /\ LinkSession /\ LinkTraffic /\ PromptReplyHeard /\ loop \in {"work", "read"}
      /\ UNCHANGED <<bms, stack, fate>> /\ loop' = loop /\ late' = late
      /\ line # <<>> /\ line' = Tail(line) /\ waited' = 0 /\ late \in 0..LoopPeriod
  BY DEF LinkUp, LinkTyped, FrameArrives, FrameSpoiled
<1>2. bms' = bms /\ Waiting
  BY <1>1 DEF LinkTraffic
<1>3. /\ bms \in Object /\ InHand(bms) /\ line \in Seq(Packet) /\ uart \in Seq(Packet)
      /\ waited \in Nat
      /\ OnLine(bms, line) /\ OnUart(bms, line, uart) /\ Balance(bms, line, uart, lost)
      /\ InTime(bms, line, uart, loop, late, waited)
  BY <1>1, <1>2, WaitingFacts
<1>4. /\ Tail(line) \in Seq(Packet) /\ OnLine(bms, Tail(line)) /\ OnUart(bms, Tail(line), uart)
  BY <1>1, <1>3, FrameLeaves
<1>5. InTime(bms, line', uart', loop', late', waited')
  BY <1>1, <1>3, RestShrinks
<1>6. Head(line) \in Packet /\ Head(line) = line[1] /\ Head(line).of = bms.sent
  <2>1. Head(line) \in Packet /\ Head(line) = line[1] /\ 1 \in 1..Len(line)
    BY <1>1, <1>3, TakeFirst
  <2> QED
    BY <1>3, <2>1, Zenon DEF OnLine
<1>7. /\ uart' \in Seq(Packet) /\ lost \subseteq lost'
      /\ OnUart(bms, Tail(line), uart') /\ Balance(bms, Tail(line), uart', lost')
  <2>1. CASE FrameArrives
    <3>1. uart' = Append(uart, Head(line)) /\ lost' = lost
      BY <2>1 DEF FrameArrives
    <3>2. Head(line).frame.id = NONE => bms.sent \in lost
      <4>1. Head(line).frame.id = head(bms).id /\ head(bms).id # NONE
        <5>1. 1 \in 1..Len(line)
          BY <1>1, <1>3, TakeFirst
        <5> QED
          BY <1>3, <1>6, <5>1, Zenon DEF OnLine, InHand
      <4> QED
        BY <4>1
    <3>3. /\ OnUart(bms, Tail(line), Append(uart, Head(line)))
          /\ Balance(bms, Tail(line), Append(uart, Head(line)), lost)
      BY <1>1, <1>3, <1>6, <3>2, ArrivalBooks
    <3> QED
      BY <1>3, <1>6, <3>1, <3>3
  <2>2. CASE FrameSpoiled
    <3> DEFINE q == [Head(line) EXCEPT !.frame.id = NONE]
    <3>1. uart' \in {uart, Append(uart, q)} /\ lost' = lost \cup {Head(line).of}
      BY <2>2 DEF FrameSpoiled
    <3>2. lost \subseteq lost' /\ bms.sent \in lost'
      BY <1>6, <3>1
    <3>3. CASE uart' = uart
      BY <1>1, <1>3, <1>4, <3>1, <3>2, <3>3, LostBooks
    <3>4. CASE uart' = Append(uart, q)
      <4>1. q \in Packet /\ q.of = Head(line).of /\ q.frame.id = NONE /\ q.frame.data = Head(line).frame.data
        BY <1>6, SpoiledType
      <4> HIDE DEF q
      <4>2. Balance(bms, line, uart, lost')
        BY <1>3, <3>2, LosingMore
      <4>3. OnUart(bms, Tail(line), Append(uart, q)) /\ Balance(bms, Tail(line), Append(uart, q), lost')
        BY <1>1, <1>3, <3>2, <4>1, <4>2, ArrivalBooks
      <4> QED
        BY <1>3, <3>2, <3>4, <4>1, <4>3
    <3> QED
      BY <3>1, <3>3, <3>4
  <2> QED
    BY <2>1, <2>2
<1>8. LinkSession' /\ Waiting' = Waiting /\ PromptReplyHeard'
  BY <1>1, <1>7, SessionStays, StaysHeard
<1>9. LinkTyped'
  BY <1>1, <1>4, <1>7 DEF LinkTyped
<1>10. LinkTraffic'
  BY <1>1, <1>2, <1>4, <1>5, <1>7, <1>8 DEF LinkTraffic
<1> QED
  BY <1>1, <1>8, <1>9, <1>10 DEF LinkUp

(* The loop has read everything, and goes on to its work.                  *)
LEMMA LoopIsThroughKeeps ==
    ASSUME LinkUp, LoopIsThrough
    PROVE  LinkUp'
<1>1. /\ LinkTyped /\ LinkSession /\ LinkTraffic /\ PromptReplyHeard
      /\ UNCHANGED <<bms, stack, fate>> /\ loop' = "work" /\ late' = late /\ line' = line
      /\ waited' = waited /\ uart = <<>> /\ uart' = uart /\ lost' = lost /\ bms' = bms
  BY DEF LinkUp, LoopIsThrough
<1>2. LinkSession' /\ Waiting' = Waiting /\ PromptReplyHeard'
  BY <1>1, SessionStays, StaysHeard
<1>3. LinkTyped'
  BY <1>1 DEF LinkTyped
<1>4. LinkTraffic'
  BY <1>1, <1>2 DEF LinkTraffic, InTime
<1> QED
  BY <1>1, <1>2, <1>3, <1>4 DEF LinkUp

-----------------------------------------------------------------------------
(* The steps of the session.                                               *)

(* A transmission on a free line: the pack has all the reply to send.      *)
LEMMA AnswerStarts ==
    ASSUME line = <<>>, uart' = <<>>, stack' = <<>>, bms' \in Object, bms'.state = "AWAITING",
           InHand(bms'), Opened(bms'), bms'.sent # bms.sent, Transmits, late' \in 0..LoopPeriod
    PROVE  /\ LinkTyped' /\ LinkTraffic'
           /\ lost' = IF bms'.sent.ctx = bms.sent.ctx THEN lost ELSE {}
<1>1. PICK reply \in Replies(bms') :
          line' = line \o [i \in DOMAIN reply |->
                              [frame |-> reply[i], of |-> bms'.sent,
                               within |-> IF i = 1 THEN MaxDelay ELSE MaxGap]]
  BY DEF Transmits
<1> DEFINE l == [i \in DOMAIN reply |->
                    [frame |-> reply[i], of |-> bms'.sent,
                     within |-> IF i = 1 THEN MaxDelay ELSE MaxGap]]
<1>2. /\ l \in Seq(Packet)
      /\ OnLine(bms', l) /\ OnUart(bms', l, <<>>) /\ Balance(bms', l, <<>>, lost')
      /\ InTime(bms', l, <<>>, loop', late', 0)
  BY ReplyOpens
<1>3. line' = <<>> \o l
  BY <1>1
<1> HIDE DEF l
<1>4. line' = l
  BY <1>2, <1>3
<1>5. waited' = 0 /\ lost' = IF bms'.sent.ctx = bms.sent.ctx THEN lost ELSE {}
  BY DEF Transmits
<1>6. LinkTyped'
  BY <1>2, <1>4, <1>5 DEF LinkTyped
<1>7. Waiting'
  BY DEF Waiting, Settling
<1>8. LinkTraffic'
  BY <1>2, <1>4, <1>5, <1>7 DEF LinkTraffic
<1> QED
  BY <1>5, <1>6, <1>8

(* A first attempt, with nothing being reported: there is nothing to show. *)
LEMMA FirstTryHeard ==
    ASSUME stack' = <<>>, bms'.sent.tries = 1
    PROVE  PromptReplyHeard'
<1>1. 1..(bms'.sent.tries - 1) = {}
  OBVIOUS
<1>2. DOMAIN stack' = {}
  OBVIOUS
<1> QED
  BY <1>1, <1>2, Zenon DEF PromptReplyHeard

(* Nothing was sent and nothing more is being reported.                    *)
LEMMA SilentlyHeard ==
    ASSUME PromptReplyHeard, stack' = <<>>, bms'.sent = bms.sent, lost' = lost
    PROVE  PromptReplyHeard'
<1>1. DOMAIN stack' = {}
  OBVIOUS
<1> QED
  BY <1>1 DEF PromptReplyHeard

(* complete() is called when nothing of the old reply is left: the line is *)
(* free for the next.                                                      *)
LEMMA CompletionKeeps ==
    ASSUME LinkTyped, PromptReplyHeard, NEW b, NEW n \in Nat, Traffic(b, n), Plugged(b),
           b.sent = bms.sent, bms' = complete(b), bms' \in Object,
           line = <<>>, uart' = <<>>, stack' = <<>>, Transmits, late' \in 0..LoopPeriod
    PROVE  /\ LinkTyped' /\ LinkTraffic' /\ PromptReplyHeard'
           /\ Plugged(bms') /\ (bms'.state = "AWAITING" => InHand(bms'))
<1>1. /\ Plugged(bms')
      /\ bms'.state = "IDLE" => bms'.sent = b.sent
      /\ bms'.state = "AWAITING" =>
             /\ InHand(bms') /\ Opened(bms')
             /\ bms'.sent.ctx # b.sent.ctx /\ bms'.sent.tries = 1
  BY CompleteOpens
<1>2. CASE bms'.state = "AWAITING"
  <2>1. bms'.sent # bms.sent
    BY <1>1, <1>2
  <2> QED
    BY <1>1, <1>2, <2>1, AnswerStarts, FirstTryHeard
<1>3. CASE bms'.state = "IDLE"
  <2>1. line' = line /\ waited' = waited /\ lost' = lost /\ bms'.sent = bms.sent
    BY <1>1, <1>3 DEF Transmits
  <2>2. LinkTyped' /\ LinkTraffic'
    BY <1>3, <2>1 DEF LinkTyped, LinkTraffic, Waiting
  <2>3. PromptReplyHeard'
    BY <2>1, SilentlyHeard
  <2> QED
    BY <1>1, <1>3, <2>2, <2>3
<1> QED
  BY <1>2, <1>3 DEF Object

(* A handler returns: to the next one, or into the method that emitted.    *)
LEMMA ReturnKeeps ==
    ASSUME LinkUp, HandlerReturns
    PROVE  LinkUp'
<1>1. /\ LinkTyped /\ LinkSession /\ LinkTraffic /\ PromptReplyHeard /\ loop \in {"work", "read"}
      /\ Return /\ Transmits /\ loop' = loop /\ late' = late /\ uart' = uart
      /\ late \in 0..LoopPeriod
  BY DEF LinkUp, LinkTyped, HandlerReturns
<1>2. /\ Good(bms, stack, fate) /\ Booked /\ Flat /\ Plugged(bms) /\ bms \in Object
      /\ stack \in Seq(Activation) /\ Len(fate) \in Nat
      /\ bms.state = "AWAITING" => InHand(bms)
      /\ stack # <<>> => stack[1].then # "stream"
  BY <1>1 DEF LinkSession, Good, Sound
<1>3. CASE SessionHandlerRuns
  <2>1. /\ stack # <<>> /\ bms' = bms /\ fate' = fate
        /\ stack' = [stack EXCEPT ![Len(stack)].run = "session"]
    BY <1>3 DEF SessionHandlerRuns
  <2>2. Len(stack) = 1
    BY <1>2, <2>1, ZeroOrOne, EmptySeq DEF Flat
  <2>3. /\ Len(stack') = 1 /\ stack'[1].then = stack[1].then /\ stack' # <<>>
        /\ stack'[1].event = stack[1].event /\ stack'[1].nested = stack[1].nested
    BY <1>2, <2>1, <2>2 DEF Activation
  <2>4. Good(bms', stack', fate') /\ Flat'
    <3>1. Good(bms', stack', fate')
      BY <1>2, <1>3, ShapeGood DEF Shape
    <3> QED
      BY <1>2, <2>1, <2>2, <2>3, <3>1 DEF Flat
  <2>5. Booked' /\ Waiting' = Waiting
    BY <1>2, <2>1, <2>3 DEF Booked, Waiting, Settling
  <2>6. LinkSession'
    BY <1>2, <2>1, <2>3, <2>4, <2>5 DEF LinkSession
  <2>7. line' = line /\ waited' = waited /\ lost' = lost
    BY <1>1, <2>1 DEF Transmits
  <2>8. LinkTyped' /\ LinkTraffic'
    BY <1>1, <2>1, <2>5, <2>7 DEF LinkTyped, LinkTraffic
  <2>9. PromptReplyHeard'
    <3>1. DOMAIN stack' = {1} /\ DOMAIN stack = {1}
      BY <1>2, <2>1, <2>2
    <3> QED
      BY <1>1, <2>1, <2>3, <2>7, <3>1 DEF PromptReplyHeard
  <2> QED
    BY <1>1, <2>6, <2>8, <2>9 DEF LinkUp
<1>4. ASSUME NEW then \in Continuations, EmitReturns(then)
      PROVE  LinkUp'
  <2>1. /\ stack # <<>> /\ Top.then = then
        /\ bms' = Resume(EndDispatch(bms, Top.nested), then)
    BY <1>4 DEF EmitReturns
  <2>2. Len(stack) = 1
    BY <1>2, <2>1, ZeroOrOne, EmptySeq DEF Flat
  <2>3. stack[1].then = then /\ stack[1].nested = FALSE /\ Top = stack[1]
    BY <1>2, <2>1, <2>2 DEF Top, Flat
  <2>4. /\ Good(bms', stack', fate') /\ Len(stack') = 0 /\ stack' = <<>>
    <3>1. Good(bms', stack', fate') /\ Len(stack') = Len(stack) - 1 /\ stack' \in Seq(Activation)
      BY <1>2, <1>4, EmitReturnsFacts DEF Good
    <3> QED
      BY <2>2, <3>1, EmptySeq
  <2>5. Flat'
    <3>1. bms'.dispatching = FALSE
      BY <1>2, <1>4, <2>2, <2>3, EmitReturnsFacts
    <3> QED
      BY <2>4, <3>1 DEF Flat
  <2>6. Booked' /\ bms' \in Object
    BY <1>2, <1>4, <2>4, EmitReturnsTraffic DEF Good, Sound
  <2> DEFINE b == [bms EXCEPT !.dispatching = FALSE]
  <2>7. EndDispatch(bms, Top.nested) = b
    BY <2>3 DEF EndDispatch
  <2>8. SameTalk(bms, b) /\ Plugged(b) /\ SameWait(bms, b) /\ SameLeft(bms, b)
    BY <1>2 DEF SameTalk, SameQueue, Plugged, SameWait, SameLeft, Object, head
  <2>9. Traffic(b, Len(fate)) /\ b.sent = bms.sent /\ b.state = bms.state
    BY <1>2, <2>8, SameTalkTraffic DEF Booked, SameTalk
  <2> HIDE DEF b
  <2>10. CASE then = "complete"
    <3>1. bms' = complete(b)
      BY <2>1, <2>7, <2>10 DEF Resume
    <3>2. ~Waiting
      BY <2>1, <2>3, <2>10 DEF Waiting, Settling
    <3>3. line = <<>> /\ uart' = <<>>
      BY <1>1, <3>2 DEF LinkTraffic
    <3>4. /\ LinkTyped' /\ LinkTraffic' /\ PromptReplyHeard'
          /\ Plugged(bms') /\ (bms'.state = "AWAITING" => InHand(bms'))
      BY <1>1, <1>2, <2>4, <2>6, <2>8, <2>9, <3>1, <3>3, CompletionKeeps
    <3> QED
      BY <1>1, <2>4, <2>5, <2>6, <3>4 DEF LinkUp, LinkSession
  <2>11. CASE then = "return"
    <3>1. bms' = b
      BY <2>1, <2>7, <2>11 DEF Resume
    <3>2. Waiting' = Waiting /\ bms'.sent = bms.sent
      BY <2>1, <2>3, <2>4, <2>9, <2>11, <3>1 DEF Waiting, Settling
    <3>3. line' = line /\ waited' = waited /\ lost' = lost
      BY <1>1, <3>2 DEF Transmits
    <3>4. Left(bms') = Left(bms)
      BY <2>8, <3>1 DEF Left, SameLeft
    <3>5. LinkTraffic'
      BY <1>1, <2>8, <3>1, <3>2, <3>3, <3>4, SameWaitKeeps DEF LinkTraffic, InTime
    <3>6. bms'.state = "AWAITING" => InHand(bms')
      BY <1>2, <2>8, <2>9, <3>1, SameWaitKeeps
    <3>7. PromptReplyHeard'
      BY <1>1, <2>4, <3>2, <3>3, SilentlyHeard
    <3>8. LinkTyped'
      BY <1>1, <3>3 DEF LinkTyped
    <3> QED
      BY <1>1, <2>4, <2>5, <2>6, <2>8, <3>1, <3>5, <3>6, <3>7, <3>8 DEF LinkUp, LinkSession
  <2> QED
    BY <1>2, <2>1, <2>3, <2>10, <2>11 DEF Continuations
<1> QED
  BY <1>1, <1>3, <1>4 DEF Return, Continuations

(* What stays to be shown of a step that neither sends nor reports.        *)
LEMMA QuietlyHeard ==
    ASSUME PromptReplyHeard, stack' = stack, bms'.sent = bms.sent, lost' = lost,
           bms'.expected_frames = bms.expected_frames
    PROVE  PromptReplyHeard'
BY DEF PromptReplyHeard

(* A poll that is accepted asks for what the line can serve.               *)
LEMMA PollFits ==
    ASSUME NEW p \in Polls, is_known_data_id(p.id), NEW n \in Nat, NEW req,
           req = [id |-> p.id, on |-> p.on, hint |-> p.hint, fn |-> p.fn, ctx |-> n]
    PROVE  req \in Request /\ req.ctx = n /\ Fits(req)
<1>1. p \in PollArgs /\ ReplyFits(p)
  BY InputAssumption, LinkAssumption
<1>2. req \in Request /\ req.ctx = n /\ req.id = p.id /\ req.hint = p.hint
  BY <1>1 DEF PollArgs, Request
<1>3. ReplyFits(req)
  BY <1>1, <1>2 DEF ReplyFits
<1>4. p.id # NONE
  BY DEF is_known_data_id, NONE
<1> QED
  BY <1>2, <1>3, <1>4 DEF Fits

(* The application polls, from its loop or from a handler.                 *)
LEMMA PollKeeps ==
    ASSUME LinkUp, LoopPolls
    PROVE  LinkUp'
<1>1. /\ LinkTyped /\ LinkSession /\ LinkTraffic /\ PromptReplyHeard /\ loop \in {"work", "read"}
      /\ Transmits /\ loop' = loop /\ late' = late /\ uart' = uart /\ late \in 0..LoopPeriod
  BY DEF LinkUp, LinkTyped, LoopPolls
<1>2. PICK p \in Polls : Poll(p)
  BY DEF LoopPolls
<1>3. /\ Good(bms, stack, fate) /\ Booked /\ Flat /\ Plugged(bms) /\ bms \in Object
      /\ Traffic(bms, Len(fate)) /\ Len(fate) \in Nat
      /\ bms.state = "AWAITING" => InHand(bms)
      /\ stack # <<>> => stack[1].then # "stream"
  BY <1>1 DEF LinkSession, Good, Sound, Booked
<1>4. /\ Good(bms', stack', fate') /\ bms' \in Object /\ stack' = stack
      /\ bms'.dispatching = bms.dispatching /\ Booked'
  BY <1>2, <1>3, PollFacts, PollTraffic DEF Good, Sound
<1>5. Flat'
  BY <1>3, <1>4 DEF Flat
<1> DEFINE req == [id |-> p.id, on |-> p.on, hint |-> p.hint, fn |-> p.fn, ctx |-> Len(fate) + 1]
<1>6. is_known_data_id(p.id) /\ ~(bms.queue_count >= QUEUE_CAPACITY) /\ bms' = enqueue(bms, req)
  BY <1>2 DEF Poll, queue_status
<1>7. bms.queue_count < QUEUE_CAPACITY
  BY <1>3, <1>6, CapacityAssumption DEF Object
<1>8. req \in Request /\ req.ctx = Len(fate) + 1 /\ Fits(req)
  <2>1. Len(fate) + 1 \in Nat
    BY <1>3
  <2> QED
    BY <1>6, <2>1, PollFits, Zenon
<1> HIDE DEF req
<1>9. /\ Plugged(bms')
      /\ bms.state = "AWAITING" => SameWait(bms, bms') /\ SameLeft(bms, bms')
      /\ bms.dispatching => /\ bms'.state = bms.state /\ bms'.sent = bms.sent
                            /\ bms'.expected_frames = bms.expected_frames
      /\ bms.state = "IDLE" /\ ~bms.dispatching =>
             /\ bms'.state = "AWAITING" /\ InHand(bms') /\ Opened(bms')
             /\ bms'.sent.ctx # bms.sent.ctx /\ bms'.sent.tries = 1
  BY <1>3, <1>6, <1>7, <1>8, EnqueueOpens
<1>10. ASSUME bms'.state = "AWAITING" => InHand(bms'), LinkTyped', LinkTraffic', PromptReplyHeard'
       PROVE  LinkUp'
  BY <1>1, <1>3, <1>4, <1>5, <1>9, <1>10 DEF LinkUp, LinkSession
<1>11. CASE bms.state = "AWAITING"
  <2>1. /\ SameWait(bms, bms') /\ SameLeft(bms, bms') /\ bms'.sent = bms.sent
        /\ bms'.state = bms.state /\ bms'.expected_frames = bms.expected_frames
    BY <1>9, <1>11 DEF SameWait
  <2>2. Waiting' = Waiting /\ Left(bms') = Left(bms)
    BY <1>4, <2>1 DEF Waiting, Settling, Left, SameLeft
  <2>3. line' = line /\ waited' = waited /\ lost' = lost
    BY <1>1, <2>1 DEF Transmits
  <2>4. LinkTraffic'
    BY <1>1, <2>1, <2>2, <2>3, SameWaitKeeps DEF LinkTraffic, InTime
  <2>5. InHand(bms')
    BY <1>3, <1>11, <2>1, SameWaitKeeps
  <2>6. LinkTyped' /\ PromptReplyHeard'
    BY <1>1, <1>4, <2>1, <2>3, QuietlyHeard DEF LinkTyped
  <2> QED
    BY <1>10, <2>4, <2>5, <2>6
<1>12. CASE bms.state = "IDLE" /\ bms.dispatching
  <2>1. /\ bms'.state = "IDLE" /\ bms'.sent = bms.sent
        /\ bms'.expected_frames = bms.expected_frames
    BY <1>9, <1>12
  <2>2. line' = line /\ waited' = waited /\ lost' = lost
    BY <1>1, <2>1 DEF Transmits
  <2>3. ~Waiting /\ ~Waiting'
    BY <1>12, <2>1 DEF Waiting
  <2>4. LinkTyped' /\ LinkTraffic' /\ PromptReplyHeard'
    BY <1>1, <1>4, <2>1, <2>2, <2>3, QuietlyHeard DEF LinkTyped, LinkTraffic
  <2> QED
    BY <1>10, <2>1, <2>4
<1>13. CASE bms.state = "IDLE" /\ ~bms.dispatching
  <2>1. stack = <<>> /\ ~Waiting
    BY <1>3, <1>13 DEF Flat, Waiting
  <2>2. line = <<>> /\ uart' = <<>> /\ stack' = <<>>
    BY <1>1, <1>4, <2>1 DEF LinkTraffic
  <2>3. /\ bms'.state = "AWAITING" /\ InHand(bms') /\ Opened(bms')
        /\ bms'.sent # bms.sent /\ bms'.sent.tries = 1
    BY <1>9, <1>13
  <2>4. LinkTyped' /\ LinkTraffic'
    BY <1>1, <1>4, <2>2, <2>3, AnswerStarts
  <2>5. PromptReplyHeard'
    BY <2>2, <2>3, FirstTryHeard
  <2> QED
    BY <1>10, <2>3, <2>4, <2>5
<1> QED
  BY <1>3, <1>11, <1>12, <1>13 DEF Object

(* tick() and feed() keep the session sound, its books and its stack flat. *)
LEMMA SessionDriven ==
    ASSUME LinkSession, stack = <<>>, Delivers \/ \E d \in Timeout : Tick(d)
    PROVE  Good(bms', stack', fate') /\ Booked' /\ Flat' /\ bms' \in Object
<1>1. Good(bms, stack, fate) /\ Booked /\ Flat
  BY DEF LinkSession
<1>2. Emits \/ Leaves \/ Retries \/ Ends
  BY <1>1, DeliverShape, TickShape
<1>3. Good(bms', stack', fate')
  BY <1>1, <1>2, ShapeGood DEF Shape
<1>4. Flat'
  BY <1>1, <1>2, <1>3, KeepsFlat
<1>5. Speaks \/ Booked'
  BY <1>1, DeliverTraffic, TickTraffic
<1>6. Speaks => Booked'
  <2> SUFFICES ASSUME Speaks PROVE Booked'
    OBVIOUS
  <2>1. PICK b, e : \E then \in Continuations : Traffic(b, Len(fate)) /\ emit(b, e, then)
    BY Zenon DEF Speaks
  <2>2. PICK then \in Continuations : Traffic(b, Len(fate)) /\ emit(b, e, then)
    BY <2>1
  <2> QED
    BY <1>1, <2>2, SpeaksTraffic
<1> QED
  BY <1>3, <1>4, <1>5, <1>6 DEF Good, Sound

(* What emit() leaves behind when no handler was running.                  *)
LEMMA EmitOpens ==
    ASSUME stack = <<>>, NEW b \in Object, NEW e, NEW then, emit(b, e, then)
    PROVE  /\ stack' # <<>> /\ DOMAIN stack' = {1}
           /\ stack'[1].event = e /\ stack'[1].then = then
           /\ SameWait(b, bms') /\ SameLeft(b, bms')
           /\ Plugged(b) => Plugged(bms')
<1>1. bms' = [b EXCEPT !.dispatching = TRUE]
  BY DEF emit
<1> DEFINE act == [event |-> e, owner |-> InFlight(b), run |-> FirstHandler(b),
                   then |-> then, nested |-> b.dispatching]
<1>2. stack' = Append(<<>>, act)
  BY DEF emit
<1>3. act.event = e /\ act.then = then
  OBVIOUS
<1> HIDE DEF act
<1>4. stack' = <<act>>
  BY <1>2
<1>5. stack' # <<>> /\ DOMAIN stack' = {1} /\ stack'[1] = act
  BY <1>4
<1>6. SameWait(b, bms') /\ SameLeft(b, bms') /\ (Plugged(b) => Plugged(bms'))
  BY <1>1 DEF SameWait, SameLeft, Plugged, Object, head
<1> QED
  BY <1>3, <1>5, <1>6

(* An outcome is reported with nothing of the reply left on the line, and  *)
(* blames the line only for what it lost.                                  *)
LEMMA Settles ==
    ASSUME LinkTyped, PromptReplyHeard, stack = <<>>, line = <<>>, uart' = <<>>,
           NEW b \in Object, NEW e, emit(b, e, "complete"), Transmits, late' \in 0..LoopPeriod,
           b.sent = bms.sent, Plugged(b), InHand(b),
           \/ e.kind = "TIMEOUT"
           \/ e.kind = "RESPONSE" /\ e.frames < b.expected_frames
           => b.sent \in lost
    PROVE  /\ LinkTyped' /\ LinkTraffic' /\ PromptReplyHeard'
           /\ Plugged(bms') /\ InHand(bms') /\ stack'[1].then # "stream"
<1>1. /\ stack' # <<>> /\ DOMAIN stack' = {1}
      /\ stack'[1].event = e /\ stack'[1].then = "complete"
      /\ SameWait(b, bms') /\ Plugged(bms')
  BY EmitOpens
<1>2. InHand(bms') /\ bms'.sent = bms.sent /\ bms'.expected_frames = b.expected_frames
  BY <1>1, SameWaitKeeps DEF SameWait
<1>3. line' = line /\ waited' = waited /\ lost' = lost
  BY <1>2 DEF Transmits
<1>4. ~Waiting'
  BY <1>1 DEF Waiting, Settling
<1>5. LinkTyped' /\ LinkTraffic'
  BY <1>3, <1>4 DEF LinkTyped, LinkTraffic
<1>6. PromptReplyHeard'
  BY <1>1, <1>2, <1>3 DEF PromptReplyHeard
<1> QED
  BY <1>1, <1>2, <1>5, <1>6

(* A tick comes before the deadline while anything is still on the line or *)
(* unread, and leaves the pack the time it needs.                          *)
LEMMA TickInTime ==
    ASSUME NEW b \in Object, NEW l \in Seq(Packet), NEW u, NEW a \in 0..LoopPeriod, NEW w \in Nat,
           InTime(b, l, u, "work", a, w),
           NEW c, c.deadline_ms = b.deadline_ms, c.now_ms = (b.now_ms + a) % ClockMod
    PROVE  /\ l # <<>> \/ u # <<>> => ~expired(c.now_ms, b.deadline_ms)
           /\ InTime(c, l, u, "read", 0, w)
<1>1. /\ b.now_ms \in Timeout /\ b.deadline_ms \in Timeout
      /\ LoopPeriod \in Nat /\ LoopPeriod <= Half /\ Half \in Nat /\ a \in Nat /\ a <= LoopPeriod
  BY LinkTimes, HalfClock DEF Object
<1>2. a \in 0..Half
  BY <1>1
<1>3. Left(b) \in Int
  BY LeftType
<1>4. ASSUME a < Left(b), Left(b) <= Half
      PROVE  ~expired(c.now_ms, b.deadline_ms) /\ Left(c) = Left(b) - a
  BY <1>1, <1>2, <1>4, TickNears DEF Left
<1>5. ASSUME l # <<>>
      PROVE  a < Left(b) /\ Left(b) <= Half /\ Rest(l, w) \in Nat
  <2>1. l[1].within \in Nat
    <3>1. l[1] \in Packet
      BY <1>5, TakeFirst
    <3> QED
      BY <3>1 DEF Packet
  <2>2. (Len(l) - 1) * MaxGap \in Nat
    <3>1. Len(l) - 1 \in Nat /\ MaxGap \in Nat
      BY <1>5, TakeFirst, LinkTimes
    <3> QED
      BY <3>1, Gaps
  <2>3. w <= l[1].within /\ a + Rest(l, w) + LoopPeriod < Left(b) /\ Left(b) <= Half
    BY <1>5 DEF InTime
  <2>4. Rest(l, w) \in Nat
    <3>1. ASSUME NEW x \in Nat, NEW s \in Nat, w <= x
          PROVE  (x - w) + s \in Nat
      BY <3>1
    <3> QED
      BY <2>1, <2>2, <2>3, <3>1 DEF Rest
  <2>5. ASSUME NEW r \in Nat, NEW left \in Int, a + r + LoopPeriod < left
        PROVE  a < left
    BY <1>1, <2>5
  <2> QED
    BY <1>3, <2>3, <2>4, <2>5
<1>6. ASSUME u # <<>>
      PROVE  a < Left(b) /\ Left(b) <= Half
  <2>1. LoopPeriod < Left(b) /\ Left(b) <= Half
    BY <1>6 DEF InTime
  <2>2. ASSUME NEW left \in Int, LoopPeriod < left
        PROVE  a < left
    BY <1>1, <2>2
  <2> QED
    BY <1>3, <2>1, <2>2
<1>7. ASSUME l # <<>>
      PROVE  w <= l[1].within /\ 0 + Rest(l, w) + LoopPeriod < Left(c) /\ Left(c) <= Half
  <2>1. w <= l[1].within /\ a + Rest(l, w) + LoopPeriod < Left(b) /\ Left(b) <= Half
    BY <1>7 DEF InTime
  <2>2. Left(c) = Left(b) - a /\ Rest(l, w) \in Nat
    BY <1>4, <1>5, <1>7
  <2>3. ASSUME NEW r \in Nat, NEW left \in Int, a + r + LoopPeriod < left, left <= Half
        PROVE  0 + r + LoopPeriod < left - a /\ left - a <= Half
    BY <1>1, <2>3
  <2> QED
    BY <1>3, <2>1, <2>2, <2>3
<1> QED
  BY <1>4, <1>5, <1>6, <1>7 DEF InTime

(* tick() at the head of the loop.                                         *)
LEMMA TickKeeps ==
    ASSUME LinkUp, LoopTicks
    PROVE  LinkUp'
<1>1. /\ LinkTyped /\ LinkSession /\ LinkTraffic /\ PromptReplyHeard
      /\ loop = "work" /\ stack = <<>> /\ Tick(late) /\ Transmits
      /\ loop' = "read" /\ late' = 0 /\ uart' = uart /\ late \in 0..LoopPeriod
      /\ line \in Seq(Packet) /\ waited \in Nat
  BY DEF LinkUp, LinkTyped, LoopTicks
<1>2. /\ Good(bms, stack, fate) /\ Booked /\ Flat /\ Plugged(bms) /\ bms \in Object
      /\ bms.state = "AWAITING" => InHand(bms)
  BY <1>1 DEF LinkSession, Good, Sound
<1>3. late \in Timeout /\ late' \in 0..LoopPeriod
  BY <1>1, LinkTimes
<1>4. Good(bms', stack', fate') /\ Booked' /\ Flat' /\ bms' \in Object
  BY <1>1, <1>3, SessionDriven
<1>5. ASSUME Plugged(bms'), bms'.state = "AWAITING" => InHand(bms'),
             stack' # <<>> => stack'[1].then # "stream", LinkTyped', LinkTraffic', PromptReplyHeard'
      PROVE  LinkUp'
  BY <1>1, <1>4, <1>5 DEF LinkUp, LinkSession
<1> DEFINE b == At(late)
<1>6. /\ SameTalk(bms, b) /\ SameTimeouts(bms, b) /\ b.deadline_ms = bms.deadline_ms
      /\ b.now_ms = (bms.now_ms + late) % ClockMod /\ b \in Object
  <2>1. SameTalk(bms, b) /\ b.deadline_ms = bms.deadline_ms
    BY <1>2, <1>3, AtTalk
  <2>2. SameTimeouts(bms, b) /\ b.now_ms = (bms.now_ms + late) % ClockMod
    BY <1>2 DEF SameTimeouts, Object, At
  <2> QED
    BY <2>1, <2>2 DEF SameTalk
<1> HIDE DEF b
<1>7. SameWait(bms, b) /\ Plugged(b)
  <2>1. head(b) = head(bms) /\ b.queue = bms.queue
    BY <1>6, SameHead DEF SameTalk, SameQueue
  <2>2. SameWait(bms, b)
    BY <1>6, <2>1, Zenon DEF SameTalk, SameWait
  <2>3. Plugged(b)
    BY <1>2, <1>6, <2>1, Zenon DEF SameTalk, SameTimeouts, Plugged
  <2> QED
    BY <2>2, <2>3
<1>8. b.sent = bms.sent /\ b.state = bms.state /\ b.frames_seen = bms.frames_seen
      /\ b.expected_frames = bms.expected_frames
  BY <1>7 DEF SameWait
<1>9. bms.state = "AWAITING" => Waiting
  BY <1>1 DEF Waiting, Settling
<1>10. ASSUME Due(late)
       PROVE  /\ bms.state = "AWAITING" /\ line = <<>> /\ uart = <<>>
              /\ InHand(bms) /\ InHand(b) /\ Balance(bms, <<>>, <<>>, lost)
  <2>1. bms.state = "AWAITING" /\ expired(b.now_ms, bms.deadline_ms)
    BY <1>10 DEF Due, b
  <2>2. InTime(bms, line, uart, "work", late, waited) /\ Balance(bms, line, uart, lost)
    BY <1>1, <1>9, <2>1, WaitingFacts
  <2>3. line = <<>> /\ uart = <<>>
    <3>1. line # <<>> \/ uart # <<>> => ~expired(b.now_ms, bms.deadline_ms)
      <4>1. line \in Seq(Packet) /\ waited \in Nat /\ late \in 0..LoopPeriod /\ bms \in Object
        BY <1>1, <1>2
      <4> QED
        BY <1>6, <2>2, <4>1, TickInTime, Zenon
    <3> QED
      BY <2>1, <3>1
  <2> QED
    BY <1>2, <1>7, <2>1, <2>2, <2>3, SameWaitKeeps
<1>11. CASE TickQuiet(late)
  <2>1. bms' = b /\ stack' = stack
    BY <1>11 DEF TickQuiet, b
  <2>2. line' = line /\ waited' = waited /\ lost' = lost
    BY <1>1, <1>8, <2>1 DEF Transmits
  <2>3. Waiting' = Waiting
    BY <1>8, <2>1 DEF Waiting, Settling
  <2>4. ASSUME Waiting
        PROVE  /\ OnLine(bms', line) /\ OnUart(bms', line, uart) /\ Balance(bms', line, uart, lost)
               /\ InTime(bms', line, uart, "read", 0, waited)
    <3>1. /\ OnLine(bms, line) /\ OnUart(bms, line, uart) /\ Balance(bms, line, uart, lost)
          /\ InTime(bms, line, uart, "work", late, waited)
      BY <1>1, <2>4, WaitingFacts
    <3>2. InTime(b, line, uart, "read", 0, waited)
      BY <1>1, <1>2, <1>6, <3>1, TickInTime
    <3> QED
      BY <1>7, <2>1, <3>1, <3>2, SameWaitKeeps
  <2>5. LinkTraffic'
    BY <1>1, <2>2, <2>3, <2>4 DEF LinkTraffic
  <2>6. LinkTyped' /\ PromptReplyHeard'
    BY <1>1, <1>3, <1>8, <2>1, <2>2, QuietlyHeard DEF LinkTyped
  <2>7. bms'.state = "AWAITING" => InHand(bms')
    BY <1>2, <1>7, <1>8, <2>1, SameWaitKeeps
  <2> QED
    BY <1>1, <1>5, <1>7, <2>1, <2>5, <2>6, <2>7
<1>12. ASSUME Due(late), NEW e, emit(b, e, "complete"),
              \/ e.kind = "TIMEOUT"
              \/ e.kind = "RESPONSE" /\ e.frames < bms.expected_frames
              => bms.sent \in lost
       PROVE  LinkUp'
  <2>1. line = <<>> /\ uart' = <<>> /\ InHand(b)
    BY <1>1, <1>10, <1>12
  <2>2. /\ LinkTyped' /\ LinkTraffic' /\ PromptReplyHeard'
        /\ Plugged(bms') /\ InHand(bms') /\ stack'[1].then # "stream"
    BY <1>1, <1>3, <1>6, <1>7, <1>8, <1>12, <2>1, Settles
  <2> QED
    BY <1>5, <2>2
<1>13. ASSUME Due(late), bms.frames_seen < FrameTotal(bms)
       PROVE  bms.sent \in lost
  <2>1. bms.sent \notin lost => bms.frames_seen + 0 = FrameTotal(bms) - 0
    BY <1>10, <1>13 DEF Balance, Out
  <2>2. bms.frames_seen \in Nat /\ FrameTotal(bms) \in Nat
    BY <1>2, CountsType
  <2> QED
    BY <1>13, <2>1, <2>2
<1>14. CASE TickFinishes(late)
  <2> DEFINE id == head(bms).id
             e == IF decode_multi(id) THEN ResponseEvent(id, b.frames_seen)
                  ELSE ErrorEvent(id, "UNKNOWN_DATA_ID", b.frames_seen)
  <2>1. Due(late) /\ emit(b, e, "complete")
    BY <1>14 DEF TickFinishes, finish_multi, b
  <2>2. e.kind # "TIMEOUT" /\ e.frames = bms.frames_seen
    BY <1>8 DEF ResponseEvent, ErrorEvent
  <2> HIDE DEF e
  <2>3. ASSUME e.frames < bms.expected_frames
        PROVE  bms.sent \in lost
    <3>1. bms.expected_frames \in Nat /\ bms.frames_seen \in Nat
      BY <1>2 DEF Object, Byte
    <3>2. bms.frames_seen < FrameTotal(bms)
      BY <2>2, <2>3, <3>1 DEF FrameTotal
    <3> QED
      BY <1>13, <2>1, <3>2
  <2> QED
    BY <1>12, <2>1, <2>2, <2>3
<1>15. CASE TickTruncates(late)
  <2>1. Due(late) /\ Streaming(bms) /\ bms.frames_seen > 0
    BY <1>15 DEF TickTruncates
  <2>2. bms.frames_seen = 0
    BY <1>10, <2>1 DEF InHand, Paged
  <2> QED
    BY <2>1, <2>2
<1>16. ASSUME Unanswered(late)
       PROVE  Due(late) /\ bms.frames_seen = 0 /\ bms.sent \in lost
  <2>1. Due(late) /\ ~(Multi(bms) /\ bms.frames_seen > 0)
    BY <1>16 DEF Unanswered
  <2>2. bms.frames_seen \in Nat /\ FrameTotal(bms) \in Nat /\ FrameTotal(bms) >= 1
    BY <1>2, CountsType
  <2>3. bms.frames_seen = 0
    BY <1>10, <2>1, <2>2 DEF InHand, Paged
  <2> QED
    BY <1>13, <2>1, <2>2, <2>3
<1>17. CASE TickTimesOut(late)
  <2>1. Unanswered(late) /\ emit(b, TimeoutEvent(head(bms).id, bms.retries), "complete")
    BY <1>17 DEF TickTimesOut, b
  <2> QED
    BY <1>12, <1>16, <2>1
<1>18. CASE TickRetries(late)
  <2>1. /\ Unanswered(late) /\ bms.retries < bms.max_retries
        /\ bms' = transmit([At(late) EXCEPT !.retries = @ + 1]) /\ stack' = stack
    BY <1>18 DEF TickRetries
  <2>2. /\ bms.state = "AWAITING" /\ line = <<>> /\ uart = <<>> /\ InHand(bms)
        /\ bms.frames_seen = 0 /\ bms.sent \in lost
    BY <1>10, <1>16, <2>1
  <2>3. bms.retries + 1 \in Byte
    BY <1>2, <2>1, RetryByte DEF Object
  <2>4. /\ Plugged(bms') /\ bms'.state = "AWAITING" /\ InHand(bms') /\ Opened(bms')
        /\ bms'.sent = [ctx |-> bms.sent.ctx, tries |-> bms.sent.tries + 1]
    BY <1>2, <1>3, <2>1, <2>2, <2>3, RetryOpens
  <2>5. bms.sent \in [ctx : Nat, tries : Nat]
    BY <1>2 DEF Object
  <2>6. bms'.sent # bms.sent /\ bms'.sent.ctx = bms.sent.ctx /\ bms'.sent.tries = bms.sent.tries + 1
    BY <2>4, <2>5
  <2>7. LinkTyped' /\ LinkTraffic' /\ lost' = lost
    BY <1>1, <1>3, <1>4, <2>1, <2>2, <2>4, <2>6, AnswerStarts
  <2>8. ASSUME NEW t \in 1..(bms'.sent.tries - 1)
        PROVE  [bms'.sent EXCEPT !.tries = t] \in lost'
    <3>1. [bms'.sent EXCEPT !.tries = t] = [bms.sent EXCEPT !.tries = t]
      BY <2>4, <2>5
    <3>2. CASE t = bms.sent.tries
      BY <2>2, <2>5, <2>7, <3>1, <3>2
    <3>3. CASE t # bms.sent.tries
      <4>1. t \in 1..(bms.sent.tries - 1)
        BY <2>5, <2>6, <3>3
      <4> QED
        BY <1>1, <2>7, <3>1, <4>1 DEF PromptReplyHeard
    <3> QED
      BY <3>2, <3>3
  <2>9. PromptReplyHeard'
    <3>1. DOMAIN stack' = {}
      BY <1>1, <2>1
    <3> QED
      BY <2>8, <3>1 DEF PromptReplyHeard
  <2> QED
    BY <1>1, <1>5, <2>1, <2>4, <2>7, <2>9
<1> QED
  BY <1>1, <1>11, <1>14, <1>15, <1>17, <1>18 DEF Tick

(* Noting the counts of the pack changes nothing of the wait.              *)
LEMMA CountsNoted ==
    ASSUME NEW b \in Object, NEW id, NEW data \in Data, NEW c, c = note_counts(b, id, data)
    PROVE  c \in Object /\ SameWait(b, c) /\ (Plugged(b) => Plugged(c))
<1>1. c \in Object
  BY NoteCountsFacts DEF Untouched
<1>2. /\ c.queue = b.queue /\ c.queue_head = b.queue_head /\ c.state = b.state /\ c.sent = b.sent
      /\ c.expected_frames = b.expected_frames
      /\ c.seen_mask = b.seen_mask /\ c.frames_seen = b.frames_seen
      /\ c.tx_fn = b.tx_fn /\ SameTimeouts(b, c)
  BY DEF note_counts, Object, SameTimeouts
<1>3. SameWait(b, c)
  BY <1>2 DEF SameWait, head
<1>4. Plugged(b) => Plugged(c)
  BY <1>2, Zenon DEF Plugged, SameTimeouts
<1> QED
  BY <1>1, <1>3, <1>4

(* A counter of one byte is a number.                                      *)
LEMMA ByteIsNat ==
    ASSUME NEW x \in Byte
    PROVE  x \in Nat
BY DEF Byte

(* The frame read next is one the session can be waiting for.              *)
LEMMA NextRead ==
    ASSUME LinkTyped, LinkSession, LinkTraffic, stack = <<>>, uart # <<>>,
           NEW f, f = Head(uart).frame
    PROVE  /\ Waiting /\ bms.state = "AWAITING"
           /\ f \in AnyFrame /\ f.src = BmsAddress /\ f.data \in Data /\ f.data[0] \in Byte
           /\ f.id \in {NONE, head(bms).id}
           /\ Streaming(bms) => f.data[0] = FRAME_NO_END
           /\ Paged(bms) => f.data[0] \in 0..MAX_FRAME_INDEX
<1>1. Waiting
  BY DEF LinkTraffic
<1>2. /\ bms \in Object /\ InHand(bms) /\ line \in Seq(Packet) /\ uart \in Seq(Packet)
      /\ OnUart(bms, line, uart)
  BY <1>1, WaitingFacts
<1>3. Head(uart) \in Packet
  BY <1>2, TakeFirst
<1>4. f \in [src : {BmsAddress}, id : Byte, data : Data]
  BY <1>3 DEF Packet
<1>5. f \in AnyFrame /\ f.src = BmsAddress /\ f.data \in Data
  BY <1>4, InputAssumption DEF AnyFrame
<1>6. f.data[0] \in Byte
  BY <1>5 DEF Data
<1>7. /\ f.id \in {NONE, head(bms).id}
      /\ Streaming(bms) => f.data[0] = FRAME_NO_END
      /\ Paged(bms) => f.data[0] \in 1..Out(bms, line)
  BY <1>2, ReadLeaves
<1>8. Out(bms, line) \in Int /\ Out(bms, line) <= MAX_FRAME_INDEX
  <2>1. Len(line) \in Nat
    BY <1>2
  <2>2. FrameTotal(bms) \in Nat
    BY <1>2, CountsType
  <2>3. bms.expected_frames \in Nat
    <3>1. bms.expected_frames \in Byte
      BY <1>2 DEF Object
    <3> QED
      BY <3>1, ByteIsNat
  <2>4. FrameTotal(bms) <= MAX_FRAME_INDEX
    BY <1>2, <2>3 DEF InHand, FrameTotal, MAX_FRAME_INDEX
  <2>5. ASSUME NEW m \in Nat, NEW n \in Nat, m <= MAX_FRAME_INDEX
        PROVE  m - n \in Int /\ m - n <= MAX_FRAME_INDEX
    BY <2>5 DEF MAX_FRAME_INDEX
  <2> QED
    BY <2>1, <2>2, <2>4, <2>5 DEF Out
<1>9. Paged(bms) => f.data[0] \in 0..MAX_FRAME_INDEX
  <2>1. ASSUME NEW m \in Int, m <= MAX_FRAME_INDEX, NEW no \in 1..m
        PROVE  no \in 0..MAX_FRAME_INDEX
    BY <2>1 DEF MAX_FRAME_INDEX
  <2> QED
    BY <1>7, <1>8, <2>1
<1> QED
  BY <1>1, <1>5, <1>6, <1>7, <1>9 DEF Waiting

(* Something corrupt is read: it is reported, and the wait goes on.        *)
LEMMA CorruptRead ==
    ASSUME LinkTyped, LinkSession, LinkTraffic, PromptReplyHeard, stack = <<>>, uart # <<>>,
           loop = "read", loop' = "read", late' = late, uart' = Tail(uart), Transmits,
           Head(uart).frame.id = NONE, OnFrameError("CHECKSUM")
    PROVE  /\ LinkTyped' /\ LinkTraffic' /\ PromptReplyHeard'
           /\ Plugged(bms') /\ InHand(bms') /\ stack'[1].then # "stream"
<1>1. Waiting
  BY NextRead
<1>2. /\ bms \in Object /\ InHand(bms) /\ Plugged(bms) /\ line \in Seq(Packet)
      /\ uart \in Seq(Packet) /\ late \in 0..LoopPeriod /\ waited \in Nat
      /\ OnLine(bms, line) /\ OnUart(bms, line, uart) /\ Balance(bms, line, uart, lost)
      /\ InTime(bms, line, uart, "read", late, waited)
  BY <1>1, WaitingFacts
<1>3. PICK e : e.kind = "PROTOCOL_ERROR" /\ emit(bms, e, "return")
  BY DEF OnFrameError, ErrorEvent
<1>4. /\ stack' # <<>> /\ DOMAIN stack' = {1} /\ stack'[1].event = e /\ stack'[1].then = "return"
      /\ SameWait(bms, bms') /\ SameLeft(bms, bms') /\ Plugged(bms')
  BY <1>2, <1>3, EmitOpens
<1>5. Waiting' /\ bms'.sent = bms.sent /\ Left(bms') = Left(bms)
  BY <1>1, <1>4 DEF Waiting, Settling, SameWait, SameLeft, Left
<1>6. line' = line /\ waited' = waited /\ lost' = lost
  BY <1>5 DEF Transmits
<1>7. /\ Tail(uart) \in Seq(Packet) /\ OnUart(bms, line, Tail(uart))
      /\ Balance(bms, line, Tail(uart), lost)
  BY <1>2, ReadLeaves, CorruptBooks
<1>8. /\ OnLine(bms', line) /\ OnUart(bms', line, Tail(uart)) /\ Balance(bms', line, Tail(uart), lost)
      /\ InHand(bms')
  BY <1>2, <1>4, <1>7, SameWaitKeeps
<1>9. InTime(bms', line, Tail(uart), "read", late, waited)
  BY <1>2, <1>5 DEF InTime
<1>10. LinkTraffic'
  BY <1>5, <1>6, <1>8, <1>9 DEF LinkTraffic
<1>11. LinkTyped'
  BY <1>2, <1>6, <1>7 DEF LinkTyped
<1>12. PromptReplyHeard'
  BY <1>3, <1>4, <1>5, <1>6 DEF PromptReplyHeard
<1> QED
  BY <1>4, <1>8, <1>10, <1>11, <1>12

(* A reply of one frame is read: its outcome is reported.                  *)
LEMMA SingleRead ==
    ASSUME LinkTyped, LinkSession, LinkTraffic, PromptReplyHeard, stack = <<>>, uart # <<>>,
           late' = late, uart' = Tail(uart), Transmits, NEW f, f = Head(uart).frame,
           HandleSingle(f)
    PROVE  /\ LinkTyped' /\ LinkTraffic' /\ PromptReplyHeard'
           /\ Plugged(bms') /\ InHand(bms') /\ stack'[1].then # "stream"
<1>1. Waiting /\ f.data \in Data
  BY NextRead
<1>2. /\ bms \in Object /\ InHand(bms) /\ Plugged(bms) /\ line \in Seq(Packet)
      /\ uart \in Seq(Packet) /\ late \in 0..LoopPeriod /\ Balance(bms, line, uart, lost)
  BY <1>1, WaitingFacts
<1> DEFINE b == note_counts(bms, f.id, f.data)
           e == SingleEvent(f)
<1>3. f.id = head(bms).id /\ multiframe_info(f.id).multi = FALSE /\ emit(b, e, "complete")
  BY DEF HandleSingle, Reply
<1>4. bms.expected_frames = 0 /\ bms.frames_seen = 0
  BY <1>2, <1>3 DEF InHand, Paged, Multi
<1>5. line = <<>> /\ uart' = <<>>
  <2>1. bms.frames_seen + 1 >= FrameTotal(bms)
    BY <1>4 DEF FrameTotal
  <2> QED
    BY <1>2, <2>1, LastIsLast
<1>6. b \in Object /\ SameWait(bms, b) /\ Plugged(b)
  BY <1>1, <1>2, CountsNoted
<1>7. e.kind # "TIMEOUT" /\ e.frames = 1
  BY DEF SingleEvent, ResponseEvent, ErrorEvent
<1> HIDE DEF b, e
<1>8. b.sent = bms.sent /\ b.expected_frames = 0 /\ InHand(b)
  BY <1>2, <1>4, <1>6, SameWaitKeeps DEF SameWait
<1>9. ~(e.frames < b.expected_frames)
  BY <1>7, <1>8
<1> QED
  BY <1>2, <1>3, <1>5, <1>6, <1>7, <1>8, <1>9, Settles

(* A numbered frame is read: it is filed.                                  *)
LEMMA PageRead ==
    ASSUME LinkTyped, LinkSession, LinkTraffic, PromptReplyHeard, stack = <<>>, uart # <<>>,
           loop = "read", loop' = "read", late' = late, uart' = Tail(uart), Transmits,
           NEW f, f = Head(uart).frame, f.id # NONE, HandleMultiLast(f) \/ HandleMultiMore(f)
    PROVE  /\ LinkTyped' /\ LinkTraffic' /\ PromptReplyHeard'
           /\ Plugged(bms') /\ InHand(bms')
           /\ stack' # <<>> => stack'[1].then # "stream"
<1> DEFINE no == f.data[0]
           filed == FileFrame(bms, no)
           c == await_next_frame(filed)
<1>1. /\ f.id = head(bms).id /\ multiframe_info(f.id).multi = TRUE
      /\ multiframe_info(f.id).streaming = FALSE
  BY DEF HandleMultiLast, HandleMultiMore, AcceptFrame, Reply
<1>2. Waiting /\ Paged(bms) /\ no \in 0..MAX_FRAME_INDEX
  <2>1. Paged(bms)
    BY <1>1 DEF Paged, Multi, Streaming
  <2> QED
    BY <2>1, NextRead
<1>3. /\ bms \in Object /\ InHand(bms) /\ Plugged(bms) /\ line \in Seq(Packet)
      /\ uart \in Seq(Packet) /\ late \in 0..LoopPeriod /\ waited \in Nat
      /\ OnLine(bms, line) /\ OnUart(bms, line, uart) /\ Balance(bms, line, uart, lost)
      /\ InTime(bms, line, uart, "read", late, waited)
  BY <1>2, WaitingFacts
<1>4. line # <<>> => waited <= line[1].within
  BY <1>3 DEF InTime
<1>5. /\ c.frames_seen = bms.frames_seen + 1 /\ InHand(c) /\ Plugged(c)
      /\ c.sent = bms.sent /\ c.state = bms.state /\ c.expected_frames = bms.expected_frames
      /\ OnLine(c, line) /\ OnUart(c, line, Tail(uart)) /\ Balance(c, line, Tail(uart), lost)
      /\ InTime(c, line, Tail(uart), "read", late, waited)
  BY <1>2, <1>3, <1>4, FiledBooks
<1>6. Tail(uart) \in Seq(Packet)
  BY <1>3, TakeFirst
<1>7. filed \in Object
  BY <1>2, <1>3, FileFrameFacts DEF Untouched
<1> HIDE DEF filed
<1>8. SameWait(c, filed) /\ (Plugged(c) => Plugged(filed))
  BY <1>7 DEF SameWait, await_next_frame, head, Plugged, Object
<1>9. /\ filed.frames_seen = bms.frames_seen + 1 /\ filed.sent = bms.sent
      /\ filed.expected_frames = bms.expected_frames /\ InHand(filed) /\ Plugged(filed)
  BY <1>5, <1>8, SameWaitKeeps DEF SameWait
<1> HIDE DEF c
<1>10. CASE HandleMultiLast(f)
  <2> DEFINE e == IF decode_multi(f.id) THEN ResponseEvent(f.id, filed.frames_seen)
                  ELSE ErrorEvent(f.id, "UNKNOWN_DATA_ID", filed.frames_seen)
  <2>1. /\ filed.expected_frames # 0 /\ filed.frames_seen >= filed.expected_frames
        /\ emit(filed, e, "complete")
    BY <1>10 DEF HandleMultiLast, AllFramesIn, finish_multi, filed
  <2>2. e.kind # "TIMEOUT" /\ e.frames = filed.frames_seen
    BY DEF ResponseEvent, ErrorEvent
  <2> HIDE DEF e
  <2>3. bms.expected_frames \in Nat /\ bms.frames_seen \in Nat
    <3>1. bms.expected_frames \in Byte /\ bms.frames_seen \in Byte
      BY <1>3 DEF Object
    <3> QED
      BY <3>1, ByteIsNat
  <2>4. bms.frames_seen + 1 >= FrameTotal(bms) /\ ~(e.frames < filed.expected_frames)
    BY <1>9, <2>1, <2>2, <2>3 DEF FrameTotal
  <2>5. line = <<>> /\ uart' = <<>>
    BY <1>3, <2>4, LastIsLast
  <2> QED
    BY <1>3, <1>7, <1>9, <2>1, <2>2, <2>4, <2>5, Settles
<1>11. CASE HandleMultiMore(f)
  <2>1. bms' = c /\ stack' = stack
    BY <1>11 DEF HandleMultiMore, c, filed
  <2>2. line' = line /\ waited' = waited /\ lost' = lost
    BY <1>5, <2>1 DEF Transmits
  <2>3. Waiting' = Waiting
    BY <1>5, <2>1 DEF Waiting, Settling
  <2>4. LinkTraffic'
    BY <1>2, <1>5, <2>1, <2>2, <2>3 DEF LinkTraffic
  <2>5. LinkTyped'
    BY <1>3, <1>6, <2>2 DEF LinkTyped
  <2>6. PromptReplyHeard'
    BY <1>5, <2>1, <2>2, QuietlyHeard
  <2> QED
    BY <1>5, <2>1, <2>4, <2>5, <2>6
<1> QED
  BY <1>10, <1>11

(* The end of the stream of fault records is read.                         *)
LEMMA StreamEndRead ==
    ASSUME LinkTyped, LinkSession, LinkTraffic, PromptReplyHeard, stack = <<>>, uart # <<>>,
           late' = late, uart' = Tail(uart), Transmits, bms' \in Object,
           NEW f, f = Head(uart).frame, HandleStreamEnd(f)
    PROVE  /\ LinkTyped' /\ LinkTraffic' /\ PromptReplyHeard'
           /\ Plugged(bms') /\ (bms'.state = "AWAITING" => InHand(bms')) /\ stack' = <<>>
<1>1. Waiting
  BY NextRead
<1>2. /\ bms \in Object /\ InHand(bms) /\ Plugged(bms) /\ line \in Seq(Packet)
      /\ uart \in Seq(Packet) /\ late \in 0..LoopPeriod /\ Balance(bms, line, uart, lost)
  BY <1>1, WaitingFacts
<1>3. /\ f.id = head(bms).id /\ multiframe_info(f.id).streaming = TRUE
      /\ bms' = complete(bms) /\ stack' = <<>>
  BY DEF HandleStreamEnd, Reply
<1>4. bms.expected_frames = 0 /\ bms.frames_seen = 0
  BY <1>2, <1>3 DEF InHand, Paged, Streaming
<1>5. line = <<>> /\ uart' = <<>>
  <2>1. bms.frames_seen + 1 >= FrameTotal(bms)
    BY <1>4 DEF FrameTotal
  <2> QED
    BY <1>2, <2>1, LastIsLast
<1>6. Traffic(bms, Len(fate)) /\ Len(fate) \in Nat
  BY DEF LinkSession, Booked, Good
<1> QED
  BY <1>2, <1>3, <1>5, <1>6, CompletionKeeps

(* feed() of the next thing that has arrived.                              *)
LEMMA ReadKeeps ==
    ASSUME LinkUp, LoopReads
    PROVE  LinkUp'
<1> DEFINE f == Head(uart).frame
<1>1. /\ LinkTyped /\ LinkSession /\ LinkTraffic /\ PromptReplyHeard
      /\ loop = "read" /\ stack = <<>> /\ uart # <<>> /\ Transmits
      /\ f.id = NONE => OnFrameError("CHECKSUM")
      /\ f.id # NONE => OnFrame(f)
      /\ uart' = Tail(uart) /\ loop' = "read" /\ late' = late
  BY DEF LinkUp, LoopReads
<1>2. /\ bms.state = "AWAITING" /\ f \in AnyFrame /\ f.src = BmsAddress
      /\ f.id \in {NONE, head(bms).id} /\ f.data[0] \in Byte
      /\ Streaming(bms) => f.data[0] = FRAME_NO_END
      /\ Paged(bms) => f.data[0] \in 0..MAX_FRAME_INDEX
  BY <1>1, NextRead
<1> HIDE DEF f
<1>3. Delivers
  BY <1>1, <1>2 DEF Delivers
<1>4. Good(bms', stack', fate') /\ Booked' /\ Flat' /\ bms' \in Object
  BY <1>1, <1>3, SessionDriven
<1>5. ASSUME Plugged(bms'), bms'.state = "AWAITING" => InHand(bms'),
             stack' # <<>> => stack'[1].then # "stream", LinkTyped', LinkTraffic', PromptReplyHeard'
      PROVE  LinkUp'
  BY <1>1, <1>4, <1>5 DEF LinkUp, LinkSession
<1>6. CASE f.id = NONE
  BY <1>1, <1>5, <1>6, CorruptRead DEF f
<1>7. CASE f.id # NONE
  <2>1. f.id = head(bms).id /\ OnFrame(f)
    BY <1>1, <1>2, <1>7
  <2>2. ~RejectIdle(f) /\ ~RejectSource(f) /\ ~RejectId(f)
    BY <1>2, <2>1 DEF RejectIdle, RejectSource, RejectId
  <2>3. ~RejectFrameNo(f)
    <3>1. RejectFrameNo(f) => Paged(bms) /\ f.data[0] > MAX_FRAME_INDEX
      BY <2>1 DEF RejectFrameNo, Reply, Paged, Multi, Streaming
    <3>2. f.data[0] \in 0..MAX_FRAME_INDEX => ~(f.data[0] > MAX_FRAME_INDEX)
      BY DEF MAX_FRAME_INDEX
    <3> QED
      BY <1>2, <3>1, <3>2
  <2>4. ~HandleStreamMore(f) /\ ~HandleStreamRecord(f)
    BY <1>2, <2>1 DEF HandleStreamMore, HandleStreamRecord, AcceptRecord, Reply, Streaming
  <2>5. CASE HandleSingle(f)
    BY <1>1, <1>5, <2>5, SingleRead DEF f
  <2>6. CASE HandleMultiLast(f) \/ HandleMultiMore(f)
    BY <1>1, <1>5, <1>7, <2>6, PageRead DEF f
  <2>7. CASE HandleStreamEnd(f)
    BY <1>1, <1>4, <1>5, <2>7, StreamEndRead DEF f
  <2> QED
    BY <2>1, <2>2, <2>3, <2>4, <2>5, <2>6, <2>7 DEF OnFrame
<1> QED
  BY <1>6, <1>7

-----------------------------------------------------------------------------
(* The invariant, and what follows.                                        *)

(* setup(): the handler is set and the first tick() has told the time.     *)
LEMMA SetupStarts ==
    ASSUME LinkInit, Setup
    PROVE  LinkUp'
<1>1. Init /\ line = <<>> /\ uart = <<>> /\ late = 0 /\ waited = 0
  BY DEF LinkInit
<1>2. PICK clock \in Timeout : bms' = [bms EXCEPT !.tx_fn = TRUE, !.now_ms = clock]
  BY DEF Setup
<1>3. /\ loop' = "work" /\ stack' = stack /\ fate' = fate /\ late' = late /\ line' = line
      /\ waited' = waited /\ uart' = uart
  BY DEF Setup
<1>4. Good(bms, stack, fate) /\ bms \in Object
  BY <1>1, InitGood DEF Good, Sound
<1>5. /\ stack = <<>> /\ fate = <<>> /\ Len(fate) = 0 /\ bms.state = "IDLE" /\ bms.queue_count = 0
      /\ bms.sent = [ctx |-> 0, tries |-> 0] /\ bms.dispatching = FALSE
      /\ bms.queue = [i \in Slots |-> NoRequest]
      /\ bms.response_timeout_ms = DEFAULT_RESPONSE_TIMEOUT_MS
      /\ bms.interframe_timeout_ms = DEFAULT_INTERFRAME_TIMEOUT_MS
  BY <1>1 DEF Init
<1>6. /\ Untouched(bms, bms') /\ bms'.tx_fn = TRUE /\ bms'.queue = bms.queue
      /\ SameTimeouts(bms, bms') /\ bms' \in Object
  BY <1>2, <1>4 DEF Untouched, SameQueue, SameTimeouts, Object
<1>7. Good(bms', stack', fate')
  BY <1>3, <1>4, <1>6, UntouchedSound DEF Good
<1>8. bms'.state = "IDLE" /\ bms'.queue_count = 0 /\ bms'.sent = bms.sent /\ bms'.dispatching = FALSE
  BY <1>5, <1>6 DEF Untouched, SameQueue
<1>9. Booked'
  <2>1. Sound(bms', Len(fate'))
    BY <1>7 DEF Good
  <2>2. SentBefore(bms', Len(fate'))
    <3>1. bms'.sent.ctx = 0 /\ Len(fate') = 0 /\ bms'.queue_count = 0 /\ bms'.state # "AWAITING"
      BY <1>3, <1>5, <1>8
    <3> QED
      BY <3>1 DEF SentBefore
  <2> QED
    BY <1>6, <1>8, <2>1, <2>2, IdleTraffic DEF Booked
<1>10. Plugged(bms')
  <2>1. Fits(NoRequest)
    <3>1. NoRequest.id = CAPACITY_VOLTAGE
      BY DEF NoRequest
    <3>2. /\ CAPACITY_VOLTAGE # CELL_VOLTAGES /\ CAPACITY_VOLTAGE # CELL_TEMPERATURES
          /\ CAPACITY_VOLTAGE # NONE /\ multiframe_info(CAPACITY_VOLTAGE).frame_count = 0
      BY DEF CAPACITY_VOLTAGE, CELL_VOLTAGES, CELL_TEMPERATURES, NONE, multiframe_info,
             ManufacturerName, LongText, Versions, FAULT_RECORDS, Layout
    <3>3. 0 <= MaxFrames
      BY LinkTimes
    <3> QED
      BY <3>1, <3>2, <3>3 DEF Fits, ReplyFits
  <2> HIDE DEF NoRequest
  <2>2. \A s \in Slots : Fits(bms'.queue[s])
    BY <1>5, <1>6, <2>1
  <2> QED
    BY <1>5, <1>6, <2>2 DEF Plugged, SameTimeouts
<1>11. Flat' /\ LinkSession'
  <2>1. Len(stack') <= 1 /\ stack' = <<>>
    BY <1>3, <1>5
  <2> QED
    BY <1>7, <1>8, <1>9, <1>10, <2>1 DEF Flat, LinkSession
<1>12. LinkTyped' /\ LinkTraffic'
  BY <1>1, <1>3, <1>8, LinkTimes DEF LinkTyped, LinkTraffic, Waiting
<1>13. PromptReplyHeard'
  <2>1. 1..(bms'.sent.tries - 1) = {}
    BY <1>5, <1>8
  <2>2. DOMAIN stack' = {}
    BY <1>3, <1>5
  <2> QED
    BY <2>1, <2>2, Zenon DEF PromptReplyHeard
<1> QED
  BY <1>3, <1>11, <1>12, <1>13 DEF LinkUp

(* Every step keeps the invariant.                                         *)
LEMMA LinkStep ==
    ASSUME LinkInv, [LinkNext]_linkVars
    PROVE  LinkInv'
<1>1. CASE loop = "setup" /\ LinkInit /\ LinkNext
  <2>1. stack = <<>> /\ line = <<>>
    BY <1>1 DEF LinkInit, Init
  <2>2. ~HandlerReturns
    BY <2>1 DEF HandlerReturns, Return, SessionHandlerRuns, EmitReturns
  <2>3. Setup
    BY <1>1, <2>1, <2>2
       DEF LinkNext, LoopTicks, LoopReads, LoopIsThrough, LoopPolls, FrameArrives, FrameSpoiled, TimePasses
  <2> QED
    BY <1>1, <2>3, SetupStarts DEF LinkInv
<1>2. CASE LinkUp /\ LinkNext
  <2>1. ~Setup
    BY <1>2 DEF LinkUp, Setup
  <2> QED
    BY <1>2, <2>1, TickKeeps, ReadKeeps, LoopIsThroughKeeps, PollKeeps, ReturnKeeps, LineMoves,
       TimePassesKeeps DEF LinkNext, LinkInv
<1>3. CASE UNCHANGED linkVars
  <2>1. /\ bms' = bms /\ stack' = stack /\ fate' = fate /\ loop' = loop /\ late' = late
        /\ line' = line /\ waited' = waited /\ uart' = uart /\ lost' = lost
    BY <1>3 DEF linkVars
  <2>2. LinkInit => LinkInit'
    BY <2>1 DEF LinkInit, Init
  <2>3. ASSUME LinkUp
        PROVE  LinkUp'
    <3>1. LinkSession' /\ Waiting' = Waiting /\ PromptReplyHeard'
      BY <2>1, <2>3, SessionStays, StaysHeard DEF LinkUp
    <3>2. LinkTyped' /\ LinkTraffic'
      BY <2>1, <2>3, <3>1 DEF LinkUp, LinkTyped, LinkTraffic
    <3> QED
      BY <2>1, <2>3, <3>1, <3>2 DEF LinkUp
  <2> QED
    BY <2>1, <2>2, <2>3 DEF LinkInv
<1> QED
  BY <1>1, <1>2, <1>3 DEF LinkInv

(* What is read is of the reply awaited.                                   *)
LEMMA InvAnswers ==
    ASSUME LinkInv
    PROVE  AnswersItsOwn
<1>1. CASE loop = "setup" /\ LinkInit
  BY <1>1 DEF LinkInit, AnswersItsOwn
<1>2. CASE LinkUp
  <2> SUFFICES ASSUME NEW i \in DOMAIN uart
               PROVE  bms.state = "AWAITING" /\ uart[i].of = bms.sent
    BY DEF AnswersItsOwn
  <2>1. uart # <<>> /\ LinkTyped /\ LinkSession /\ LinkTraffic
    BY <1>2 DEF LinkUp
  <2>2. Waiting
    BY <2>1 DEF LinkTraffic
  <2>3. OnUart(bms, line, uart) /\ uart \in Seq(Packet)
    BY <2>1, <2>2, WaitingFacts
  <2>4. i \in 1..Len(uart)
    BY <2>3
  <2> QED
    BY <2>2, <2>3, <2>4, Zenon DEF OnUart, Waiting
<1> QED
  BY <1>1, <1>2 DEF LinkInv

(* Nothing has been sent twice or reported when the session is new.        *)
LEMMA InvHeard ==
    ASSUME LinkInv
    PROVE  PromptReplyHeard
<1>1. CASE loop = "setup" /\ LinkInit
  <2>1. stack = <<>> /\ bms.sent.tries = 0
    BY <1>1 DEF LinkInit, Init
  <2>2. 1..(bms.sent.tries - 1) = {} /\ DOMAIN stack = {}
    BY <2>1
  <2> QED
    BY <2>2, Zenon DEF PromptReplyHeard
<1> QED
  BY <1>1 DEF LinkInv, LinkUp

(* The session on its line keeps the invariant.                            *)
LEMMA LinkInvariant == LinkSpec => []LinkInv
<1>1. LinkInit => LinkInv
  BY DEF LinkInit, LinkInv
<1>2. LinkInv /\ [LinkNext]_linkVars => LinkInv'
  BY LinkStep
<1> QED
  BY <1>1, <1>2, PTL DEF LinkSpec

(* on_frame() never takes a frame of an earlier request or of an earlier   *)
(* attempt for an answer: whatever has arrived and is unread answers the   *)
(* latest transmission of the request in flight.                           *)
THEOREM ReadsItsOwnAnswers == LinkSpec => []AnswersItsOwn
<1>1. LinkInv => AnswersItsOwn
  BY InvAnswers
<1> QED
  BY <1>1, LinkInvariant, PTL

(* tick() resends a request, reports a timeout or a short reply only when  *)
(* the line lost something of every attempt.                               *)
THEOREM PromptRepliesHeard == LinkSpec => []PromptReplyHeard
<1>1. LinkInv => PromptReplyHeard
  BY InvHeard
<1> QED
  BY <1>1, LinkInvariant, PTL

=============================================================================
