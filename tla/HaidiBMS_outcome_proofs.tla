----------------------- MODULE HaidiBMS_outcome_proofs -----------------------
(***************************************************************************)
(* Proofs that every accepted request gets one outcome, that one request   *)
(* at a time is on the wire, and that the session implements module        *)
(* RequestQueue, for every capacity, clock, set of requests and set of     *)
(* frames, when no handler calls feed() or tick().                         *)
(*                                                                         *)
(* The ring holds the requests accepted last (module HaidiBMS_proofs), so  *)
(* that which requests are still in it is a matter of their numbers: the   *)
(* oldest one has number First, and the others follow.                     *)
(***************************************************************************)
EXTENDS HaidiBMS_proofs

FirstOf(b, n) == n - b.queue_count + 1

First == FirstOf(bms, Len(fate))

(* The final event of the head request is being dispatched.                *)
Closing == stack # <<>> /\ stack[1].then = "complete" /\ bms.state = "AWAITING"

(* A request before First has its outcome; from First on it has none, but  *)
(* for the head while Closing.                                             *)
Accounted ==
    /\ Good(bms, stack, fate) /\ Flat
    /\ bms.queue_count <= Len(fate)
    /\ \A s \in 1..Len(fate) :
           /\ fate[s] # "twice"
           /\ fate[s] = "pending" => First <= s
           /\ First <= s /\ fate[s] # "pending" => s = First /\ Closing /\ stack[1].owner = First
    /\ Closing => fate[First] # "pending"

(* What is on the wire was sent in order: a request behind it has not been *)
(* transmitted.                                                            *)
SentInOrder ==
    /\ bms.sent.ctx <= Len(fate)
    /\ bms.state = "AWAITING" => bms.sent.ctx <= First
    /\ bms.state = "IDLE" /\ bms.queue_count > 0 => bms.sent.ctx < First

-----------------------------------------------------------------------------
(* The ring by number.                                                     *)

(* The head of the ring is the oldest request in it.                       *)
LEMMA HeadIsFirst ==
    ASSUME NEW b, NEW n \in Nat, Sound(b, n), b.queue_count > 0
    PROVE  head(b).ctx = FirstOf(b, n)
<1>1. b \in Object /\ b.queue_head \in Slots /\ b.queue_count \in 0..QUEUE_CAPACITY
  BY DEF Sound, Object
<1>2. 0 \in 0..(b.queue_count - 1) /\ 0 \in 0..QUEUE_CAPACITY
  BY <1>1, CapacityAssumption
<1>3. (b.queue_head + 0) % QUEUE_CAPACITY = b.queue_head
  <2>1. (b.queue_head + 0) % QUEUE_CAPACITY =
           IF b.queue_head + 0 < QUEUE_CAPACITY THEN b.queue_head + 0
           ELSE b.queue_head + 0 - QUEUE_CAPACITY
    BY <1>1, <1>2, SlotIndex
  <2> QED
    BY <1>1, <2>1, CapacityAssumption DEF Slots
<1>4. Queued(b, 0) = head(b)
  BY <1>3 DEF Queued, head
<1>5. Queued(b, 0).ctx = n - b.queue_count + 1 + 0
  BY <1>2 DEF Sound, Ring
<1> QED
  BY <1>1, <1>4, <1>5 DEF FirstOf

(* A request is in the ring when its number is First or later.             *)
LEMMA LiveByNumber ==
    ASSUME NEW b, NEW n \in Nat, Sound(b, n), NEW s \in 1..n
    PROVE  Live(b, s) <=> FirstOf(b, n) <= s
<1>1. b.queue_count \in 0..QUEUE_CAPACITY /\ b.queue_count \in Nat
  BY CapacityAssumption DEF Sound, Object
<1>2. ASSUME Live(b, s) PROVE FirstOf(b, n) <= s
  <2>1. PICK i \in 0..(b.queue_count - 1) : Queued(b, i).ctx = s
    BY <1>2 DEF Live
  <2>2. Queued(b, i).ctx = n - b.queue_count + 1 + i
    BY DEF Sound, Ring
  <2> QED
    BY <1>1, <2>1, <2>2 DEF FirstOf
<1>3. ASSUME FirstOf(b, n) <= s PROVE Live(b, s)
  <2> DEFINE i == s - FirstOf(b, n)
  <2>1. i \in 0..(b.queue_count - 1) /\ n - b.queue_count + 1 + i = s
    BY <1>1, <1>3 DEF FirstOf
  <2>2. Queued(b, i).ctx = n - b.queue_count + 1 + i
    BY <2>1 DEF Sound, Ring
  <2> QED
    BY <2>1, <2>2 DEF Live
<1> QED
  BY <1>2, <1>3

(* The request in flight is the oldest one.                                *)
LEMMA InFlightIsFirst ==
    ASSUME NEW b, NEW n \in Nat, Sound(b, n)
    PROVE  InFlight(b) = IF b.state = "AWAITING" THEN FirstOf(b, n) ELSE 0
BY HeadIsFirst DEF InFlight, Sound

-----------------------------------------------------------------------------
(* What the methods put on the wire.                                       *)

(* pump() transmits the head request of an idle session, and nothing else. *)
LEMMA PumpSends ==
    ASSUME NEW b, NEW n \in Nat, Sound(b, n)
    PROVE  /\ pump(b).state = IF b.queue_count > 0 THEN "AWAITING" ELSE "IDLE"
           /\ pump(b).queue_count = b.queue_count
           /\ \/ pump(b).sent = b.sent
              \/ b.state = "IDLE" /\ b.queue_count > 0 /\ pump(b).sent.ctx = FirstOf(b, n)
<1> DEFINE started == [b EXCEPT !.state = "AWAITING"]
<1>0. b \in Object /\ b.queue_count \in Nat /\ b.state \in {"IDLE", "AWAITING"}
  BY CapacityAssumption DEF Sound, Object
<1>1. CASE b.state # "IDLE" \/ b.queue_count = 0
  BY <1>0, <1>1 DEF pump, Sound
<1>2. CASE ~(b.state # "IDLE" \/ b.queue_count = 0)
  <2>1. /\ started \in Object /\ SameQueue(b, started) /\ started.state = "AWAITING"
        /\ started.sent = b.sent
    BY <1>0 DEF Object, SameQueue
  <2>2. pump(b) = transmit(begin_awaiting(started))
    BY <1>2 DEF pump
  <2> HIDE DEF started
  <2>3. /\ begin_awaiting(started) \in Object
        /\ SameQueue(started, begin_awaiting(started))
        /\ begin_awaiting(started).state = "AWAITING"
    BY <2>1, BeginAwaitingFacts
  <2>4. begin_awaiting(started).sent = b.sent
    BY <2>1 DEF begin_awaiting, Object
  <2>5. /\ SameQueue(begin_awaiting(started), pump(b)) /\ pump(b).state = "AWAITING"
        /\ \/ pump(b).sent = b.sent
           \/ pump(b).sent.ctx = head(begin_awaiting(started)).ctx
    BY <2>2, <2>3, <2>4, TransmitFacts
  <2>6. head(begin_awaiting(started)) = head(b)
    BY <2>1, <2>3 DEF SameQueue, head
  <2>7. head(b).ctx = FirstOf(b, n)
    BY <1>0, <1>2, HeadIsFirst
  <2> QED
    BY <1>0, <1>2, <2>1, <2>3, <2>5, <2>6, <2>7 DEF SameQueue
<1> QED
  BY <1>1, <1>2

(* complete() retires the head request if it is in flight; whatever is     *)
(* left in the ring is then on the wire.                                   *)
LEMMA CompleteSends ==
    ASSUME NEW b, NEW n \in Nat, Sound(b, n)
    PROVE  /\ complete(b).queue_count =
                  IF b.state = "AWAITING" THEN b.queue_count - 1 ELSE b.queue_count
           /\ complete(b).state = IF complete(b).queue_count > 0 THEN "AWAITING" ELSE "IDLE"
           /\ \/ complete(b).sent = b.sent
              \/ complete(b).queue_count > 0 /\ complete(b).sent.ctx = FirstOf(complete(b), n)
<1> DEFINE idle == [(IF b.state = "AWAITING" THEN pop(b) ELSE b) EXCEPT !.state = "IDLE"]
<1>0. b \in Object
  BY DEF Sound
<1>1. complete(b) = pump(idle)
  BY DEF complete
<1>2. /\ idle.queue_count = IF b.state = "AWAITING" THEN b.queue_count - 1 ELSE b.queue_count
      /\ idle.sent = b.sent
  BY <1>0 DEF pop, Object
<1>3. Sound(idle, n)
  BY IdleSound
<1> HIDE DEF idle
<1>4. /\ pump(idle).state = IF idle.queue_count > 0 THEN "AWAITING" ELSE "IDLE"
      /\ pump(idle).queue_count = idle.queue_count
      /\ \/ pump(idle).sent = idle.sent
         \/ idle.queue_count > 0 /\ pump(idle).sent.ctx = FirstOf(idle, n)
  BY <1>3, PumpSends
<1> QED
  BY <1>1, <1>2, <1>4 DEF FirstOf

(* enqueue() adds one request; on a free bus the head request goes out.    *)
LEMMA EnqueueSends ==
    ASSUME NEW b, NEW n \in Nat, Sound(b, n), b.queue_count < QUEUE_CAPACITY,
           NEW req \in Request, req.ctx = n + 1
    PROVE  /\ enqueue(b, req).queue_count = b.queue_count + 1
           /\ enqueue(b, req).state = IF b.dispatching THEN b.state ELSE "AWAITING"
           /\ \/ enqueue(b, req).sent = b.sent
              \/ ~b.dispatching /\ b.state = "IDLE" /\ enqueue(b, req).sent.ctx = FirstOf(b, n)
<1>1. enqueue(b, req) = IF b.dispatching THEN Filing(b, req) ELSE pump(Filing(b, req))
  BY DEF enqueue, Filing
<1>2. /\ Sound(Filing(b, req), n + 1)
      /\ Filing(b, req).queue_count = b.queue_count + 1
      /\ Filing(b, req).state = b.state
      /\ Filing(b, req).sent = b.sent
  BY FilingSound
<1>3. b.queue_count \in Nat
  BY CapacityAssumption DEF Sound, Object
<1>4. FirstOf(Filing(b, req), n + 1) = FirstOf(b, n)
  BY <1>2, <1>3 DEF FirstOf
<1>5. CASE b.dispatching
  BY <1>1, <1>2, <1>5
<1>6. CASE ~b.dispatching
  <2> DEFINE filed == Filing(b, req)
  <2>1. /\ pump(filed).state = IF filed.queue_count > 0 THEN "AWAITING" ELSE "IDLE"
        /\ pump(filed).queue_count = filed.queue_count
        /\ \/ pump(filed).sent = filed.sent
           \/ filed.state = "IDLE" /\ pump(filed).sent.ctx = FirstOf(filed, n + 1)
    <3>1. n + 1 \in Nat
      OBVIOUS
    <3> QED
      BY <1>2, <3>1, PumpSends
  <2> QED
    BY <1>1, <1>2, <1>3, <1>4, <1>6, <2>1
<1> QED
  BY <1>5, <1>6

(* After a record, a request goes out only if a handler reset the session. *)
LEMMA AfterRecordSends ==
    ASSUME NEW b, NEW n \in Nat, Sound(b, n)
    PROVE  /\ after_record(b).queue_count = b.queue_count
           /\ after_record(b).state = IF b.queue_count > 0 THEN "AWAITING" ELSE "IDLE"
           /\ \/ after_record(b).sent = b.sent
              \/ b.state = "IDLE" /\ b.queue_count > 0 /\ after_record(b).sent.ctx = FirstOf(b, n)
<1> DEFINE rewound == [b EXCEPT !.record_len = 0]
<1>1. b \in Object /\ b.state \in {"IDLE", "AWAITING"}
  BY DEF Sound, Object
<1>2. Untouched(b, rewound)
  BY <1>1 DEF Untouched, SameQueue, Object, FAULT_BUFFER_LEN
<1>3. after_record(b) = IF b.state # "AWAITING" THEN pump(rewound) ELSE await_next_frame(rewound)
  BY DEF after_record
<1> HIDE DEF rewound
<1>4. Sound(rewound, n) /\ rewound \in Object
  BY <1>2, UntouchedSound DEF Untouched
<1>5. FirstOf(rewound, n) = FirstOf(b, n)
  BY <1>2 DEF FirstOf, Untouched, SameQueue
<1>6. CASE b.state # "AWAITING"
  <2>1. /\ pump(rewound).state = IF rewound.queue_count > 0 THEN "AWAITING" ELSE "IDLE"
        /\ pump(rewound).queue_count = rewound.queue_count
        /\ \/ pump(rewound).sent = rewound.sent
           \/ rewound.queue_count > 0 /\ pump(rewound).sent.ctx = FirstOf(rewound, n)
    BY <1>4, PumpSends
  <2> QED
    BY <1>1, <1>2, <1>3, <1>5, <1>6, <2>1 DEF Untouched, SameQueue
<1>7. CASE b.state = "AWAITING"
  <2>1. Untouched(rewound, await_next_frame(rewound))
    BY <1>4, AwaitFacts
  <2> QED
    BY <1>2, <1>3, <1>7, <2>1 DEF Untouched, SameQueue, Sound
<1> QED
  BY <1>6, <1>7

-----------------------------------------------------------------------------
(* The moves: what a step of a session without re-entrance does to the     *)
(* numbers.  The invariants and the refinement follow from these.          *)

(* Nothing happens to any request, but that the head may be sent again.    *)
Rests ==
    /\ bms'.queue_count = bms.queue_count /\ bms'.state = bms.state /\ fate' = fate
    /\ Closing' <=> Closing
    /\ Closing => stack'[1].owner = stack[1].owner
    /\ bms'.sent = bms.sent \/ (bms.state = "AWAITING" /\ bms'.sent.ctx = First)

(* The final event of the head request is emitted.                         *)
Closes ==
    /\ stack = <<>> /\ bms.state = "AWAITING"
    /\ bms'.queue_count = bms.queue_count /\ bms'.state = bms.state
    /\ fate' = Reported(fate, First)
    /\ Closing' /\ stack'[1].owner = First
    /\ bms'.sent = bms.sent

(* The head request ends without an event, and the next one goes out.      *)
EndsSilently ==
    /\ stack = <<>> /\ stack' = <<>> /\ bms.state = "AWAITING"
    /\ bms'.queue_count = bms.queue_count - 1
    /\ bms'.state = IF bms'.queue_count > 0 THEN "AWAITING" ELSE "IDLE"
    /\ fate' = Reported(fate, First)
    /\ bms'.sent = bms.sent \/ (bms'.queue_count > 0 /\ bms'.sent.ctx = First')

(* One more request; with no handler running, an idle session sends.       *)
Accepts ==
    /\ stack' = stack
    /\ bms'.queue_count = bms.queue_count + 1
    /\ bms'.state = IF stack = <<>> THEN "AWAITING" ELSE bms.state
    /\ fate' = Append(fate, "pending")
    /\ bms'.sent = bms.sent \/ (stack = <<>> /\ bms.state = "IDLE" /\ bms'.sent.ctx = First)

(* Every request in the ring is dropped.                                   *)
Drops ==
    /\ stack' = stack
    /\ bms'.queue_count = 0 /\ bms'.state = "IDLE"
    /\ fate' = [s \in DOMAIN fate |->
                   IF fate[s] = "pending" /\ First <= s THEN "dropped" ELSE fate[s]]
    /\ bms'.sent = bms.sent

(* emit() has returned to a method that may send the next request.         *)
GoesOn ==
    /\ stack # <<>> /\ stack' = <<>> /\ fate' = fate
    /\ bms'.queue_count = IF Closing THEN bms.queue_count - 1 ELSE bms.queue_count
    /\ bms'.state = IF bms'.queue_count > 0 THEN "AWAITING" ELSE "IDLE"
    /\ \/ bms'.sent = bms.sent
       \/ (Closing \/ bms.state = "IDLE") /\ bms'.queue_count > 0 /\ bms'.sent.ctx = First'

Moves == Rests \/ Closes \/ EndsSilently \/ Accepts \/ Drops \/ GoesOn

(* Emitting an event closes a request or changes none.                     *)
LEMMA EmitsMove ==
    ASSUME MaxDepth = 1, Good(bms, stack, fate), Flat, Next, Emits
    PROVE  Rests \/ Closes
<1>1. PICK b \in Object, event \in Event, then \in Continuations :
          /\ Untouched(bms, b) /\ emit(b, event, then)
          /\ then # "return" => bms.state = "AWAITING"
  BY Zenon DEF Emits
<1>2. Good(b, stack, fate) /\ Sound(b, Len(fate)) /\ Len(fate) \in Nat
  BY <1>1, UntouchedSound DEF Good
<1>3. stack = <<>> /\ Len(stack') = 1
  BY NextFlat
<1>4. /\ SameQueue(b, bms') /\ bms'.state = b.state /\ bms'.sent = b.sent
      /\ Len(stack') = Len(stack) + 1
      /\ stack'[Len(stack) + 1].then = then
      /\ stack'[Len(stack) + 1].owner = InFlight(b)
      /\ fate' = IF then = "complete" THEN Reported(fate, InFlight(b)) ELSE fate
  BY <1>1, <1>2, EmitFacts
<1>5. Len(stack) + 1 = 1
  BY <1>3
<1>6. /\ bms'.queue_count = bms.queue_count /\ bms'.state = bms.state /\ bms'.sent = bms.sent
      /\ b.queue_count = bms.queue_count /\ b.state = bms.state
  BY <1>1, <1>4 DEF Untouched, SameQueue
<1>7. bms.state = "AWAITING" => InFlight(b) = First
  BY <1>2, <1>6, InFlightIsFirst DEF First, FirstOf
<1>8. stack' # <<>> /\ stack'[1].then = then /\ stack'[1].owner = InFlight(b)
  BY <1>3, <1>4, <1>5
<1>9. CASE then = "complete"
  BY <1>1, <1>3, <1>4, <1>6, <1>7, <1>8, <1>9 DEF Closes, Closing
<1>10. CASE then # "complete"
  <2>1. ~Closing /\ ~Closing'
    BY <1>3, <1>8, <1>10 DEF Closing
  <2> QED
    BY <1>4, <1>6, <1>10, <2>1 DEF Rests
<1> QED
  BY <1>9, <1>10

(* The end of emit().                                                      *)
LEMMA EmitReturnsMoves ==
    ASSUME MaxDepth = 1, Good(bms, stack, fate), Flat, Next,
           NEW then \in Continuations, EmitReturns(then)
    PROVE  Rests \/ GoesOn
<1> DEFINE ended == EndDispatch(bms, Top.nested)
<1>1. /\ bms \in Object /\ Sound(bms, Len(fate)) /\ Len(fate) \in Nat
      /\ stack \in Seq(Activation) /\ stack # <<>> /\ bms.state \in {"IDLE", "AWAITING"}
  BY DEF Good, Sound, EmitReturns, Object
<1>2. /\ ended \in Object /\ SameQueue(bms, ended) /\ ended.state = bms.state
      /\ ended.sent = bms.sent
  <2> DEFINE off == [bms EXCEPT !.dispatching = FALSE]
  <2>1. off \in Object /\ SameQueue(bms, off) /\ off.state = bms.state /\ off.sent = bms.sent
    BY <1>1 DEF Object, SameQueue
  <2>2. SameQueue(bms, bms)
    BY DEF SameQueue
  <2>3. ended = IF Top.nested THEN bms ELSE off
    BY DEF EndDispatch
  <2> HIDE DEF off, ended
  <2> QED
    BY <1>1, <2>1, <2>2, <2>3
<1>3. bms' = Resume(ended, then) /\ fate' = fate
  BY DEF EmitReturns
<1> HIDE DEF ended
<1>4. Sound(ended, Len(fate)) /\ ended.queue_count = bms.queue_count
  BY <1>1, <1>2, SameQueueSound DEF SameQueue
<1>5. Len(stack) = 1 /\ stack[1].then = then
  <2>1. Len(stack) = 1
    BY <1>1, NextFlat
  <2> QED
    BY <2>1 DEF EmitReturns, Top
<1>6. stack' = <<>>
  <2>1. Len(stack') = Len(stack) - 1 /\ stack' \in Seq(Activation)
    BY EmitReturnsFacts DEF Good
  <2> QED
    BY <1>5, <2>1
<1>7. Closing <=> then = "complete" /\ bms.state = "AWAITING"
  BY <1>1, <1>5 DEF Closing
<1>8. FirstOf(bms', Len(fate)) = First'
  BY <1>3 DEF First, FirstOf
<1>9. CASE then = "return"
  <2>1. bms' = ended
    BY <1>3, <1>9 DEF Resume
  <2>2. ~Closing /\ ~Closing'
    BY <1>6, <1>7, <1>9 DEF Closing
  <2> QED
    BY <1>2, <1>3, <1>4, <1>9, <2>1, <2>2 DEF Rests
<1>10. CASE then = "complete"
  <2>1. bms' = complete(ended)
    BY <1>3, <1>10 DEF Resume
  <2>2. /\ bms'.queue_count = IF ended.state = "AWAITING" THEN ended.queue_count - 1
                              ELSE ended.queue_count
        /\ bms'.state = IF bms'.queue_count > 0 THEN "AWAITING" ELSE "IDLE"
        /\ \/ bms'.sent = ended.sent
           \/ bms'.queue_count > 0 /\ bms'.sent.ctx = FirstOf(bms', Len(fate))
    BY <1>1, <1>4, <2>1, CompleteSends
  <2>3. Closing \/ bms.state = "IDLE"
    BY <1>1, <1>7, <1>10
  <2> QED
    BY <1>1, <1>2, <1>3, <1>4, <1>6, <1>7, <1>8, <1>10, <2>2, <2>3 DEF GoesOn
<1>11. CASE then = "stream"
  <2>1. bms' = after_record(ended)
    BY <1>3, <1>11 DEF Resume
  <2>2. /\ bms'.queue_count = ended.queue_count
        /\ bms'.state = IF ended.queue_count > 0 THEN "AWAITING" ELSE "IDLE"
        /\ \/ bms'.sent = ended.sent
           \/ /\ ended.state = "IDLE" /\ ended.queue_count > 0
              /\ bms'.sent.ctx = FirstOf(ended, Len(fate))
    BY <1>1, <1>4, <2>1, AfterRecordSends
  <2>3. FirstOf(ended, Len(fate)) = First'
    BY <1>8, <2>2 DEF FirstOf
  <2> QED
    BY <1>1, <1>2, <1>3, <1>4, <1>6, <1>7, <1>11, <2>2, <2>3 DEF GoesOn
<1> QED
  BY <1>9, <1>10, <1>11 DEF Continuations

(* Every step is one of the moves.                                         *)
LEMMA NextMoves ==
    ASSUME MaxDepth = 1, Good(bms, stack, fate), Flat, Next
    PROVE  Moves
<1>0. Shape
  BY NextShape
<1>1. /\ bms \in Object /\ Sound(bms, Len(fate)) /\ Len(fate) \in Nat
      /\ fate \in Seq(Fates) /\ stack \in Seq(Activation)
  BY DEF Good, Sound
<1>2. CASE Emits
  BY <1>2, EmitsMove DEF Moves
<1>3. CASE Leaves
  <2>1. /\ bms'.state = bms.state /\ bms'.queue_count = bms.queue_count /\ bms'.sent = bms.sent
        /\ stack' = stack /\ fate' = fate
    BY <1>3 DEF Leaves, Untouched, SameQueue
  <2>2. Closing' <=> Closing
    BY <2>1 DEF Closing
  <2> QED
    BY <2>1, <2>2 DEF Moves, Rests
<1>4. CASE Retries
  <2>1. head(bms).ctx = First
    BY <1>1, <1>4, HeadIsFirst DEF Retries, Sound, First
  <2>2. /\ bms'.state = bms.state /\ bms'.queue_count = bms.queue_count
        /\ bms.state = "AWAITING" /\ stack' = stack /\ fate' = fate
        /\ bms'.sent = bms.sent \/ bms'.sent.ctx = First
    BY <1>4, <2>1 DEF Retries, SameQueue
  <2>3. Closing' <=> Closing
    BY <2>2 DEF Closing
  <2> QED
    BY <2>2, <2>3 DEF Moves, Rests
<1>5. CASE Ends
  <2>1. stack = <<>> /\ stack' = <<>>
    <3>1. Len(stack) < 1 /\ Len(stack) \in Nat
      BY <1>1, <1>5 DEF Ends, MayDrive
    <3> QED
      BY <1>1, <1>5, <3>1 DEF Ends
  <2>2. bms.state = "AWAITING" /\ bms' = complete(bms) /\ fate' = Reported(fate, head(bms).ctx)
    BY <1>5 DEF Ends
  <2>3. head(bms).ctx = First
    BY <1>1, <2>2, HeadIsFirst DEF Sound, First
  <2>4. Len(fate') = Len(fate)
    BY <1>1, <2>2, ReportedFacts
  <2>5. /\ bms'.queue_count = bms.queue_count - 1
        /\ bms'.state = IF bms'.queue_count > 0 THEN "AWAITING" ELSE "IDLE"
        /\ \/ bms'.sent = bms.sent
           \/ bms'.queue_count > 0 /\ bms'.sent.ctx = FirstOf(bms', Len(fate))
    BY <1>1, <2>2, CompleteSends
  <2>6. FirstOf(bms', Len(fate)) = First'
    BY <2>4 DEF First, FirstOf
  <2> QED
    BY <2>1, <2>2, <2>3, <2>5, <2>6 DEF Moves, EndsSilently
<1>6. CASE \E p \in Polls : Poll(p)
  <2>1. PICK p \in Polls : Poll(p)
    BY <1>6
  <2> DEFINE req == [id |-> p.id, on |-> p.on, hint |-> p.hint, fn |-> p.fn,
                     ctx |-> Len(fate) + 1]
  <2>2. bms' = enqueue(bms, req) /\ fate' = Append(fate, "pending") /\ stack' = stack
    BY <2>1 DEF Poll
  <2>3. bms.queue_count < QUEUE_CAPACITY
    <3>1. ~(bms.queue_count >= QUEUE_CAPACITY)
      BY <2>1 DEF Poll, queue_status
    <3> QED
      BY <1>1, <3>1, CapacityAssumption DEF Object
  <2>4. req \in Request /\ req.ctx = Len(fate) + 1
    BY <1>1, InputAssumption DEF Request, PollArgs
  <2> HIDE DEF req
  <2>5. /\ bms'.queue_count = bms.queue_count + 1
        /\ bms'.state = IF bms.dispatching THEN bms.state ELSE "AWAITING"
        /\ \/ bms'.sent = bms.sent
           \/ /\ ~bms.dispatching /\ bms.state = "IDLE"
              /\ bms'.sent.ctx = FirstOf(bms, Len(fate))
    BY <1>1, <2>2, <2>3, <2>4, EnqueueSends
  <2>6. bms.dispatching <=> stack # <<>>
    BY DEF Flat
  <2> QED
    BY <2>2, <2>5, <2>6 DEF Moves, Accepts, First
<1>7. CASE Reset
  <2>1. bms'.state = "IDLE" /\ bms'.queue_count = 0 /\ stack' = stack
    BY <1>7, ResetStepFacts
  <2>2. bms'.sent = bms.sent
    BY <1>1, <1>7 DEF Reset, reset, Object
  <2>3. DOMAIN fate = 1..Len(fate)
    BY <1>1
  <2>4. \A s \in DOMAIN fate : Live(bms, s) <=> First <= s
    BY <1>1, <2>3, LiveByNumber DEF First
  <2>5. fate' = [s \in DOMAIN fate |->
                    IF fate[s] = "pending" /\ First <= s THEN "dropped" ELSE fate[s]]
    BY <1>7, <2>4 DEF Reset
  <2> QED
    BY <2>1, <2>2, <2>5 DEF Moves, Drops
<1>8. CASE SessionHandlerRuns
  <2>1. stack # <<>> /\ bms' = bms /\ fate' = fate
    BY <1>8 DEF SessionHandlerRuns
  <2>2. Len(stack) = 1
    BY <2>1, NextFlat
  <2>3. /\ stack[1] \in Activation /\ 1 \in DOMAIN stack
        /\ stack' = [stack EXCEPT ![1].run = "session"]
    BY <1>1, <1>8, <2>2 DEF SessionHandlerRuns
  <2>4. stack'[1] = [stack[1] EXCEPT !.run = "session"] /\ Len(stack') = 1
    BY <1>1, <2>2, <2>3
  <2>5. stack'[1].then = stack[1].then /\ stack'[1].owner = stack[1].owner
    BY <2>3, <2>4 DEF Activation
  <2>6. stack' # <<>>
    BY <2>4
  <2>7. Closing' <=> Closing
    BY <2>1, <2>5, <2>6 DEF Closing
  <2> QED
    BY <2>1, <2>5, <2>7 DEF Moves, Rests
<1>9. CASE \E then \in Continuations : EmitReturns(then)
  BY <1>9, EmitReturnsMoves DEF Moves
<1> QED
  BY <1>0, <1>2, <1>3, <1>4, <1>5, <1>6, <1>7, <1>8, <1>9 DEF Shape

-----------------------------------------------------------------------------
(* The invariant.                                                          *)

(* Reporting a request without an outcome gives it one, and no other.      *)
LEMMA ReportedOnce ==
    ASSUME NEW f \in Seq(Fates), NEW c \in 1..Len(f), f[c] = "pending"
    PROVE  /\ Reported(f, c) = [f EXCEPT ![c] = "reported"]
           /\ Len(Reported(f, c)) = Len(f)
           /\ \A s \in 1..Len(f) : Reported(f, c)[s] = IF s = c THEN "reported" ELSE f[s]
<1>1. Reported(f, c) = [f EXCEPT ![c] = "reported"]
  BY DEF Reported
<1>2. Len(Reported(f, c)) = Len(f)
  BY ReportedFacts
<1>3. f \in [1..Len(f) -> Fates]
  OBVIOUS
<1> QED
  BY <1>1, <1>2, <1>3

(* The numbers of the ring lie among the requests accepted.                *)
LEMMA NumbersOf ==
    ASSUME Accounted
    PROVE  /\ Len(fate) \in Nat /\ bms.queue_count \in Nat /\ First \in 1..(Len(fate) + 1)
           /\ First = Len(fate) - bms.queue_count + 1
           /\ fate \in Seq(Fates) /\ bms \in Object /\ bms.state \in {"IDLE", "AWAITING"}
           /\ bms.state = "AWAITING" => bms.queue_count > 0
           /\ bms.queue_count > 0 <=> First <= Len(fate)
<1>1. /\ Len(fate) \in Nat /\ bms.queue_count \in Nat /\ bms.state \in {"IDLE", "AWAITING"}
      /\ fate \in Seq(Fates) /\ bms \in Object
      /\ bms.state = "AWAITING" => bms.queue_count > 0
  BY CapacityAssumption DEF Accounted, Good, Sound, Object
<1>2. bms.queue_count <= Len(fate)
  BY DEF Accounted
<1>3. First = Len(fate) - bms.queue_count + 1
  BY DEF First, FirstOf
<1> QED
  BY <1>1, <1>2, <1>3

(* With no handler running, what is in the ring has no outcome yet.        *)
LEMMA PendingWhenQuiet ==
    ASSUME Accounted, ~Closing, NEW s \in 1..Len(fate), First <= s
    PROVE  fate[s] = "pending"
BY DEF Accounted

(* Every step keeps the account.                                           *)
LEMMA NextAccounted ==
    ASSUME MaxDepth = 1, Accounted, [Next]_vars
    PROVE  Accounted'
<1> DEFINE Kept ==
               /\ bms.queue_count <= Len(fate)
               /\ \A s \in 1..Len(fate) :
                      /\ fate[s] # "twice"
                      /\ fate[s] = "pending" => First <= s
                      /\ First <= s /\ fate[s] # "pending" =>
                             s = First /\ Closing /\ stack[1].owner = First
               /\ Closing => fate[First] # "pending"
<1>0. Kept /\ Good(bms, stack, fate) /\ Flat
  BY DEF Accounted
<1>1. Good(bms', stack', fate') /\ Flat'
  BY <1>0, NextGood, NextFlat
<1>2. /\ Len(fate) \in Nat /\ bms.queue_count \in Nat /\ First \in 1..(Len(fate) + 1)
      /\ First = Len(fate) - bms.queue_count + 1
      /\ fate \in Seq(Fates)
      /\ bms.state = "AWAITING" => bms.queue_count > 0
      /\ bms.queue_count > 0 <=> First <= Len(fate)
  BY NumbersOf
<1>3. First' = Len(fate') - bms'.queue_count + 1
  BY DEF First, FirstOf
<1>4. SUFFICES Kept'
  BY <1>1 DEF Accounted
<1>5. CASE UNCHANGED vars
  BY <1>0, <1>5 DEF vars, First, FirstOf, Closing
<1>6. CASE Next
  <2>0. Moves
    BY <1>0, <1>6, NextMoves
  <2>1. CASE Rests
    <3>1. First' = First
      BY <1>2, <1>3, <2>1 DEF Rests
    <3> QED
      BY <1>0, <2>1, <3>1 DEF Rests
  <2>2. CASE Closes
    <3>1. ~Closing /\ First \in 1..Len(fate) /\ First <= First
      BY <1>2, <2>2 DEF Closes, Closing
    <3>2. fate[First] = "pending"
      BY <3>1, PendingWhenQuiet
    <3>3. /\ Len(fate') = Len(fate)
          /\ \A s \in 1..Len(fate) : fate'[s] = IF s = First THEN "reported" ELSE fate[s]
      BY <1>2, <2>2, <3>1, <3>2, ReportedOnce DEF Closes
    <3>4. First' = First
      BY <1>2, <1>3, <2>2, <3>3 DEF Closes
    <3> QED
      BY <1>0, <2>2, <3>1, <3>3, <3>4 DEF Closes
  <2>3. CASE EndsSilently
    <3>1. ~Closing /\ ~Closing' /\ First \in 1..Len(fate) /\ First <= First
      BY <1>2, <2>3 DEF EndsSilently, Closing
    <3>2. fate[First] = "pending"
      BY <3>1, PendingWhenQuiet
    <3>3. /\ Len(fate') = Len(fate)
          /\ \A s \in 1..Len(fate) : fate'[s] = IF s = First THEN "reported" ELSE fate[s]
      BY <1>2, <2>3, <3>1, <3>2, ReportedOnce DEF EndsSilently
    <3>4. First' = First + 1 /\ bms'.queue_count <= Len(fate')
      BY <1>0, <1>2, <1>3, <2>3, <3>3 DEF EndsSilently
    <3>5. \A s \in 1..Len(fate) : First + 1 <= s <=> First <= s /\ s # First
      BY <1>2
    <3> QED
      BY <1>0, <3>1, <3>3, <3>4, <3>5
  <2>4. CASE Accepts
    <3>1. /\ Len(fate') = Len(fate) + 1 /\ fate'[Len(fate) + 1] = "pending"
          /\ \A s \in 1..Len(fate) : fate'[s] = fate[s]
      BY <1>2, <2>4 DEF Accepts
    <3>2. First' = First /\ bms'.queue_count <= Len(fate')
      BY <1>0, <1>2, <1>3, <2>4, <3>1 DEF Accepts
    <3>3. Closing' <=> Closing
      BY <2>4 DEF Accepts, Closing
    <3>4. \A s \in 1..Len(fate') : s \in 1..Len(fate) \/ s = Len(fate) + 1
      BY <1>2, <3>1
    <3>5. First <= Len(fate) + 1 /\ (Closing => First \in 1..Len(fate))
      BY <1>2 DEF Closing
    <3>6. stack' = stack
      BY <2>4 DEF Accepts
    <3> QED
      BY <1>0, <3>1, <3>2, <3>3, <3>4, <3>5, <3>6
  <2>5. CASE Drops
    <3>1. /\ DOMAIN fate = 1..Len(fate) /\ Len(fate') = Len(fate)
          /\ \A s \in 1..Len(fate) :
                 fate'[s] = IF fate[s] = "pending" /\ First <= s THEN "dropped" ELSE fate[s]
      <4>1. DOMAIN fate = 1..Len(fate)
        BY <1>2
      <4>2. fate' \in Seq(Fates)
        BY <1>1 DEF Good
      <4> QED
        BY <1>2, <2>5, <4>1, <4>2 DEF Drops
    <3>2. First' = Len(fate) + 1 /\ bms'.queue_count <= Len(fate')
      BY <1>2, <1>3, <2>5, <3>1 DEF Drops
    <3>3. ~Closing'
      BY <2>5 DEF Drops, Closing
    <3>4. \A s \in 1..Len(fate) : ~(Len(fate) + 1 <= s)
      BY <1>2
    <3> QED
      BY <1>0, <3>1, <3>2, <3>3, <3>4
  <2>6. CASE GoesOn
    <3>1. ~Closing' /\ fate' = fate
      BY <2>6 DEF GoesOn, Closing
    <3>2. CASE Closing
      <4>1. First' = First + 1 /\ bms'.queue_count <= Len(fate')
        BY <1>0, <1>2, <1>3, <2>6, <3>1, <3>2 DEF GoesOn
      <4>2. \A s \in 1..Len(fate) : First + 1 <= s <=> First <= s /\ s # First
        BY <1>2
      <4>3. fate[First] # "pending"
        BY <1>0, <3>2
      <4> QED
        BY <1>0, <3>1, <4>1, <4>2, <4>3
    <3>3. CASE ~Closing
      <4>1. First' = First /\ bms'.queue_count <= Len(fate')
        BY <1>0, <1>2, <1>3, <2>6, <3>1, <3>3 DEF GoesOn
      <4> QED
        BY <1>0, <3>1, <3>3, <4>1
    <3> QED
      BY <3>2, <3>3
  <2> QED
    BY <2>0, <2>1, <2>2, <2>3, <2>4, <2>5, <2>6 DEF Moves
<1> QED
  BY <1>5, <1>6

(* A new session has accepted nothing.                                     *)
LEMMA InitAccounted ==
    ASSUME Init
    PROVE  Accounted /\ SentInOrder
<1>1. Good(bms, stack, fate) /\ Flat
  BY InitGood, InitDisciplined DEF Disciplined
<1>2. stack = <<>> /\ fate = <<>> /\ Len(fate) = 0
  BY DEF Init
<1>3. bms.queue_count = 0 /\ bms.state = "IDLE" /\ bms.sent.ctx = 0
  BY DEF Init
<1> QED
  BY <1>1, <1>2, <1>3 DEF Accounted, SentInOrder, Closing

(* Every step sends in order, and only a request whose predecessors all    *)
(* have their outcome.                                                     *)
LEMMA NextInOrder ==
    ASSUME MaxDepth = 1, Accounted, SentInOrder, [Next]_vars
    PROVE  SentInOrder' /\ OneOutstandingStep
<1>0. Accounted' /\ Good(bms, stack, fate) /\ Flat
  BY NextAccounted DEF Accounted
<1>1. /\ Len(fate) \in Nat /\ bms.queue_count \in Nat /\ First \in 1..(Len(fate) + 1)
      /\ First = Len(fate) - bms.queue_count + 1
      /\ fate \in Seq(Fates) /\ bms \in Object /\ bms.state \in {"IDLE", "AWAITING"}
      /\ bms.state = "AWAITING" => bms.queue_count > 0
      /\ bms.queue_count > 0 <=> First <= Len(fate)
  BY NumbersOf
<1>2. /\ Len(fate') \in Nat /\ bms'.queue_count \in Nat /\ First' \in 1..(Len(fate') + 1)
      /\ First' = Len(fate') - bms'.queue_count + 1
      /\ fate' \in Seq(Fates) /\ bms' \in Object /\ bms'.state \in {"IDLE", "AWAITING"}
      /\ bms'.state = "AWAITING" => bms'.queue_count > 0
      /\ bms'.queue_count > 0 <=> First' <= Len(fate')
  <2>1. /\ Len(fate') \in Nat /\ bms'.queue_count \in Nat /\ bms'.state \in {"IDLE", "AWAITING"}
        /\ fate' \in Seq(Fates) /\ bms' \in Object
        /\ bms'.state = "AWAITING" => bms'.queue_count > 0
    BY <1>0, CapacityAssumption DEF Accounted, Good, Sound, Object
  <2>2. bms'.queue_count <= Len(fate')
    BY <1>0 DEF Accounted
  <2>3. First' = Len(fate') - bms'.queue_count + 1
    BY DEF First, FirstOf
  <2> QED
    BY <2>1, <2>2, <2>3
<1>3. bms.sent.ctx \in Nat /\ bms'.sent.ctx \in Nat
  BY <1>1, <1>2 DEF Object
<1>4. bms.state = "IDLE" => bms.sent.ctx < First
  BY <1>1, <1>3 DEF SentInOrder
<1>5. /\ SentInOrder'
      /\ \/ bms'.sent = bms.sent
         \/ bms'.sent.ctx = First' /\ bms.sent.ctx <= First' /\ bms'.queue_count > 0
  <2>1. CASE UNCHANGED vars
    BY <2>1 DEF vars, SentInOrder, First, FirstOf
  <2>2. CASE Next
    <3>0. Moves
      BY <1>0, <2>2, NextMoves
    <3>1. CASE Rests
      <4>1. First' = First /\ Len(fate') = Len(fate)
        BY <1>1, <1>2, <3>1 DEF Rests
      <4> QED
        BY <1>1, <1>2, <1>3, <3>1, <4>1 DEF Rests, SentInOrder
    <3>2. CASE Closes
      <4>1. Len(fate') = Len(fate)
        BY <1>1, <3>2, ReportedFacts DEF Closes
      <4>2. First' = First
        BY <1>1, <1>2, <3>2, <4>1 DEF Closes
      <4> QED
        BY <1>1, <1>2, <1>3, <3>2, <4>1, <4>2 DEF Closes, SentInOrder
    <3>3. CASE EndsSilently
      <4>1. Len(fate') = Len(fate)
        BY <1>1, <3>3, ReportedFacts DEF EndsSilently
      <4>2. First' = First + 1
        BY <1>1, <1>2, <3>3, <4>1 DEF EndsSilently
      <4> QED
        BY <1>1, <1>2, <1>3, <3>3, <4>1, <4>2 DEF EndsSilently, SentInOrder
    <3>4. CASE Accepts
      <4>1. Len(fate') = Len(fate) + 1
        BY <1>1, <3>4 DEF Accepts
      <4>2. First' = First
        BY <1>1, <1>2, <3>4, <4>1 DEF Accepts
      <4>3. CASE bms'.sent = bms.sent
        <5>1. bms.sent.ctx <= First /\ bms.sent.ctx <= Len(fate')
          BY <1>1, <1>3, <1>4, <4>1 DEF SentInOrder
        <5>2. bms'.state = "IDLE" => bms.sent.ctx < First
          BY <1>4, <3>4 DEF Accepts
        <5> QED
          BY <4>2, <4>3, <5>1, <5>2 DEF SentInOrder
      <4>4. CASE bms'.sent # bms.sent
        <5>1. bms'.sent.ctx = First /\ bms.state = "IDLE" /\ bms'.state = "AWAITING"
          BY <3>4, <4>4 DEF Accepts
        <5> QED
          BY <1>1, <1>2, <1>3, <1>4, <4>1, <4>2, <5>1 DEF SentInOrder
      <4> QED
        BY <4>3, <4>4
    <3>5. CASE Drops
      <4>1. Len(fate') = Len(fate)
        <5>1. Len(fate') = Len(fate) \/ DOMAIN fate' # DOMAIN fate
          BY <1>1, <1>2
        <5> QED
          BY <3>5, <5>1 DEF Drops
      <4> QED
        BY <1>1, <1>2, <1>3, <3>5, <4>1 DEF Drops, SentInOrder
    <3>6. CASE GoesOn
      <4>1. Len(fate') = Len(fate) /\ First' = IF Closing THEN First + 1 ELSE First
        BY <1>1, <1>2, <3>6 DEF GoesOn
      <4>2. Closing => bms.state = "AWAITING"
        BY DEF Closing
      <4>3. bms.sent.ctx <= First' /\ bms.sent.ctx <= Len(fate')
        BY <1>1, <1>3, <1>4, <4>1 DEF SentInOrder
      <4>4. bms'.queue_count > 0 <=> bms'.state = "AWAITING"
        BY <3>6 DEF GoesOn
      <4>5. CASE bms'.sent = bms.sent
        BY <4>3, <4>4, <4>5 DEF SentInOrder
      <4>6. CASE bms'.sent # bms.sent
        <5>1. bms'.sent.ctx = First' /\ bms'.queue_count > 0
          BY <3>6, <4>6 DEF GoesOn
        <5> QED
          BY <1>2, <4>3, <4>4, <5>1 DEF SentInOrder
      <4> QED
        BY <4>5, <4>6
    <3> QED
      BY <3>0, <3>1, <3>2, <3>3, <3>4, <3>5, <3>6 DEF Moves
  <2> QED
    BY <2>1, <2>2
<1>6. OneOutstandingStep
  <2> SUFFICES ASSUME bms'.sent.ctx # bms.sent.ctx, bms.sent.ctx # 0
               PROVE  /\ fate'[bms.sent.ctx] \in {"reported", "dropped"}
                      /\ bms'.sent.ctx > bms.sent.ctx
    BY DEF OneOutstandingStep
  <2>1. bms'.sent.ctx = First' /\ bms.sent.ctx < First' /\ bms.sent.ctx \in 1..Len(fate')
    BY <1>2, <1>3, <1>5
  <2>2. fate'[bms.sent.ctx] # "twice" /\ fate'[bms.sent.ctx] # "pending"
    <3>1. ~(First' <= bms.sent.ctx)
      BY <1>2, <1>3, <2>1
    <3> QED
      BY <1>0, <2>1, <3>1 DEF Accounted
  <2>3. fate'[bms.sent.ctx] \in Fates
    BY <1>2, <2>1
  <2> QED
    BY <1>2, <1>3, <2>1, <2>2, <2>3 DEF Fates
<1> QED
  BY <1>5, <1>6

(* The account holds throughout.                                           *)
LEMMA AccountedInvariant ==
    ASSUME MaxDepth = 1
    PROVE  Spec => [](Accounted /\ SentInOrder)
<1>1. Init => Accounted /\ SentInOrder
  BY InitAccounted
<1>2. Accounted /\ SentInOrder /\ [Next]_vars => (Accounted /\ SentInOrder)'
  BY NextAccounted, NextInOrder
<1> QED
  BY <1>1, <1>2, PTL DEF Spec

(* Every accepted request gets exactly one outcome, whatever handlers poll *)
(* and reset, for every capacity: complete() retires no request whose      *)
(* outcome has not been reported, and reports none a second time.          *)
THEOREM EveryRequestHasOneOutcome ==
    ASSUME MaxDepth = 1
    PROVE  Spec => []OneOutcome
<1>1. Accounted => OneOutcome
  <2> SUFFICES ASSUME Accounted, NEW s \in DOMAIN fate
               PROVE  /\ fate[s] # "twice"
                      /\ fate[s] = "pending" => Live(bms, s)
                      /\ Live(bms, s) /\ fate[s] # "pending" =>
                             \E k \in DOMAIN stack :
                                 stack[k].owner = s /\ stack[k].then = "complete"
    BY DEF OneOutcome
  <2>1. Len(fate) \in Nat /\ s \in 1..Len(fate) /\ Sound(bms, Len(fate))
    BY DEF Accounted, Good
  <2>2. Live(bms, s) <=> First <= s
    BY <2>1, LiveByNumber DEF First
  <2>3. ASSUME First <= s, fate[s] # "pending"
        PROVE  \E k \in DOMAIN stack : stack[k].owner = s /\ stack[k].then = "complete"
    <3>1. s = First /\ Closing /\ stack[1].owner = First
      BY <2>1, <2>3 DEF Accounted
    <3>2. 1 \in DOMAIN stack
      BY <3>1 DEF Closing, Accounted, Good
    <3> QED
      BY <3>1, <3>2 DEF Closing
  <2> QED
    BY <2>1, <2>2, <2>3 DEF Accounted
<1> QED
  BY <1>1, AccountedInvariant, PTL

(* At most one request is outstanding on the wire: the next one goes out   *)
(* only when the one before it has had its outcome, and in order.          *)
THEOREM OneRequestOutstanding ==
    ASSUME MaxDepth = 1
    PROVE  Spec => OneOutstanding
<1>1. Accounted /\ SentInOrder /\ [Next]_vars => [OneOutstandingStep]_vars
  BY NextInOrder
<1> QED
  BY <1>1, AccountedInvariant, PTL DEF Spec, OneOutstanding

-----------------------------------------------------------------------------
(* The refinement of module RequestQueue.                                  *)

(* The request being served, as the refinement maps it.                    *)
Bus == IF InFlight(bms) # 0 /\ fate[InFlight(bms)] = "pending" THEN InFlight(bms) ELSE 0

(* What the mapping shows, by number: a request is served from its         *)
(* transmission to its final event, and with no final event under way the  *)
(* requests in the ring are those without an outcome.                      *)
Mapped ==
    /\ Bus = IF bms.state = "AWAITING" /\ ~Closing THEN First ELSE 0
    /\ ~Closing => \A s \in 1..Len(fate) : fate[s] = "pending" <=> First <= s

(* The account determines the mapping.                                     *)
LEMMA AccountedMaps ==
    ASSUME Accounted
    PROVE  Mapped
<1>1. /\ Len(fate) \in Nat /\ First \in 1..(Len(fate) + 1)
      /\ bms.state = "AWAITING" => bms.queue_count > 0
      /\ bms.queue_count > 0 <=> First <= Len(fate)
  BY NumbersOf
<1>2. InFlight(bms) = IF bms.state = "AWAITING" THEN First ELSE 0
  BY <1>1, InFlightIsFirst DEF Accounted, Good, First
<1>3. ~Closing => \A s \in 1..Len(fate) : fate[s] = "pending" <=> First <= s
  BY DEF Accounted
<1>4. CASE bms.state = "AWAITING"
  <2>1. First \in 1..Len(fate) /\ First <= First /\ First # 0
    BY <1>1, <1>4
  <2>2. fate[First] = "pending" <=> ~Closing
    BY <2>1 DEF Accounted
  <2> QED
    BY <1>2, <1>3, <1>4, <2>1, <2>2 DEF Bus, Mapped
<1>5. CASE bms.state # "AWAITING"
  BY <1>2, <1>3, <1>5 DEF Bus, Mapped
<1> QED
  BY <1>4, <1>5

(* When the requests without an outcome are those from m on, m is next.    *)
LEMMA OldestIs ==
    ASSUME NEW f \in Seq(Fates), NEW m \in 1..(Len(f) + 1),
           \A s \in 1..Len(f) : f[s] = "pending" <=> m <= s
    PROVE  /\ Promise!Oldest(f) = IF m <= Len(f) THEN m ELSE 0
           /\ m <= Len(f) <=> Promise!Waiting(f) # {}
<1>1. DOMAIN f = 1..Len(f) /\ Len(f) \in Nat
  OBVIOUS
<1>2. Promise!Waiting(f) = m..Len(f)
  BY <1>1 DEF Promise!Waiting
<1>3. CASE m <= Len(f)
  <2>1. m \in m..Len(f)
    BY <1>1, <1>3
  <2>2. \A s \in m..Len(f) : (\A t \in m..Len(f) : s <= t) <=> s = m
    BY <1>1, <2>1
  <2>3. (CHOOSE s \in m..Len(f) : \A t \in m..Len(f) : s <= t) = m
    BY <2>1, <2>2
  <2> QED
    BY <1>2, <1>3, <2>1, <2>3 DEF Promise!Oldest
<1>4. CASE ~(m <= Len(f))
  <2>1. m..Len(f) = {}
    BY <1>1, <1>4
  <2> QED
    BY <1>2, <1>4, <2>1 DEF Promise!Oldest
<1> QED
  BY <1>3, <1>4

(* Every step is a step of RequestQueue or changes nothing it can see.     *)
LEMMA NextKeepsPromise ==
    ASSUME MaxDepth = 1, Accounted, Mapped, Accounted', Mapped', [Next]_vars
    PROVE  [Promise!Next]_(Promise!vars)
<1>0. Good(bms, stack, fate) /\ Flat
  BY DEF Accounted
<1>1. /\ Len(fate) \in Nat /\ bms.queue_count \in Nat /\ First \in 1..(Len(fate) + 1)
      /\ First = Len(fate) - bms.queue_count + 1
      /\ fate \in Seq(Fates) /\ bms.state \in {"IDLE", "AWAITING"}
      /\ bms.state = "AWAITING" => bms.queue_count > 0
      /\ bms.queue_count > 0 <=> First <= Len(fate)
  BY NumbersOf
<1>2. fate' \in Seq(Fates) /\ bms'.queue_count \in Nat /\ bms'.queue_count <= Len(fate')
  BY CapacityAssumption DEF Accounted, Good, Sound, Object
<1>3. First' = Len(fate') - bms'.queue_count + 1
  BY DEF First, FirstOf
<1>4. /\ Len(fate') \in Nat /\ First' \in 1..(Len(fate') + 1)
      /\ bms'.queue_count > 0 <=> First' <= Len(fate')
  BY <1>2, <1>3
<1>5. /\ Bus = IF bms.state = "AWAITING" /\ ~Closing THEN First ELSE 0
      /\ ~Closing => \A s \in 1..Len(fate) : fate[s] = "pending" <=> First <= s
  BY DEF Mapped
<1>6. /\ Bus' = IF bms'.state = "AWAITING" /\ ~Closing' THEN First' ELSE 0
      /\ ~Closing' => \A s \in 1..Len(fate') : fate'[s] = "pending" <=> First' <= s
  BY DEF Mapped
<1>7. ~Closing' =>
        /\ Promise!Oldest(fate') = IF bms'.queue_count > 0 THEN First' ELSE 0
        /\ bms'.queue_count > 0 <=> Promise!Waiting(fate') # {}
  BY <1>2, <1>4, <1>6, OldestIs
<1>8. Promise!vars = <<fate, Bus>> /\ Promise!vars' = <<fate', Bus'>>
  BY DEF Promise!vars, Bus
<1>9. CASE UNCHANGED vars
  <2>1. fate' = fate /\ Bus' = Bus
    BY <1>9 DEF vars, Bus, InFlight, head
  <2> QED
    BY <1>8, <2>1
<1>10. CASE Next
  <2>0. Moves
    BY <1>0, <1>10, NextMoves
  <2>1. CASE Rests
    <3>1. First' = First
      BY <1>1, <1>3, <2>1 DEF Rests
    <3>2. fate' = fate /\ Bus' = Bus
      BY <1>5, <1>6, <2>1, <3>1 DEF Rests
    <3> QED
      BY <1>8, <3>2
  <2>2. CASE Closes
    <3>1. ~Closing /\ First \in 1..Len(fate) /\ First <= First /\ First # 0
      BY <1>1, <2>2 DEF Closes, Closing
    <3>2. Bus = First /\ Bus' = 0 /\ fate[First] = "pending"
      BY <1>5, <1>6, <2>2, <3>1 DEF Closes
    <3>3. fate' = [fate EXCEPT ![Bus] = "reported"]
      BY <1>1, <2>2, <3>1, <3>2, ReportedOnce DEF Closes
    <3>4. Promise!Report
      BY <3>1, <3>2, <3>3 DEF Promise!Report, Bus
    <3> QED
      BY <3>4 DEF Promise!Next
  <2>3. CASE EndsSilently
    <3>1. ~Closing /\ ~Closing' /\ First \in 1..Len(fate) /\ First <= First /\ First # 0
      BY <1>1, <2>3 DEF EndsSilently, Closing
    <3>2. Bus = First /\ fate[First] = "pending"
      BY <1>5, <2>3, <3>1 DEF EndsSilently
    <3>3. fate' = [fate EXCEPT ![Bus] = "reported"]
      BY <1>1, <2>3, <3>1, <3>2, ReportedOnce DEF EndsSilently
    <3>4. Bus' = Promise!Oldest(fate')
      BY <1>6, <1>7, <2>3, <3>1 DEF EndsSilently
    <3>5. Promise!Report
      BY <3>1, <3>2, <3>3, <3>4 DEF Promise!Report, Bus
    <3> QED
      BY <3>5 DEF Promise!Next
  <2>4. CASE Accepts
    <3>1. fate' = Append(fate, "pending") /\ Len(fate') = Len(fate) + 1 /\ First' = First
      BY <1>1, <1>3, <2>4 DEF Accepts
    <3>2. Closing' <=> Closing
      BY <2>4 DEF Accepts, Closing
    <3>3. Bus' = Bus \/ (Bus = 0 /\ Bus' = Promise!Oldest(fate'))
      <4>1. CASE bms'.state = bms.state
        BY <1>5, <1>6, <3>1, <3>2, <4>1
      <4>2. CASE bms'.state # bms.state
        <5>1. stack = <<>> /\ bms.state = "IDLE" /\ bms'.state = "AWAITING"
          BY <1>1, <2>4, <4>2 DEF Accepts
        <5>2. ~Closing' /\ bms'.queue_count > 0
          BY <1>1, <2>4, <3>2, <5>1 DEF Accepts, Closing
        <5> QED
          BY <1>5, <1>6, <1>7, <5>1, <5>2
      <4> QED
        BY <4>1, <4>2
    <3>4. Promise!Accept
      BY <3>1, <3>3 DEF Promise!Accept, Bus
    <3> QED
      BY <3>4 DEF Promise!Next
  <2>5. CASE Drops
    <3>1. \A s \in DOMAIN fate : fate[s] = "pending" => First <= s
      BY <1>1 DEF Accounted
    <3>2. fate' = [s \in DOMAIN fate |-> IF fate[s] = "pending" THEN "dropped" ELSE fate[s]]
      BY <2>5, <3>1 DEF Drops
    <3>3. Bus' = 0
      BY <1>6, <2>5 DEF Drops
    <3>4. Promise!Drop
      BY <3>2, <3>3 DEF Promise!Drop, Bus
    <3> QED
      BY <3>4 DEF Promise!Next
  <2>6. CASE GoesOn
    <3>1. fate' = fate /\ ~Closing' /\ Len(fate') = Len(fate)
      BY <2>6 DEF GoesOn, Closing
    <3>2. Bus' = Promise!Oldest(fate)
      BY <1>6, <1>7, <2>6, <3>1 DEF GoesOn
    <3>3. CASE Bus = 0
      <4>1. CASE bms'.queue_count > 0
        <5>1. Promise!Serve
          BY <1>7, <3>1, <3>2, <3>3, <4>1 DEF Promise!Serve, Bus
        <5> QED
          BY <5>1 DEF Promise!Next
      <4>2. CASE ~(bms'.queue_count > 0)
        <5>1. Bus' = Bus
          BY <1>7, <3>1, <3>2, <3>3, <4>2
        <5> QED
          BY <1>8, <3>1, <5>1
      <4> QED
        BY <4>1, <4>2
    <3>4. CASE Bus # 0
      <4>1. bms.state = "AWAITING" /\ ~Closing
        BY <1>5, <3>4
      <4>2. First' = First /\ bms'.state = "AWAITING"
        BY <1>1, <1>3, <2>6, <3>1, <4>1 DEF GoesOn
      <4>3. Bus' = Bus
        BY <1>5, <1>6, <3>1, <4>1, <4>2
      <4> QED
        BY <1>8, <3>1, <4>3
    <3> QED
      BY <3>3, <3>4
  <2> QED
    BY <2>0, <2>1, <2>2, <2>3, <2>4, <2>5, <2>6 DEF Moves
<1> QED
  BY <1>9, <1>10

(* The session implements RequestQueue: whatever the frames, the clock,    *)
(* the handlers and the capacity, the application sees its requests served *)
(* in order, one at a time, each with one outcome or dropped by reset().   *)
THEOREM SessionKeepsPromise ==
    ASSUME MaxDepth = 1
    PROVE  Spec => KeepsPromise
<1>1. Init => Promise!Init
  <2> SUFFICES ASSUME Init PROVE Promise!Init
    OBVIOUS
  <2>1. fate = <<>> /\ bms.state = "IDLE"
    BY DEF Init
  <2>2. InFlight(bms) = 0
    BY <2>1 DEF InFlight
  <2> QED
    BY <2>1, <2>2 DEF Promise!Init
<1>2. Accounted => Mapped
  BY AccountedMaps
<1>3. Accounted /\ Mapped /\ (Accounted /\ Mapped)' /\ [Next]_vars => [Promise!Next]_(Promise!vars)
  BY NextKeepsPromise
<1> QED
  BY <1>1, <1>2, <1>3, AccountedInvariant, PTL DEF Spec, KeepsPromise, Promise!Spec
=============================================================================
