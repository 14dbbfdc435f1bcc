-------------------------------- MODULE Link --------------------------------
(***************************************************************************)
(* The session in the place it is built for: an application's loop that    *)
(* calls tick() and then feeds what it has read, a half-duplex serial      *)
(* line, and a pack that answers every transmission.                       *)
(*                                                                         *)
(* Module HaidiBMS lets any frame arrive at any moment.  Here a frame is   *)
(* the answer to a transmission, takes time, and may be lost or corrupted  *)
(* on the way, and the clock runs between two calls of tick(), so that the *)
(* session's now_ms_ is behind it.  The pack and the line are external.    *)
(***************************************************************************)
EXTENDS HaidiBMS

CONSTANTS
    LoopPeriod,  \* bound on the time between two calls of tick()
    MaxDelay,    \* bound on the time from a request to the first frame of its reply
    MaxGap,      \* bound on the time between two frames of a reply
    MaxFrames    \* bound on the frames of a reply

(* The reply to a request has at most MaxFrames frames, whatever the pack  *)
(* size a read without a hint is sized by.                                 *)
ReplyFits(req) ==
    \A count \in IF req.hint # 0 THEN {req.hint} ELSE Byte :
        CASE req.id = CELL_VOLTAGES     -> cell_voltage_frames(count) <= MaxFrames
          [] req.id = CELL_TEMPERATURES -> cell_temperature_frames(count) <= MaxFrames
          [] OTHER                      -> multiframe_info(req.id).frame_count <= MaxFrames

(* What the timeouts have to cover: the reply, the age of now_ms_ when the *)
(* deadline was armed from it, and the turn it takes to read the frame.    *)
(* The inter-frame timeout covers all the rest of the reply and not only   *)
(* the next frame, which may be lost.                                      *)
ASSUME LinkAssumption ==
    /\ LoopPeriod \in Nat /\ MaxDelay \in Nat /\ MaxGap \in Nat /\ MaxFrames \in Nat \ {0}
    /\ MaxDelay + (MaxFrames - 1) * MaxGap + 2 * LoopPeriod < DEFAULT_RESPONSE_TIMEOUT_MS
    /\ (MaxFrames - 1) * MaxGap + 2 * LoopPeriod < DEFAULT_INTERFRAME_TIMEOUT_MS
    /\ DEFAULT_RESPONSE_TIMEOUT_MS <= ClockMod \div 2
    /\ DEFAULT_INTERFRAME_TIMEOUT_MS <= ClockMod \div 2
    /\ \A p \in Polls : ReplyFits(p)

VARIABLES
    loop,    \* where the application's loop is
    late,    \* time since the last tick(): the clock less now_ms_
    line,    \* frames the pack still has to send, each with the transmission it answers
    waited,  \* time since the request, or since the last frame
    uart,    \* what has arrived and is not yet read
    lost     \* history: transmissions of the latest request that lost a frame of their reply

linkVars == <<bms, stack, fate, loop, late, line, waited, uart, lost>>

(* The replies the pack may give to the request at the head: a MOSFET      *)
(* write is answered with the state the MOSFET is then in, a paginated     *)
(* read with the frames it was sized for, numbered from one; of fault      *)
(* records there are none.                                                 *)
Datagram(id, first) ==
    [src |-> BmsAddress, id |-> id, data |-> [i \in 0..7 |-> IF i = 0 THEN first ELSE 0]]

Replies(b) ==
    LET id == head(b).id IN
    CASE id \in MosControl     -> {<<Datagram(id, 0)>>, <<Datagram(id, 1)>>}
      [] id = FAULT_RECORDS    -> {<<Datagram(id, FRAME_NO_END)>>}
      [] b.expected_frames > 0 -> {[i \in 1..b.expected_frames |-> Datagram(id, i)]}
      [] OTHER                 -> {<<Datagram(id, 1)>>}

(* What a step of the session does to the line: when it transmits, the     *)
(* pack starts to answer.                                                  *)
Transmits ==
    IF bms'.sent = bms.sent THEN UNCHANGED <<line, waited, lost>>
    ELSE /\ \E reply \in Replies(bms') :
                line' = line \o [i \in DOMAIN reply |->
                                    [frame |-> reply[i], of |-> bms'.sent,
                                     within |-> IF i = 1 THEN MaxDelay ELSE MaxGap]]
         /\ waited' = 0
         /\ lost' = IF bms'.sent.ctx = bms.sent.ctx THEN lost ELSE {}

-----------------------------------------------------------------------------
(* The application: the loop of the examples, and polls from anywhere in   *)
(* it or in a handler.                                                     *)

(* As in the examples: the handler is set, and a first tick() tells the    *)
(* session the time before the first poll.                                 *)
Setup ==
    /\ loop = "setup"
    /\ \E clock \in Timeout : bms' = [bms EXCEPT !.tx_fn = TRUE, !.now_ms = clock]
    /\ loop' = "work"
    /\ UNCHANGED <<stack, fate, late, line, waited, uart, lost>>

LoopTicks ==
    /\ loop = "work" /\ stack = <<>>
    /\ Tick(late)
    /\ Transmits
    /\ loop' = "read" /\ late' = 0
    /\ UNCHANGED uart

(* feed() of the next thing read.                                          *)
LoopReads ==
    /\ loop = "read" /\ stack = <<>> /\ uart # <<>>
    /\ IF Head(uart).frame.id = NONE THEN OnFrameError("CHECKSUM")
       ELSE OnFrame(Head(uart).frame)
    /\ Transmits
    /\ uart' = Tail(uart)
    /\ UNCHANGED <<loop, late>>

LoopIsThrough ==
    /\ loop = "read" /\ stack = <<>> /\ uart = <<>>
    /\ loop' = "work"
    /\ UNCHANGED <<bms, stack, fate, late, line, waited, uart, lost>>

LoopPolls ==
    /\ loop # "setup"
    /\ \E p \in Polls : Poll(p)
    /\ Transmits
    /\ UNCHANGED <<loop, late, uart>>

HandlerReturns ==
    /\ Return
    /\ Transmits
    /\ UNCHANGED <<loop, late, uart>>

-----------------------------------------------------------------------------
(* The pack and the line.                                                  *)

FrameArrives ==
    /\ line # <<>>
    /\ uart' = Append(uart, Head(line))
    /\ line' = Tail(line) /\ waited' = 0
    /\ UNCHANGED <<bms, stack, fate, loop, late, lost>>

(* The frame is lost, or arrives with a byte wrong.                        *)
FrameSpoiled ==
    /\ line # <<>>
    /\ uart' \in {uart, Append(uart, [Head(line) EXCEPT !.frame.id = NONE])}
    /\ lost' = lost \cup {Head(line).of}
    /\ line' = Tail(line) /\ waited' = 0
    /\ UNCHANGED <<bms, stack, fate, loop, late>>

TimePasses ==
    /\ loop # "setup" /\ late < LoopPeriod
    /\ line # <<>> => waited < Head(line).within
    /\ late' = late + 1
    /\ waited' = IF line = <<>> THEN 0 ELSE waited + 1
    /\ UNCHANGED <<bms, stack, fate, loop, line, uart, lost>>

LinkInit ==
    /\ Init
    /\ loop = "setup" /\ late = 0
    /\ line = <<>> /\ waited = 0 /\ uart = <<>> /\ lost = {}

LinkNext ==
    \/ Setup \/ LoopTicks \/ LoopReads \/ LoopIsThrough \/ LoopPolls \/ HandlerReturns
    \/ FrameArrives \/ FrameSpoiled \/ TimePasses

LinkSpec == LinkInit /\ [][LinkNext]_linkVars

-----------------------------------------------------------------------------
(* Properties.                                                             *)

(* on_frame() tells a reply from a leftover by its Data ID alone.  With    *)
(* timeouts that cover the line, whatever is read answers the latest       *)
(* transmission of the request in flight: no reading and no MOSFET echo is *)
(* ever taken from an earlier request or an earlier attempt.               *)
AnswersItsOwn ==
    \A i \in DOMAIN uart : bms.state = "AWAITING" /\ uart[i].of = bms.sent

(* A reply that loses no frame is heard in full: although a deadline is    *)
(* armed from a now_ms_ that is behind the clock, and tick() runs before   *)
(* what has arrived is read, a request is resent, timed out or reported    *)
(* short only when the line lost something of every attempt.               *)
PromptReplyHeard ==
    /\ \A t \in 1..(bms.sent.tries - 1) : [bms.sent EXCEPT !.tries = t] \in lost
    /\ \A k \in DOMAIN stack :
           LET e == stack[k].event IN
           \/ e.kind = "TIMEOUT"
           \/ e.kind = "RESPONSE" /\ e.frames < bms.expected_frames
           => bms.sent \in lost
=============================================================================
