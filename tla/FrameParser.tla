----------------------------- MODULE FrameParser -----------------------------
(***************************************************************************)
(* The framer of haidi_frame_parser.{hpp,cpp}: bytes in, verified frames   *)
(* out.  One step consumes one byte, so that a chunk may be cut anywhere   *)
(* and a callback may reset the parser, or feed it, between two bytes: the *)
(* code calls sink and on_error after it has brought len_ and buf_ up to   *)
(* date, and touches neither again before the next byte.                   *)
(***************************************************************************)
EXTENDS Integers, Sequences, FiniteSetsExt

CONSTANTS
    MSG_MAX_LEN,    \* bytes of a frame (13 in the code)
    MSG_LEN_INDEX,  \* index of its length field, counted from 0 (3)
    START_FLAG, LENGTH_FLAG,
    ByteMod,        \* the checksum is a sum modulo this (256)
    DiscardMod,     \* discarded_ is a counter modulo this (2^32)
    Bytes,          \* the bytes the transport delivers
    MaxFed          \* bound: bytes fed between two resets

ASSUME FrameAssumption ==
    /\ MSG_MAX_LEN \in Nat /\ MSG_LEN_INDEX \in Nat \ {0} /\ MSG_LEN_INDEX + 1 < MSG_MAX_LEN
    /\ ByteMod \in Nat \ {0} /\ DiscardMod \in Nat \ {0} /\ MaxFed \in Nat
    /\ Bytes \subseteq 0..(ByteMod - 1)

VARIABLES
    buf,        \* the first len_ bytes of buf_
    discarded,  \* discarded_
    stream,     \* history: the bytes fed since the last reset()
    frames      \* history: where in stream each delivered frame began

vars == <<buf, discarded, stream, frames>>

DATA_OFFSET == MSG_LEN_INDEX + 1

-----------------------------------------------------------------------------
(* Sequences count from 1: the byte at index i of the code is at i + 1.    *)

(* The sum of every byte before the last, truncated as it accumulates.     *)
calc_chksum(bytes) ==
    LET sum[i \in 0..(MSG_MAX_LEN - 1)] ==
            IF i = 0 THEN 0 ELSE (sum[i - 1] + bytes[i]) % ByteMod
    IN  sum[MSG_MAX_LEN - 1]

ChecksumOK(bytes) == bytes[MSG_MAX_LEN] = calc_chksum(bytes)

(* Where resync() resumes: the first start flag after the first byte, or   *)
(* past the end when there is none.                                        *)
NextStart(b) == Min({i \in 2..(Len(b) + 1) : i <= Len(b) => b[i] = START_FLAG})

(* A mutant: gives up the whole buffer.                                    *)
resync_dropping_all(b) == <<>>

(* A mutant: drops the bad byte and does not look for a start flag.        *)
resync_without_slide(b) == Tail(b)

resync(b) == SubSeq(b, NextStart(b), Len(b))

Resync(b) ==
    /\ buf' = resync(b)
    /\ discarded' = (discarded + Len(b) - Len(resync(b))) % DiscardMod

Consume(byte) == Len(stream) < MaxFed /\ stream' = Append(stream, byte)

(* A frame can only begin at the start flag; anything else is junk.        *)
Junk(byte) ==
    /\ Consume(byte)
    /\ buf = <<>> /\ byte # START_FLAG
    /\ discarded' = (discarded + 1) % DiscardMod
    /\ UNCHANGED <<buf, frames>>

(* The byte is stored; b is the buffer with it.                            *)
Store(byte, b) ==
    /\ Consume(byte)
    /\ buf = <<>> => byte = START_FLAG
    /\ b = Append(buf, byte)

(* The length field is looked at when it has just been stored, and only    *)
(* then.                                                                   *)
LengthBad(b) == Len(b) = DATA_OFFSET /\ b[MSG_LEN_INDEX + 1] # LENGTH_FLAG

FeedBadLength(byte) ==
    LET b == Append(buf, byte) IN
    /\ Store(byte, b)
    /\ LengthBad(b)
    /\ Resync(b)
    /\ UNCHANGED frames

FeedPartial(byte) ==
    LET b == Append(buf, byte) IN
    /\ Store(byte, b)
    /\ ~LengthBad(b) /\ Len(b) < MSG_MAX_LEN
    /\ buf' = b
    /\ UNCHANGED <<discarded, frames>>

(* A mutant: delivers the frame and keeps its last byte.                   *)
FeedFrameKeepingLast(byte) ==
    LET b == Append(buf, byte) IN
    /\ Store(byte, b)
    /\ ~LengthBad(b) /\ Len(b) >= MSG_MAX_LEN /\ ChecksumOK(b)
    /\ buf' = IF byte = START_FLAG THEN <<byte>> ELSE <<>>
    /\ frames' = Append(frames, Len(stream) + 2 - MSG_MAX_LEN)
    /\ UNCHANGED discarded

FeedFrame(byte) ==
    LET b == Append(buf, byte) IN
    /\ Store(byte, b)
    /\ ~LengthBad(b) /\ Len(b) >= MSG_MAX_LEN /\ ChecksumOK(b)
    /\ buf' = <<>>
    /\ frames' = Append(frames, Len(stream) + 2 - MSG_MAX_LEN)
    /\ UNCHANGED discarded

FeedBadChecksum(byte) ==
    LET b == Append(buf, byte) IN
    /\ Store(byte, b)
    /\ ~LengthBad(b) /\ Len(b) >= MSG_MAX_LEN /\ ~ChecksumOK(b)
    /\ Resync(b)
    /\ UNCHANGED frames

(* A mutant: reset() keeps the count of discarded bytes.                   *)
ResetKeepingCount ==
    /\ buf' = <<>>
    /\ stream' = <<>> /\ frames' = <<>>
    /\ UNCHANGED discarded

Reset ==
    /\ buf' = <<>> /\ discarded' = 0
    /\ stream' = <<>> /\ frames' = <<>>

Init == buf = <<>> /\ discarded = 0 /\ stream = <<>> /\ frames = <<>>

Next ==
    \/ \E byte \in Bytes :
           \/ Junk(byte) \/ FeedBadLength(byte) \/ FeedPartial(byte)
           \/ FeedFrame(byte) \/ FeedBadChecksum(byte)
    \/ Reset

Spec == Init /\ [][Next]_vars

-----------------------------------------------------------------------------
(* Properties.                                                             *)

(* "A complete frame is never held", and what is held begins a frame.      *)
TypeOK ==
    /\ buf \in Seq(Bytes) /\ Len(buf) < MSG_MAX_LEN
    /\ buf # <<>> => buf[1] = START_FLAG
    /\ discarded \in 0..(DiscardMod - 1)
    /\ stream \in Seq(Bytes)
    /\ frames \in Seq(Nat \ {0})

(* Every byte fed is in a delivered frame, in the buffer, or counted by    *)
(* discarded(), and none in two of these.                                  *)
ByteAccounting ==
    discarded = (Len(stream) - Len(buf) - MSG_MAX_LEN * Len(frames)) % DiscardMod

(* The stretch of s, as long as a frame, that begins at p.                 *)
Window(s, p) == SubSeq(s, p, p + MSG_MAX_LEN - 1)

(* The first byte of stream that is still in the buffer, or the next one.  *)
BufferStart == Len(stream) - Len(buf) + 1

(* Frames are stretches of the stream with a start flag and a matching     *)
(* checksum, delivered in order, disjoint, and apart from the bytes still  *)
(* buffered, which are the last ones fed.                                  *)
FramesFromStream ==
    /\ buf = SubSeq(stream, BufferStart, Len(stream))
    /\ \A k \in DOMAIN frames :
           /\ frames[k] + MSG_MAX_LEN <= BufferStart
           /\ stream[frames[k]] = START_FLAG /\ ChecksumOK(Window(stream, frames[k]))
           /\ \A j \in DOMAIN frames : j < k => frames[j] + MSG_MAX_LEN <= frames[k]

(* A whole frame of s lies at p: start flag, length field and checksum.    *)
Genuine(s, p) ==
    /\ p + MSG_MAX_LEN - 1 <= Len(s)
    /\ s[p] = START_FLAG
    /\ s[p + MSG_LEN_INDEX] = LENGTH_FLAG
    /\ ChecksumOK(Window(s, p))

Covers(q, p) == q <= p /\ p < q + MSG_MAX_LEN

(* "A genuine frame that began inside a corrupt one still survives": every *)
(* frame in the stream is delivered with its last byte, unless it begins   *)
(* inside another frame that was delivered.                                *)
NoGenuineFrameLost ==
    \A p \in 1..Len(stream) :
        Genuine(stream, p) => \E k \in DOMAIN frames : Covers(frames[k], p)

(* "It does enforce the two structural invariants that hold in both        *)
(* directions, a leading 0xA5 and a length field of 0x08."                 *)
LengthFieldEnforced ==
    \A k \in DOMAIN frames : stream[frames[k] + MSG_LEN_INDEX] = LENGTH_FLAG
=============================================================================
