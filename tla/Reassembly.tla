----------------------------- MODULE Reassembly -----------------------------
(***************************************************************************)
(* The bytes of a reply of several frames: begin_awaiting(),               *)
(* handle_multi(), finish_multi() and handle_stream() of src/haidi_bms.cpp *)
(* with decode_multi(), one reply after another through the same buffers.  *)
(* Module HaidiBMS has the control around this.  Here a frame comes from   *)
(* the pack that was asked: those of a paginated reply in any order, any   *)
(* number of times, or never, those of a stream in order, some of them     *)
(* lost or repeated.                                                       *)
(*                                                                         *)
(* A byte is its origin, <<n, j>>: the j-th byte of the reply tagged n,    *)
(* j = 0 for padding.  <<0, 0>> is the zero the buffer is filled with.     *)
(***************************************************************************)
EXTENDS Protocol, Sequences, FiniteSetsExt

CONSTANTS
    Reads,       \* what is read: see Read
    Tags,        \* bound: how many replies in a row are told apart
    MaxDamage    \* bound: frames of one stream that are lost or repeated

MAX_FRAME_INDEX    == 16
MAX_REASSEMBLY_LEN == 96
ASSEMBLY_LEN       == (MAX_FRAME_INDEX + 1) * 7

FAULT_FRAMES_PER_RECORD == 4
FAULT_RECORD_LEN        == 27
FAULT_BUFFER_LEN        == FAULT_FRAMES_PER_RECORD * 7

ItemBytes(id)     == IF id = CELL_VOLTAGES THEN 2 ELSE 1
ItemsPerFrame(id) == multiframe_info(id).bytes_per_frame \div ItemBytes(id)

(* A read of command id, for which the session expects `expected` items (0 *)
(* when it does not know, and for text), of a pack that has `items` of     *)
(* them and numbers its frames from base.  The items of a stream are       *)
(* records, and the numbers of its frames are not looked at.               *)
Read == [id : Byte, expected : Byte, items : Byte, base : {0, 1}]

ASSUME ReadAssumption ==
    /\ Tags \in Nat \ {0} /\ MaxDamage \in Nat
    /\ \A r \in Reads : r \in Read /\ multiframe_info(r.id).multi

VARIABLES
    state,            \* state_
    assembly,         \* assembly_
    seen_mask,        \* seen_mask_, as the set of its bits
    expected_frames,  \* expected_frames_
    record,           \* record_, as far as it is filled
    frames_seen,      \* frames_seen_ of a stream
    read,             \* the read in flight, or the last one; its expected is expected_items_
    n,                \* history: the tag of that read, 0 before the first
    out,              \* history: the items the last event carried, or the records reported
    at,               \* the pack: frames of the stream it has sent
    damaged           \* history: the frames of the stream that were lost or repeated

buffers == <<assembly, seen_mask, record, frames_seen>>
stream  == <<record, frames_seen, at, damaged>>
vars == <<state, expected_frames, read, n, out, buffers, stream>>

Blank == <<0, 0>>

Streaming == multiframe_info(read.id).streaming

-----------------------------------------------------------------------------
(* The pack: its k-th frame, counted from 0, carries bytes_per_frame bytes *)
(* after its counter, padded past the last item.                           *)

ReplyFrames(r) == (r.items + ItemsPerFrame(r.id) - 1) \div ItemsPerFrame(r.id)

FrameByte(r, k, i) ==
    LET j == k * multiframe_info(r.id).bytes_per_frame + i + 1
    IN  IF j <= r.items * ItemBytes(r.id) THEN <<n, j>> ELSE <<n, 0>>

-----------------------------------------------------------------------------
(* The session.                                                            *)

FramesFor(r) ==
    CASE r.id = CELL_VOLTAGES     -> cell_voltage_frames(r.expected)
      [] r.id = CELL_TEMPERATURES -> cell_temperature_frames(r.expected)
      [] OTHER -> multiframe_info(r.id).frame_count

(* A mutant: what a stream left of an unfinished record is kept.           *)
begin_awaiting_keeping_record(r) ==
    /\ state = "IDLE"
    /\ state' = "AWAITING"
    /\ assembly' = [i \in 0..(ASSEMBLY_LEN - 1) |-> Blank]
    /\ seen_mask' = {} /\ record' = record /\ frames_seen' = 0
    /\ expected_frames' = FramesFor(r)
    /\ read' = r
    /\ n' = (n % Tags) + 1
    /\ out' = <<>>
    /\ at' = 0 /\ damaged' = <<>>

begin_awaiting(r) ==
    /\ state = "IDLE"
    /\ state' = "AWAITING"
    /\ assembly' = [i \in 0..(ASSEMBLY_LEN - 1) |-> Blank]
    /\ seen_mask' = {} /\ record' = <<>> /\ frames_seen' = 0
    /\ expected_frames' = FramesFor(r)
    /\ read' = r
    /\ n' = (n % Tags) + 1
    /\ out' = <<>>
    /\ at' = 0 /\ damaged' = <<>>

lowest_frame_no(mask) == Min(mask)

(* A mutant: counts the frames that came in, gaps or not.                  *)
contiguous_frames_by_count(mask, base) == Cardinality(mask)

(* Frames back to back from base: the distance to the first one missing.   *)
contiguous_frames(mask, base) ==
    Min({k \in 0..(MAX_FRAME_INDEX + 1) : base + k \notin mask})

(* What finish_multi() decodes: the unbroken run from the lowest counter,  *)
(* trimmed to the nominal length where one is known.                       *)
PayloadStart(id, mask) == lowest_frame_no(mask) * multiframe_info(id).bytes_per_frame

(* A mutant: does not trim to the number of items asked for.               *)
PayloadLenUntrimmed(r, mask) ==
    LET info == multiframe_info(r.id) IN
    Min({contiguous_frames(mask, lowest_frame_no(mask)) * info.bytes_per_frame,
              ASSEMBLY_LEN - PayloadStart(r.id, mask),
              MAX_REASSEMBLY_LEN}
             \cup (IF info.total_bytes # 0 THEN {info.total_bytes} ELSE {}))

PayloadLen(r, mask) ==
    LET info == multiframe_info(r.id) IN
    Min({contiguous_frames(mask, lowest_frame_no(mask)) * info.bytes_per_frame,
              ASSEMBLY_LEN - PayloadStart(r.id, mask),
              MAX_REASSEMBLY_LEN}
             \cup (IF info.total_bytes # 0 THEN {info.total_bytes} ELSE {})
             \cup (IF r.expected # 0 THEN {r.expected * ItemBytes(r.id)} ELSE {}))

(* The most items decode_multi() stores: MAX_CELLS, MAX_TEMPERATURES,      *)
(* MAX_VERSION_LEN, MAX_TEXT_LEN.                                          *)
MaxItems(id) ==
    CASE id = CELL_VOLTAGES     -> 48
      [] id = CELL_TEMPERATURES -> 21
      [] id \in Versions        -> 14
      [] OTHER                  -> 32

(* decode_multi(): cells are pairs of bytes, everything else single ones.  *)
Decoded(id, buf, start, len) ==
    [i \in 1..Min({len \div ItemBytes(id), MaxItems(id)}) |->
        [b \in 1..ItemBytes(id) |-> buf[start + (i - 1) * ItemBytes(id) + b - 1]]]

finish_multi(buf, mask) ==
    /\ out' = Decoded(read.id, buf, PayloadStart(read.id, mask), PayloadLen(read, mask))
    /\ state' = "IDLE"

(* The buffer with the k-th frame of the reply under its counter.          *)
Filed(k) ==
    LET bpf    == multiframe_info(read.id).bytes_per_frame
        offset == (read.base + k) * bpf
    IN  [i \in DOMAIN assembly |->
            IF i >= offset /\ i < offset + bpf THEN FrameByte(read, k, i - offset)
            ELSE assembly[i]]

AllFramesIn(mask) == expected_frames # 0 /\ Cardinality(mask) >= expected_frames

handle_multi(k) ==
    /\ state = "AWAITING" /\ ~Streaming
    /\ read.base + k <= MAX_FRAME_INDEX
    /\ assembly' = Filed(k)
    /\ seen_mask' = seen_mask \cup {read.base + k}
    /\ IF AllFramesIn(seen_mask') THEN finish_multi(assembly', seen_mask')
       ELSE UNCHANGED <<state, out>>
    /\ UNCHANGED <<expected_frames, read, n, stream>>

(* The deadline passes: what came in is the reply.                         *)
DeadlineFinishes ==
    /\ state = "AWAITING" /\ seen_mask # {}
    /\ finish_multi(assembly, seen_mask)
    /\ UNCHANGED <<expected_frames, read, n, buffers, stream>>

(* A frame of the stream: it fills the record, and the last one of a       *)
(* record has it reported.  Its counter is not looked at.                  *)
handle_stream(k) ==
    LET filled == SubSeq(record \o [i \in 1..7 |-> <<n, 7 * k + i>>], 1,
                         Min({Len(record) + 7, FAULT_BUFFER_LEN}))
    IN  /\ frames_seen' = (frames_seen + 1) % 256
        /\ IF Len(filled) >= FAULT_BUFFER_LEN
           THEN record' = <<>> /\ out' = Append(out, SubSeq(filled, 1, FAULT_RECORD_LEN))
           ELSE record' = filled /\ out' = out

(* The line: a frame arrives, and may be followed by itself; or is lost.   *)
StreamFrames == FAULT_FRAMES_PER_RECORD * read.items

Damage == Len(damaged) < MaxDamage /\ damaged' = Append(damaged, at)

StreamFrameArrives ==
    /\ state = "AWAITING" /\ Streaming /\ at < StreamFrames
    /\ handle_stream(at)
    /\ \/ at' = at + 1 /\ damaged' = damaged
       \/ at' = at /\ Damage
    /\ UNCHANGED <<state, assembly, seen_mask, expected_frames, read, n>>

StreamFrameLost ==
    /\ state = "AWAITING" /\ Streaming /\ at < StreamFrames
    /\ at' = at + 1 /\ Damage
    /\ UNCHANGED <<state, expected_frames, read, n, out, buffers>>

(* The sentinel: the stream is over, and part of a record is dropped.      *)
StreamEnds ==
    /\ state = "AWAITING" /\ Streaming /\ at = StreamFrames
    /\ state' = "IDLE"
    /\ UNCHANGED <<expected_frames, read, n, out, buffers, stream>>

(* The deadline of a stream, reported as TRUNCATED; or nothing came in and *)
(* no retry is left.  Neither carries a payload.  A retry changes nothing  *)
(* here.                                                                   *)
DeadlineGivesUp ==
    /\ state = "AWAITING" /\ seen_mask = {}
    /\ state' = "IDLE"
    /\ UNCHANGED <<expected_frames, read, n, out, buffers, stream>>

(* Before the first transaction, read means nothing.                       *)
Init ==
    /\ state = "IDLE"
    /\ assembly = [i \in 0..(ASSEMBLY_LEN - 1) |-> Blank]
    /\ seen_mask = {}
    /\ expected_frames = 0
    /\ read \in Reads
    /\ record = <<>> /\ frames_seen = 0
    /\ n = 0
    /\ out = <<>>
    /\ at = 0 /\ damaged = <<>>

Next ==
    \/ \E r \in Reads : begin_awaiting(r)
    \/ ~Streaming /\ \E k \in 0..(ReplyFrames(read) - 1) : handle_multi(k)
    \/ StreamFrameArrives \/ StreamFrameLost \/ StreamEnds
    \/ DeadlineFinishes
    \/ DeadlineGivesUp

Spec == Init /\ [][Next]_vars

-----------------------------------------------------------------------------
(* Properties.                                                             *)

(* The first frame of the reply that is missing, counted as the pack does. *)
FirstMissing == Min({k \in 0..ReplyFrames(read) : k = ReplyFrames(read) \/ read.base + k \notin seen_mask})

(* The i-th item as the pack sent it: past the last one, padding.          *)
Sent(i) ==
    [b \in 1..ItemBytes(read.id) |->
        IF i <= read.items THEN <<n, (i - 1) * ItemBytes(read.id) + b>> ELSE <<n, 0>>]

(* The items documented for the frames that came in: those before the      *)
(* first missing frame, as many as were asked for, or as the command has,  *)
(* or as the payload can hold.                                             *)
Nominal ==
    {FirstMissing * ItemsPerFrame(read.id), MaxItems(read.id)}
        \cup (IF read.expected # 0 THEN {read.expected} ELSE {})
        \cup (IF multiframe_info(read.id).total_bytes # 0
              THEN {multiframe_info(read.id).total_bytes} ELSE {})
Documented == [i \in 1..Min(Nominal) |-> Sent(i)]

Finished == state = "IDLE" /\ n > 0 /\ seen_mask # {}

(* With the first frame in, a reply is reported as documented: every item  *)
(* in its place, whichever base the pack counts from, in whatever order    *)
(* and how often frames came, cut at the first gap and at the count asked  *)
(* for, up to 48 cells counted from 1.                                     *)
ReadingsInPlace == Finished /\ read.base \in seen_mask => out = Documented

(* "A reply can never inherit the previous one's bytes", nor the zeros of  *)
(* the buffer: what is reported came in frames of this reply.              *)
NothingForeign ==
    \A i \in DOMAIN out : \A b \in DOMAIN out[i] : out[i][b][1] = n

(* "One event per stored record": up to the first frame lost or repeated,  *)
(* the records reported are those stored, whole and in order, whatever     *)
(* part of a record an earlier stream left behind.  From there on every    *)
(* record is shifted, to the end of the stream, and only its own sum tells.*)
Undamaged == (IF damaged = <<>> THEN at ELSE Head(damaged)) \div FAULT_FRAMES_PER_RECORD

RecordsInOrder ==
    n > 0 /\ Streaming =>
        /\ Len(out) >= Undamaged
        /\ damaged = <<>> => Len(out) = Undamaged
        /\ \A i \in 1..Undamaged :
               out[i] = [b \in 1..FAULT_RECORD_LEN |-> <<n, FAULT_BUFFER_LEN * (i - 1) + b>>]

(* "A reply is truncated at the first missing frame": whatever was lost.   *)
TruncatedAtFirstMissing == Finished => out = Documented
=============================================================================
