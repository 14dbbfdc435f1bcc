----------------------------- MODULE MCProtocol -----------------------------
(***************************************************************************)
(* The tables of Protocol, EventPayload, Payloads and ExampleTables        *)
(* against what their users rely on, for every pair of bytes: a is read as *)
(* a Data ID, an alarm class, a count or the first byte of a field, b as   *)
(* an alarm level, the byte after it or what became of a byte.  A state is *)
(* one input; nothing moves.                                               *)
(***************************************************************************)
EXTENDS Payloads, ExampleTables

VARIABLES a, b

Init == a \in Byte /\ b \in Byte

Next == UNCHANGED <<a, b>>

Spec == Init /\ [][Next]_<<a, b>>

(* The ways on_frame() can report a reply: one frame, paginated, streamed, *)
(* and the echo of a MOSFET write.                                         *)
Decoders(id) ==
    {d \in {"single", "multi", "stream", "echo"} :
        LET info == multiframe_info(id) IN
        CASE d = "single" -> ~info.multi /\ id \notin MosControl /\ decode_single(id)
          [] d = "multi"  -> info.multi /\ ~info.streaming /\ decode_multi(id)
          [] d = "stream" -> info.multi /\ info.streaming
          [] d = "echo"   -> ~info.multi /\ id \in MosControl}

(* enqueue() accepts exactly the commands whose reply can be reported: the *)
(* whitelist, the pagination table and the switches of the two decoders    *)
(* agree on every Data ID, so that a reply never ends as UNKNOWN_DATA_ID.  *)
EveryAcceptedCommandDecodes ==
    Cardinality(Decoders(a)) = IF is_known_data_id(a) THEN 1 ELSE 0

(* poll_alarm_threshold() asks for the block of the class and level it was *)
(* given or, when either is out of range, is refused: however a caller     *)
(* casts its arguments, it never lands on another command.                 *)
AlarmPairNeverAliases ==
    LET id == poll_alarm_threshold(a, b) IN
    IF a < ALARM_CLASS_COUNT /\ b < ALARM_LEVEL_COUNT
    THEN /\ is_known_data_id(id) /\ is_alarm_threshold_id(id)
         /\ alarm_class_of(id) = a /\ alarm_level_of(id) = b
    ELSE ~is_known_data_id(id)

(* A paginated read of a known size waits for the least number of frames   *)
(* that carry it, 48 cells and 21 sensors at most; counted from 0 or from  *)
(* 1 these are counters a frame can have, so that the reply can complete.  *)
Carries(frames, per_frame, items) ==
    frames * per_frame >= items /\ (frames > 0 => (frames - 1) * per_frame < items)
AtMost(items, limit) == IF items < limit THEN items ELSE limit

FramesCarryTheItems ==
    /\ Carries(cell_voltage_frames(a), 3, AtMost(a, 48)) /\ cell_voltage_frames(a) <= 16
    /\ Carries(cell_temperature_frames(a), 7, AtMost(a, 21)) /\ cell_temperature_frames(a) <= 16
    /\ LET info == multiframe_info(a) IN
       info.frame_count # 0 => Carries(info.frame_count, info.bytes_per_frame, info.total_bytes)

(* The payload is there when the command succeeded, and in the one error   *)
(* that carries the states asked for and applied.                          *)
HasPayload(e) == e.kind = "RESPONSE" \/ e.error = "WRITE_REJECTED"

(* "They return nullptr on a mismatch instead of handing back another      *)
(* command's bytes": of every event the session emits, an accessor that    *)
(* answers, whatever level a caller casts, hands out the member of the     *)
(* union that was written for it.                                          *)
AccessorsReadWhatWasWritten ==
    \A e \in Emitted(a) : \A call \in Answers(ByCommand(e, b) \cup ByShape(e)) :
        call[3] = e.member /\ HasPayload(e)

(* "One accessor per command": a payload is within reach of exactly one of *)
(* them, for a threshold at its own level only, and no other event of any. *)
OneAccessorAnswers ==
    \A e \in Emitted(a) :
        Cardinality(Answers(ByCommand(e, b))) =
            IF HasPayload(e) /\ (is_alarm_threshold_id(a) => b = alarm_level_of(a)) THEN 1 ELSE 0

-----------------------------------------------------------------------------
(* The initialiser lists are positional and the offsets in them literals:  *)
(* a decoder that swaps two terms or slips by a byte still compiles.  Each *)
(* fills in all of its struct, every member from a conversion that gives   *)
(* the member's type, the members in the order of their bytes, no bit read *)
(* twice and none past the reply (be16() and be32() do not check).  A      *)
(* fault record ends where the sum over it stands.                         *)
Decoded(id) == decode_single(id) \/ id = FAULT_RECORDS

DecodersFillTheirStructs ==
    Decoded(a) =>
        LET terms  == Initialisers(a)
            struct == Struct(Written(a))
            room   == IF a = FAULT_RECORDS THEN FAULT_RECORD_LEN - 1 ELSE 8
        IN  /\ Len(terms) = Len(struct)
            /\ \A i \in DOMAIN terms :
                 /\ Gives[terms[i].conv] = struct[i]
                 /\ Reads(terms[i]) \subseteq (0..(room - 1)) \X (0..7)
                 /\ \A j \in 1..(i - 1) : /\ Reads(terms[i]) \cap Reads(terms[j]) = {}
                                          /\ terms[j].at <= terms[i].at

(* "The document's three universal scalings are all integer-exact": what   *)
(* comes out is the raw reading less or plus its bias, for every raw       *)
(* reading, so that for a current "positive is charge, negative is         *)
(* discharge".                                                             *)
ScalingsExact ==
    LET raw == be16(a, b) IN
    /\ to_current_da(raw) = raw - CURRENT_OFFSET
    /\ to_temperature_c(a) = a - TEMPERATURE_OFFSET
    /\ to_year(a) = a + YEAR_OFFSET

(* A frame that encode() builds carries its data and checks out; one byte  *)
(* that the line changes, in whichever place, never goes unnoticed.        *)
Sums(frame) == frame[MSG_LAST_INDEX] = calc_chksum(frame)

EncodedFramesAreSound ==
    LET data  == [i \in 0..7 |-> (b + i * a) % 256]
        frame == encode(64, a, data)
    IN  /\ data_of(frame) = data
        /\ Sums(frame)
        /\ \A i \in DOMAIN frame : frame[i] # b => ~Sums([frame EXCEPT ![i] = b])

(* print_payload() is "a complete printer for any Event" and finds no      *)
(* printer only if "a command was added without" one; the printer of       *)
(* poll_loop has one for all that poll_loop asks for.  What they print is  *)
(* read as the payload that was written.                                   *)
EveryReplyPrinted ==
    \A e \in Emitted(a) :
        /\ print_payload(e) = If(HasPayload(e), e.member)
        /\ (\E poll \in PollLoopPolls : Requests(poll) = a) =>
               print_response(e) = If(HasPayload(e), e.member)

(* dump_all "reads every documented HAIDI BMS value" and "reads only": it  *)
(* asks for every command but the MOSFET writes, once, and for what the    *)
(* line says it asks for; both sources of the cell and sensor counts come  *)
(* before the reads that they size, whatever is skipped.                   *)
ScheduleReadsEverythingOnce ==
    \A skip_alarms, skip_records \in BOOLEAN :
        LET schedule == build_schedule(skip_alarms, skip_records)
            skipped  == \/ skip_alarms /\ is_alarm_threshold_id(a)
                        \/ skip_records /\ a = FAULT_RECORDS
            Places(id) == {i \in DOMAIN schedule : schedule[i] = id}
        IN  /\ Cardinality(Places(a)) =
                    IF is_known_data_id(a) /\ a \notin MosControl /\ ~skipped THEN 1 ELSE 0
            /\ Places(a) # {} => issue(a) = a
            /\ a \in {CELL_VOLTAGES, CELL_TEMPERATURES} =>
                   \A i \in Places(a), j \in Places(STATUS_INFO) \cup Places(BMU_CELL_TEMP_COUNT) : j < i
            /\ Len(schedule) <= MAX_PROBES
=============================================================================
