------------------------------ MODULE Protocol ------------------------------
(***************************************************************************)
(* The static tables of the HAIDI protocol that decide how the session     *)
(* handles a command: which Data IDs exist, where the alarm-threshold grid *)
(* sits, how a paginated reply is laid out and which decoder takes a       *)
(* reply.  Pure operators, translated from haidi_protocol.{hpp,cpp} and    *)
(* haidi_decode.cpp.  Data IDs are the numbers of the enum, in decimal.    *)
(***************************************************************************)
EXTENDS Integers

Byte == 0..255

CAPACITY_VOLTAGE      == 80
BMU_CELL_TEMP_COUNT   == 81
FAULT_RECORDS         == 100
STATUS_INFO           == 148
CELL_VOLTAGES         == 149
CELL_TEMPERATURES     == 150
DISCHARGE_MOS_CONTROL == 217
CHARGE_MOS_CONTROL    == 218
NONE                  == 0

MosControl == {DISCHARGE_MOS_CONTROL, CHARGE_MOS_CONTROL}

(* 0x50..0x6A, 0x70..0x8A, 0x90..0x9A and 0xD8..0xDA. *)
is_known_data_id(id) == id \in (80..106) \cup (112..138) \cup (144..154) \cup (216..218)

-----------------------------------------------------------------------------
(* The alarm-threshold grid, nine classes by three levels from 0x70.       *)

ALARM_THRESHOLD_FIRST == 112
ALARM_THRESHOLD_LAST  == 138
ALARM_CLASS_COUNT     == 9
ALARM_LEVEL_COUNT     == 3

is_alarm_threshold_id(id) == id \in ALARM_THRESHOLD_FIRST..ALARM_THRESHOLD_LAST

(* The result is cast back to a byte, so an unchecked pair wraps.          *)
alarm_threshold_id(cls, lvl) ==
    (ALARM_THRESHOLD_FIRST + lvl * ALARM_CLASS_COUNT + cls) % 256

alarm_class_of(id) == (id - ALARM_THRESHOLD_FIRST) % ALARM_CLASS_COUNT
alarm_level_of(id) == (id - ALARM_THRESHOLD_FIRST) \div ALARM_CLASS_COUNT

(* A mutant: the class is not range-checked before the ID is computed.     *)
poll_alarm_threshold_unchecked(cls, lvl) ==
    IF lvl < ALARM_LEVEL_COUNT THEN alarm_threshold_id(cls, lvl) ELSE NONE

(* The Data ID poll_alarm_threshold() asks request() for; NONE is refused. *)
poll_alarm_threshold(cls, lvl) ==
    IF cls < ALARM_CLASS_COUNT /\ lvl < ALARM_LEVEL_COUNT
    THEN alarm_threshold_id(cls, lvl)
    ELSE NONE

-----------------------------------------------------------------------------
(* Pagination.                                                             *)

Layout(multi, streaming, base, bpf, count, total) ==
    [multi |-> multi, streaming |-> streaming, frame_base |-> base,
     bytes_per_frame |-> bpf, frame_count |-> count, total_bytes |-> total]

(* 0x55; then 0x56, 0x57 and 0x6A; then 0x62 and 0x63.                     *)
ManufacturerName == {85}
LongText         == {86, 87, 106}
Versions         == {98, 99}

(* A mutant: the hardware version is left out of the paginated commands.   *)
multiframe_info_no_0x63(id) ==
    CASE id \in ManufacturerName   -> Layout(TRUE, FALSE, 1, 7, 3, 16)
      [] id \in LongText           -> Layout(TRUE, FALSE, 1, 7, 5, 32)
      [] id = 98                   -> Layout(TRUE, FALSE, 0, 7, 2, 14)
      [] id = CELL_VOLTAGES        -> Layout(TRUE, FALSE, 0, 6, 0, 0)
      [] id = CELL_TEMPERATURES    -> Layout(TRUE, FALSE, 0, 7, 0, 0)
      [] id = FAULT_RECORDS        -> Layout(TRUE, TRUE, 0, 7, 0, 0)
      [] OTHER                     -> Layout(FALSE, FALSE, 0, 0, 0, 0)

multiframe_info(id) ==
    CASE id \in ManufacturerName   -> Layout(TRUE, FALSE, 1, 7, 3, 16)
      [] id \in LongText           -> Layout(TRUE, FALSE, 1, 7, 5, 32)
      [] id \in Versions           -> Layout(TRUE, FALSE, 0, 7, 2, 14)
      [] id = CELL_VOLTAGES        -> Layout(TRUE, FALSE, 0, 6, 0, 0)
      [] id = CELL_TEMPERATURES    -> Layout(TRUE, FALSE, 0, 7, 0, 0)
      [] id = FAULT_RECORDS        -> Layout(TRUE, TRUE, 0, 7, 0, 0)
      [] OTHER                     -> Layout(FALSE, FALSE, 0, 0, 0, 0)

(* A mutant: rounds down, so the last, partly filled frame is not awaited. *)
frames_for_rounding_down(count, per_frame, max_frames) ==
    LET frames == count \div per_frame
    IN  IF frames > max_frames THEN max_frames ELSE frames

(* Whole frames of per_frame items that carry count items, at most         *)
(* max_frames; none when the count is unknown.                             *)
frames_for(count, per_frame, max_frames) ==
    LET frames == (count + per_frame - 1) \div per_frame
    IN  IF count = 0 THEN 0
        ELSE IF frames > max_frames THEN max_frames ELSE frames

cell_voltage_frames(cell_count)     == frames_for(cell_count, 3, 16)
cell_temperature_frames(temp_count) == frames_for(temp_count, 7, 3)

-----------------------------------------------------------------------------
(* Which replies have a decoder: what decode_single() and decode_multi()   *)
(* return.  The field layouts they fill in are data.                       *)

decode_single(id) ==
    \/ is_alarm_threshold_id(id)
    \/ id \in (80..84) \cup (88..97) \cup (101..105) \cup (144..148) \cup (151..154) \cup {216}

decode_multi(id) ==
    id \in ManufacturerName \cup LongText \cup Versions \cup {CELL_VOLTAGES, CELL_TEMPERATURES}
=============================================================================
