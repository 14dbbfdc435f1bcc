------------------------------ MODULE Payloads ------------------------------
(***************************************************************************)
(* The bytes of a frame and of a payload.  encode() and the checksum of    *)
(* src/haidi_protocol.cpp; the structs of include/haidi_payloads.hpp as    *)
(* the types of their members, in order; and for every reply of one frame, *)
(* and for a fault record, the terms with which src/haidi_decode.cpp fills *)
(* the struct in, in order: a conversion and the byte it starts at.        *)
(***************************************************************************)
EXTENDS EventPayload

MSG_MAX_LEN == 13
MSG_LAST_INDEX == MSG_MAX_LEN - 1
START_FLAG  == 165
LENGTH_FLAG == 8
DATA_OFFSET == 4

-----------------------------------------------------------------------------
(* A frame is a function of the index, from 0.                             *)

(* A mutant: the sum stops one byte short.                                 *)
calc_chksum_short(bytes) ==
    LET sum[i \in 0..MSG_LAST_INDEX] == IF i = 0 THEN 0 ELSE (sum[i - 1] + bytes[i - 1]) % 256
    IN  sum[MSG_LAST_INDEX - 1]

calc_chksum(bytes) ==
    LET sum[i \in 0..MSG_LAST_INDEX] == IF i = 0 THEN 0 ELSE (sum[i - 1] + bytes[i - 1]) % 256
    IN  sum[MSG_LAST_INDEX]

Unsummed(host, id, data) ==
    [i \in 0..MSG_LAST_INDEX |->
        CASE i = 0 -> START_FLAG
          [] i = 1 -> host
          [] i = 2 -> id
          [] i = 3 -> LENGTH_FLAG
          [] i \in DATA_OFFSET..(MSG_LAST_INDEX - 1) -> data[i - DATA_OFFSET]
          [] OTHER -> 0]

encode(host, id, data) ==
    [Unsummed(host, id, data) EXCEPT ![MSG_LAST_INDEX] = calc_chksum(Unsummed(host, id, data))]

data_of(frame) == [i \in 0..7 |-> frame[DATA_OFFSET + i]]

-----------------------------------------------------------------------------
(* Conversions.                                                            *)

be16(high, low) == high * 256 + low

int16(n) == IF n % 65536 < 32768 THEN n % 65536 ELSE (n % 65536) - 65536

CURRENT_OFFSET     == 30000
TEMPERATURE_OFFSET == 40
YEAR_OFFSET        == 2000

to_current_da(raw)    == int16(raw - CURRENT_OFFSET)
to_temperature_c(raw) == int16(raw - TEMPERATURE_OFFSET)
to_year(raw)          == (raw + YEAR_OFFSET) % 65536

(* What each conversion reads and gives: bit0 and bit1 test one bit, flag  *)
(* tests the byte for non-zero.                                            *)
Width == [byte |-> 1, be16 |-> 2, be32 |-> 4, temperature |-> 1, current |-> 2, year |-> 1,
          flag |-> 1, bit0 |-> 1, bit1 |-> 1]
Gives == [byte |-> "u8", be16 |-> "u16", be32 |-> "u32", temperature |-> "i16",
          current |-> "i16", year |-> "u16", flag |-> "bool", bit0 |-> "bool", bit1 |-> "bool"]

-----------------------------------------------------------------------------
(* The structs, by the member of EventPayload they are the type of.        *)

Times(n, x) == [i \in 1..n |-> x]

StaticStructs ==
    [capacity_voltage |-> <<"u32", "u32">>,
     bmu_cell_temp_count |-> Times(8, "u8"),
     total_charge_discharge_ah |-> <<"u32", "u32">>,
     battery_operation_mode |-> <<"u8", "u8", "u16", "u8", "u8", "u16", "u8">>,
     firmware_index |-> Times(8, "u8"),
     rtc |-> <<"u16">> \o Times(7, "u8"),
     cell_voltage_alarm |-> Times(4, "u16"), total_voltage_alarm |-> Times(4, "u16"),
     current_alarm |-> Times(4, "i16"), temperature_alarm |-> Times(8, "i16"),
     soc_alarm |-> Times(4, "u16"), difference_alarm |-> <<"u16", "u16">> \o Times(4, "u8"),
     balancing_params |-> <<"u16", "u16">> \o Times(4, "u8"),
     current_params |-> <<"u16", "u16">> \o Times(4, "u8")]

FaultRecord ==
    [fault_record |-> <<"u16">> \o Times(6, "u8") \o <<"bool", "u16", "i16", "u16", "bool", "bool">>
                      \o <<"u16", "u8", "u16", "u8", "i16", "u8", "i16", "u8", "u8">>]

LaterStructs ==
    [board_number |-> <<"u8", "u8">>, heating_temperature |-> <<"i16", "i16", "u8">>,
     active_balancing_switch |-> <<"bool">>, active_balancing_params |-> <<"u8", "u16">>,
     inverter_params |-> <<"u8", "u8">>]

ThresholdStructs ==
    [alarm_threshold |-> Times(4, "u16"),
     current_alarm_threshold |-> <<"i16", "u16", "i16", "u16">>,
     temp_alarm_threshold |-> <<"i16", "u8", "i16", "u8", "i16", "u8", "i16", "u8">>]

TelemetryStructs ==
    [total_voltage_current_soc |-> <<"u16", "u16", "i16", "u16">>,
     cell_voltage_extremes |-> <<"u16", "u8", "u16", "u8", "u8", "u8">>,
     cell_temperature_extremes |-> <<"i16", "u8", "i16">> \o Times(5, "u8"),
     charge_discharge_mos |-> Times(4, "u8") \o <<"u32">>,
     status_info |-> <<"u8", "u8", "bool", "bool", "u8", "u16", "i16">>]

LaterTelemetryStructs ==
    [cell_balancing_bits |-> Times(8, "u8"), fault_status |-> Times(8, "u8"),
     balancing_state |-> <<"bool", "i16", "u8">>, battery_status |-> <<"u16">>,
     wakeup_source |-> Times(5, "bool")]

Struct(member) ==
    CASE member \in DOMAIN StaticStructs         -> StaticStructs[member]
      [] member \in DOMAIN FaultRecord           -> FaultRecord[member]
      [] member \in DOMAIN LaterStructs          -> LaterStructs[member]
      [] member \in DOMAIN ThresholdStructs      -> ThresholdStructs[member]
      [] member \in DOMAIN TelemetryStructs      -> TelemetryStructs[member]
      [] member \in DOMAIN LaterTelemetryStructs -> LaterTelemetryStructs[member]

-----------------------------------------------------------------------------
(* The initialisers.  Run(conv, n, at) is conv n times in a row from at;   *)
(* Term one of them.                                                       *)

Run(conv, n, at) == [i \in 1..n |-> [conv |-> conv, at |-> at + (i - 1) * Width[conv]]]
Term(conv, at)   == Run(conv, 1, at)

ThresholdInit(id) ==
    CASE decode_alarm_threshold(id) = "current_alarm_threshold" ->
             Term("current", 0) \o Term("be16", 2) \o Term("current", 4) \o Term("be16", 6)
      [] decode_alarm_threshold(id) = "temp_alarm_threshold" ->
             Term("temperature", 0) \o Term("byte", 1) \o Term("temperature", 2) \o Term("byte", 3)
             \o Term("temperature", 4) \o Term("byte", 5) \o Term("temperature", 6) \o Term("byte", 7)
      [] OTHER -> Run("be16", 4, 0)

(* A mutant: 0x91 is read as if its second reading were aligned.           *)
ExtremesInit_aligned ==
    Term("be16", 0) \o Term("byte", 2) \o Term("be16", 4) \o Run("byte", 3, 5)

(* 0x91, "note the unaligned layout".                                      *)
ExtremesInit ==
    Term("be16", 0) \o Term("byte", 2) \o Term("be16", 3) \o Run("byte", 3, 5)

SingleInit(id) ==
    CASE id \in {80, 82}          -> Run("be32", 2, 0)
      [] id \in {81, 84, 151, 152} -> Run("byte", 8, 0)
      [] id = 83 -> Run("byte", 2, 0) \o Term("year", 2) \o Run("byte", 2, 3) \o Term("be16", 5)
                    \o Term("byte", 7)
      [] id \in {89, 90, 93}      -> Run("be16", 4, 0)
      [] id = 91                  -> Run("current", 4, 0)
      [] id = 92                  -> Run("temperature", 8, 0)
      [] id \in {94, 95, 96}      -> Run("be16", 2, 0) \o Run("byte", 4, 4)
      [] id \in {88, 97}          -> Term("year", 0) \o Run("byte", 7, 1)
      [] id \in {101, 105}        -> Run("byte", 2, 0)
      [] id = 102 -> Term("temperature", 0) \o Term("temperature", 2) \o Term("byte", 4)
      [] id = 103 -> Term("flag", 0)
      [] id = 104 -> Term("byte", 0) \o Term("be16", 1)
      [] id = 144 -> Run("be16", 2, 0) \o Term("current", 4) \o Term("be16", 6)
      [] id = 145 -> ExtremesInit
      [] id = 146 -> Term("temperature", 0) \o Term("byte", 1) \o Term("temperature", 2)
                     \o Run("byte", 5, 3)
      [] id = 147 -> Run("byte", 4, 0) \o Term("be32", 4)
      [] id = 148 -> Run("byte", 2, 0) \o Run("flag", 2, 2) \o Term("byte", 4) \o Term("be16", 5)
                     \o Term("temperature", 7)
      [] id = 153 -> Term("flag", 0) \o Term("current", 1) \o Term("byte", 3)
      [] id = 154 -> Term("be16", 0)
      [] id = 216 -> Run("flag", 5, 0)

(* decode_fault_record(), up to the checksum in the last of its 27 bytes.  *)
FAULT_RECORD_LEN == 27

RecordInit ==
    Term("year", 0) \o Run("byte", 6, 1) \o Term("flag", 7) \o Term("be16", 8) \o Term("current", 10)
    \o Term("be16", 12) \o Term("bit0", 14) \o Term("bit1", 14) \o Term("be16", 15)
    \o Term("byte", 17) \o Term("be16", 18) \o Term("byte", 20) \o Term("temperature", 21)
    \o Term("byte", 22) \o Term("temperature", 23) \o Run("byte", 2, 24)

Initialisers(id) ==
    IF is_alarm_threshold_id(id) THEN ThresholdInit(id)
    ELSE IF id = FAULT_RECORDS THEN RecordInit
    ELSE SingleInit(id)

(* The bits of the reply a term reads.                                     *)
Reads(term) ==
    CASE term.conv = "bit0" -> {<<term.at, 0>>}
      [] term.conv = "bit1" -> {<<term.at, 1>>}
      [] OTHER -> (term.at..(term.at + Width[term.conv] - 1)) \X (0..7)
=============================================================================
