---------------------------- MODULE EventPayload ----------------------------
(***************************************************************************)
(* The payload of an event is a union.  The decoders and the session write *)
(* one of its members, tagged by the event's kind, Data ID and error; the  *)
(* as_*() accessors of src/haidi_event.cpp choose by that tag the member   *)
(* they hand out.  Pure operators; members are named as in EventPayload.   *)
(***************************************************************************)
EXTENDS Protocol, Sequences, FiniteSets

CURRENT                == 2
HIGH_TEMPERATURE       == 3
LOW_TEMPERATURE        == 4
TEMPERATURE_DIFFERENCE == 8
AlarmClasses == 0..TEMPERATURE_DIFFERENCE

-----------------------------------------------------------------------------
(* Which member a decoder writes.                                          *)

decode_alarm_threshold(id) ==
    CASE alarm_class_of(id) = CURRENT -> "current_alarm_threshold"
      [] alarm_class_of(id) \in {HIGH_TEMPERATURE, LOW_TEMPERATURE} -> "temp_alarm_threshold"
      [] OTHER -> "alarm_threshold"

(* 0x50..0x6A in order; what decode_multi() and decode_fault_record() fill *)
(* in is among them.                                                       *)
StaticReads ==
    <<"capacity_voltage", "bmu_cell_temp_count", "total_charge_discharge_ah",
      "battery_operation_mode", "firmware_index", "text", "text", "text", "rtc",
      "cell_voltage_alarm", "total_voltage_alarm", "current_alarm", "temperature_alarm",
      "soc_alarm", "difference_alarm", "balancing_params", "current_params", "rtc",
      "version", "version", "fault_record", "board_number", "heating_temperature",
      "active_balancing_switch", "active_balancing_params", "inverter_params", "text">>

(* 0x90..0x9A in order.                                                    *)
Telemetry ==
    <<"total_voltage_current_soc", "cell_voltage_extremes", "cell_temperature_extremes",
      "charge_discharge_mos", "status_info", "cell_voltages", "cell_temperatures",
      "cell_balancing_bits", "fault_status", "balancing_state", "battery_status">>

Written(id) ==
    CASE id \in 80..106            -> StaticReads[id - 79]
      [] is_alarm_threshold_id(id) -> decode_alarm_threshold(id)
      [] id \in 144..154           -> Telemetry[id - 143]
      [] id = 216                  -> "wakeup_source"
      [] id \in MosControl         -> "mos_control_ack"

(* An event that nobody filled in has the union's first member.            *)
Unwritten == "capacity_voltage"

-----------------------------------------------------------------------------
(* The events of Data ID id that the session emits.                        *)

Emitted(id) ==
    LET info     == multiframe_info(id)
        known    == is_known_data_id(id)
        response == [kind |-> "RESPONSE", error |-> "NONE", id |-> id, member |-> Written(id)]
        timeout  == [kind |-> "TIMEOUT", error |-> "NONE", id |-> id, member |-> Unwritten]
        errors   == {"BAD_SOURCE_ADDRESS", "UNEXPECTED_DATA_ID"}
                    \cup (IF known THEN {"CHECKSUM", "BAD_LENGTH"} ELSE {})
                    \cup (IF info.multi /\ ~info.streaming THEN {"FRAME_SEQUENCE"} ELSE {})
                    \cup (IF info.streaming THEN {"TRUNCATED"} ELSE {})
                    \cup (IF id \in MosControl THEN {"WRITE_REJECTED"} ELSE {})
    IN  (IF known THEN {response, timeout} ELSE {})
        \cup {[kind |-> "PROTOCOL_ERROR", error |-> error, id |-> id,
               member |-> IF error = "WRITE_REJECTED" THEN "mos_control_ack" ELSE Unwritten] :
                  error \in errors}

-----------------------------------------------------------------------------
(* The accessors: the member each hands out, "nullptr" for none.           *)

is_response(e) == e.kind = "RESPONSE"

responds_to(e, id) == is_response(e) /\ e.id = id

(* A mutant: any error event of a MOSFET write carries the echo.           *)
carries_mos_ack_on_any_error(e, id) == e.id = id

carries_mos_ack(e, id) == e.id = id /\ (is_response(e) \/ e.error = "WRITE_REJECTED")

(* A mutant: the level is not range-checked.                               *)
responds_to_threshold_unchecked(e, cls, level) == responds_to(e, alarm_threshold_id(cls, level))

responds_to_threshold(e, cls, level) ==
    level < ALARM_LEVEL_COUNT /\ responds_to(e, alarm_threshold_id(cls, level))

If(test, member) == IF test THEN member ELSE "nullptr"

(* as_capacity_voltage() .. as_sn_serial_number(), by the Data ID each one *)
(* is for, and the member it names.                                        *)
StaticAccessors ==
    [as_capacity_voltage |-> <<80, "capacity_voltage">>,
     as_bmu_cell_temp_count |-> <<81, "bmu_cell_temp_count">>,
     as_total_charge_discharge_ah |-> <<82, "total_charge_discharge_ah">>,
     as_battery_operation_mode |-> <<83, "battery_operation_mode">>,
     as_firmware_index |-> <<84, "firmware_index">>,
     as_manufacturer_name |-> <<85, "text">>, as_battery_name |-> <<86, "text">>,
     as_battery_serial_number |-> <<87, "text">>, as_battery_production_date |-> <<88, "rtc">>,
     as_cell_voltage_alarm |-> <<89, "cell_voltage_alarm">>,
     as_total_voltage_alarm |-> <<90, "total_voltage_alarm">>,
     as_current_alarm |-> <<91, "current_alarm">>,
     as_temperature_alarm |-> <<92, "temperature_alarm">>,
     as_soc_alarm |-> <<93, "soc_alarm">>, as_difference_alarm |-> <<94, "difference_alarm">>,
     as_balancing_params |-> <<95, "balancing_params">>,
     as_current_params |-> <<96, "current_params">>, as_rtc |-> <<97, "rtc">>,
     as_software_version |-> <<98, "version">>, as_hardware_version |-> <<99, "version">>,
     as_fault_record |-> <<100, "fault_record">>, as_board_number |-> <<101, "board_number">>,
     as_heating_temperature |-> <<102, "heating_temperature">>,
     as_active_balancing_switch |-> <<103, "active_balancing_switch">>,
     as_active_balancing_params |-> <<104, "active_balancing_params">>,
     as_inverter_params |-> <<105, "inverter_params">>, as_sn_serial_number |-> <<106, "text">>]

(* as_total_voltage_current_soc() .. as_wakeup_source().                   *)
TelemetryAccessors ==
    [as_total_voltage_current_soc |-> <<144, "total_voltage_current_soc">>,
     as_cell_voltage_extremes |-> <<145, "cell_voltage_extremes">>,
     as_cell_temperature_extremes |-> <<146, "cell_temperature_extremes">>,
     as_charge_discharge_mos |-> <<147, "charge_discharge_mos">>,
     as_status_info |-> <<148, "status_info">>, as_cell_voltages |-> <<149, "cell_voltages">>,
     as_cell_temperatures |-> <<150, "cell_temperatures">>,
     as_cell_balancing_bits |-> <<151, "cell_balancing_bits">>,
     as_fault_status |-> <<152, "fault_status">>, as_balancing_state |-> <<153, "balancing_state">>,
     as_battery_status |-> <<154, "battery_status">>, as_wakeup_source |-> <<216, "wakeup_source">>]

(* as_cell_overvoltage_threshold() .. as_temperature_difference_threshold, *)
(* one for each alarm class.                                               *)
as_threshold(e, cls, level) ==
    If(responds_to_threshold(e, cls, level),
       CASE cls = CURRENT -> "current_alarm_threshold"
         [] cls \in {HIGH_TEMPERATURE, LOW_TEMPERATURE} -> "temp_alarm_threshold"
         [] OTHER -> "alarm_threshold")

as_mos_control(e, id) == If(carries_mos_ack(e, id), "mos_control_ack")

(* The accessors named for a payload rather than for a command.            *)
as_text(e)    == If(is_response(e) /\ e.id \in {85, 86, 87, 106}, "text")
as_version(e) == If(is_response(e) /\ e.id \in {98, 99}, "version")

Threshold(e) == is_response(e) /\ is_alarm_threshold_id(e.id)

as_alarm_threshold(e) ==
    If(Threshold(e) /\ alarm_class_of(e.id) \notin {CURRENT, HIGH_TEMPERATURE, LOW_TEMPERATURE},
       "alarm_threshold")
as_current_alarm_threshold(e) ==
    If(Threshold(e) /\ alarm_class_of(e.id) = CURRENT, "current_alarm_threshold")
as_temp_alarm_threshold(e) ==
    If(Threshold(e) /\ alarm_class_of(e.id) \in {HIGH_TEMPERATURE, LOW_TEMPERATURE},
       "temp_alarm_threshold")
as_mos_control_ack(e) ==
    If(\E id \in MosControl : carries_mos_ack(e, id), "mos_control_ack")

(* What an application gets from the accessors of commands, called for the *)
(* given level where they take one: the accessor, which one of its kind,   *)
(* and the result.                                                         *)
ByCommand(e, level) ==
    {<<a, 0, If(responds_to(e, StaticAccessors[a][1]), StaticAccessors[a][2])>> :
        a \in DOMAIN StaticAccessors}
    \cup {<<a, 0, If(responds_to(e, TelemetryAccessors[a][1]), TelemetryAccessors[a][2])>> :
        a \in DOMAIN TelemetryAccessors}
    \cup {<<"as_threshold", cls, as_threshold(e, cls, level)>> : cls \in AlarmClasses}
    \cup {<<"as_mos_control", id, as_mos_control(e, id)>> : id \in MosControl}

ByShape(e) ==
    {<<"as_text", 0, as_text(e)>>, <<"as_version", 0, as_version(e)>>,
     <<"as_alarm_threshold", 0, as_alarm_threshold(e)>>,
     <<"as_current_alarm_threshold", 0, as_current_alarm_threshold(e)>>,
     <<"as_temp_alarm_threshold", 0, as_temp_alarm_threshold(e)>>,
     <<"as_mos_control_ack", 0, as_mos_control_ack(e)>>}

Answers(calls) == {call \in calls : call[3] # "nullptr"}
=============================================================================
