--------------------------- MODULE ExampleTables ---------------------------
(***************************************************************************)
(* What the example programs ask for and print: the schedule of dump_all,  *)
(* the poll function its issue() calls for a Data ID, and the accessors    *)
(* the two printers try in turn.  Pure operators.                          *)
(***************************************************************************)
EXTENDS EventPayload

-----------------------------------------------------------------------------
(* The poll_*() functions by the Data ID each one requests: 0x50..0x6A and *)
(* 0x90..0x9A.  poll_alarm_threshold() is in Protocol.                     *)

StaticPolls ==
    [poll_capacity_voltage |-> 80, poll_bmu_cell_temp_count |-> 81,
     poll_total_charge_discharge_ah |-> 82, poll_battery_operation_mode |-> 83,
     poll_firmware_index |-> 84, poll_manufacturer_name |-> 85, poll_battery_name |-> 86,
     poll_battery_serial_number |-> 87, poll_battery_production_date |-> 88,
     poll_cell_voltage_alarm |-> 89, poll_total_voltage_alarm |-> 90, poll_current_alarm |-> 91,
     poll_temperature_alarm |-> 92, poll_soc_alarm |-> 93, poll_difference_alarm |-> 94,
     poll_balancing_params |-> 95, poll_current_params |-> 96, poll_rtc |-> 97,
     poll_software_version |-> 98, poll_hardware_version |-> 99]

LaterPolls ==
    [poll_board_number |-> 101, poll_heating_temperature |-> 102,
     poll_active_balancing_switch |-> 103, poll_active_balancing_params |-> 104,
     poll_inverter_params |-> 105, poll_sn_serial_number |-> 106, poll_fault_records |-> 100]

TelemetryPolls ==
    [poll_total_voltage_current_soc |-> 144, poll_cell_voltage_extremes |-> 145,
     poll_cell_temperature_extremes |-> 146, poll_charge_discharge_mos_status |-> 147,
     poll_status_info |-> 148, poll_cell_balancing_bits |-> 151, poll_fault_status |-> 152,
     poll_balancing_state |-> 153, poll_battery_status |-> 154]

PaginatedPolls ==
    [poll_cell_voltages |-> 149, poll_cell_temperatures |-> 150, poll_wakeup_source |-> 216]

Requests(poll) ==
    CASE poll \in DOMAIN StaticPolls    -> StaticPolls[poll]
      [] poll \in DOMAIN LaterPolls     -> LaterPolls[poll]
      [] poll \in DOMAIN TelemetryPolls -> TelemetryPolls[poll]
      [] poll \in DOMAIN PaginatedPolls -> PaginatedPolls[poll]

-----------------------------------------------------------------------------
(* dump_all's issue(): the cases of its switch, 0x50..0x6A and 0x90..0x9A  *)
(* in the order of the Data IDs.                                           *)

IssueStatic ==
    <<"poll_capacity_voltage", "poll_bmu_cell_temp_count", "poll_total_charge_discharge_ah",
      "poll_battery_operation_mode", "poll_firmware_index", "poll_manufacturer_name",
      "poll_battery_name", "poll_battery_serial_number", "poll_battery_production_date",
      "poll_cell_voltage_alarm", "poll_total_voltage_alarm", "poll_current_alarm",
      "poll_temperature_alarm", "poll_soc_alarm", "poll_difference_alarm",
      "poll_balancing_params", "poll_current_params", "poll_rtc", "poll_software_version",
      "poll_hardware_version", "poll_fault_records", "poll_board_number",
      "poll_heating_temperature", "poll_active_balancing_switch",
      "poll_active_balancing_params", "poll_inverter_params", "poll_sn_serial_number">>

IssueTelemetry ==
    <<"poll_total_voltage_current_soc", "poll_cell_voltage_extremes",
      "poll_cell_temperature_extremes", "poll_charge_discharge_mos_status", "poll_status_info",
      "poll_cell_voltages", "poll_cell_temperatures", "poll_cell_balancing_bits",
      "poll_fault_status", "poll_balancing_state", "poll_battery_status">>

(* The Data ID that issue(id) has the session ask for, NONE when it is     *)
(* refused.                                                                *)
issue(id) ==
    CASE is_alarm_threshold_id(id) -> poll_alarm_threshold(alarm_class_of(id), alarm_level_of(id))
      [] id \in 80..106            -> Requests(IssueStatic[id - 79])
      [] id \in 144..154           -> Requests(IssueTelemetry[id - 143])
      [] id = 216                  -> Requests("poll_wakeup_source")
      [] OTHER                     -> NONE

-----------------------------------------------------------------------------
(* dump_all's build_schedule(), under the options -A and -F.               *)

Identification == <<80, 81, 83, 84, 85, 86, 87, 106, 88, 98, 99, 101>>

(* A mutant: the counts come after the reads they size.                    *)
LiveTelemetry_counts_late ==
    <<144, 147, 149, 150, 148, 154, 82, 145, 146, 153, 151, 152, 216, 97>>

LiveTelemetry  == <<144, 147, 148, 154, 82, 145, 146, 149, 150, 153, 151, 152, 216, 97>>
Configuration  == <<89, 90, 91, 92, 93, 94, 95, 96, 102, 103, 104, 105>>

(* Every class of the first level, then of the second and of the third.    *)
AlarmThresholds ==
    [i \in 1..(ALARM_LEVEL_COUNT * ALARM_CLASS_COUNT) |->
        alarm_threshold_id((i - 1) % ALARM_CLASS_COUNT, (i - 1) \div ALARM_CLASS_COUNT)]

MAX_PROBES == 96

build_schedule(skip_alarm_thresholds, skip_fault_records) ==
    Identification \o LiveTelemetry \o Configuration
    \o (IF skip_alarm_thresholds THEN <<>> ELSE AlarmThresholds)
    \o (IF skip_fault_records THEN <<>> ELSE <<FAULT_RECORDS>>)

-----------------------------------------------------------------------------
(* The printers are chains of accessors; the first that answers decides    *)
(* what is printed, and as what.  "nullptr" is a payload with no printer.  *)

CommandChain ==
    <<"as_capacity_voltage", "as_bmu_cell_temp_count", "as_total_charge_discharge_ah",
      "as_battery_operation_mode", "as_firmware_index">>

(* A mutant: no printer for the two versions.                              *)
TextChain_without_version(e) == <<as_text(e)>>

TextChain(e) == <<as_text(e), as_version(e)>>

ConfigurationChain ==
    <<"as_battery_production_date", "as_cell_voltage_alarm", "as_total_voltage_alarm",
      "as_current_alarm", "as_temperature_alarm", "as_soc_alarm", "as_difference_alarm",
      "as_balancing_params", "as_current_params", "as_rtc", "as_fault_record",
      "as_board_number", "as_heating_temperature", "as_active_balancing_switch",
      "as_active_balancing_params", "as_inverter_params">>

TelemetryChain ==
    <<"as_total_voltage_current_soc", "as_cell_voltage_extremes", "as_cell_temperature_extremes",
      "as_charge_discharge_mos", "as_status_info", "as_cell_voltages", "as_cell_temperatures",
      "as_cell_balancing_bits", "as_fault_status", "as_balancing_state", "as_battery_status",
      "as_wakeup_source">>

Accessor(name) ==
    IF name \in DOMAIN StaticAccessors THEN StaticAccessors[name] ELSE TelemetryAccessors[name]

Calls(names, e) ==
    [i \in DOMAIN names |-> If(responds_to(e, Accessor(names[i])[1]), Accessor(names[i])[2])]

FirstAnswer(results) ==
    LET answers == SelectSeq(results, LAMBDA r : r # "nullptr")
    IN  IF answers = <<>> THEN "nullptr" ELSE answers[1]

print_payload(e) ==
    FirstAnswer(Calls(CommandChain, e) \o TextChain(e) \o Calls(ConfigurationChain, e)
                \o <<as_current_alarm_threshold(e), as_temp_alarm_threshold(e),
                     as_alarm_threshold(e)>>
                \o Calls(TelemetryChain, e) \o <<as_mos_control_ack(e)>>)

print_response(e) ==
    FirstAnswer(Calls(<<"as_total_voltage_current_soc", "as_cell_voltage_extremes",
                        "as_cell_temperature_extremes", "as_charge_discharge_mos",
                        "as_status_info", "as_fault_status", "as_battery_status",
                        "as_capacity_voltage", "as_cell_voltages">>, e))

(* What poll_loop asks for: its two start-up reads and its sweep.          *)
PollLoopPolls ==
    {"poll_capacity_voltage", "poll_status_info", "poll_total_voltage_current_soc",
     "poll_cell_voltage_extremes", "poll_cell_temperature_extremes",
     "poll_charge_discharge_mos_status", "poll_fault_status", "poll_battery_status"}
=============================================================================
