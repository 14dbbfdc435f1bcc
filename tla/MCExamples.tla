----------------------------- MODULE MCExamples -----------------------------
(***************************************************************************)
(* A small instance of the two programs: a schedule of the fault records   *)
(* and of one plain read, sent twice, and a sweep that fills the ring.     *)
(***************************************************************************)
EXTENDS Examples

SmallSchedule == <<FAULT_RECORDS, STATUS_INFO>>
SmallStartup  == <<CAPACITY_VOLTAGE, STATUS_INFO>>
SmallSweep    == <<STATUS_INFO, CAPACITY_VOLTAGE>>

PackFrame(id, first) ==
    [src |-> BmsAddress, id |-> id, data |-> [i \in 0..7 |-> IF i = 0 THEN first ELSE 0]]

SmallFrames ==
    {PackFrame(FAULT_RECORDS, 1), PackFrame(FAULT_RECORDS, FRAME_NO_END), PackFrame(STATUS_INFO, 4)}
=============================================================================
