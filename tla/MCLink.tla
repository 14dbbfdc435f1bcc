------------------------------- MODULE MCLink -------------------------------
(***************************************************************************)
(* A small instance of the session on its line: a MOSFET write either way, *)
(* a paginated read of two frames, and the fault records.                  *)
(***************************************************************************)
EXTENDS Link

LinkPolls ==
    {[id |-> DISCHARGE_MOS_CONTROL, on |-> TRUE, hint |-> 0, fn |-> FALSE],
     [id |-> DISCHARGE_MOS_CONTROL, on |-> FALSE, hint |-> 0, fn |-> FALSE],
     [id |-> CELL_VOLTAGES, on |-> FALSE, hint |-> 4, fn |-> TRUE],
     [id |-> FAULT_RECORDS, on |-> FALSE, hint |-> 0, fn |-> FALSE]}
=============================================================================
