---------------------------- MODULE MCReassembly ----------------------------
(***************************************************************************)
(* Small instances of reassembly.                                          *)
(***************************************************************************)
EXTENDS Reassembly

ReadOf(id, expected, items, base) ==
    [id |-> id, expected |-> expected, items |-> items, base |-> base]

MANUFACTURER_NAME == 85
BATTERY_NAME      == 86
VERSION           == 98

(* Text of each length; cells and sensors with the count known, unknown,   *)
(* too small and too large; a last frame that is part padding; each        *)
(* numbered as documented and otherwise.                                   *)
MixedReads ==
    {ReadOf(MANUFACTURER_NAME, 0, 16, 0), ReadOf(BATTERY_NAME, 0, 32, 1),
     ReadOf(VERSION, 0, 14, 0), ReadOf(VERSION, 0, 14, 1),
     ReadOf(CELL_VOLTAGES, 0, 8, 0), ReadOf(CELL_VOLTAGES, 0, 8, 1),
     ReadOf(CELL_VOLTAGES, 8, 8, 0), ReadOf(CELL_VOLTAGES, 8, 8, 1),
     ReadOf(CELL_VOLTAGES, 4, 8, 1), ReadOf(CELL_VOLTAGES, 12, 8, 0),
     ReadOf(CELL_TEMPERATURES, 0, 8, 1), ReadOf(CELL_TEMPERATURES, 21, 21, 0)}

(* The widest reply, 48 cells over 16 frames numbered from 1, and a stream *)
(* of three fault records.                                                 *)
AllReads == MixedReads \cup {ReadOf(CELL_VOLTAGES, 48, 48, 1), ReadOf(FAULT_RECORDS, 0, 3, 0)}
=============================================================================
