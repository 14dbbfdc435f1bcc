----------------------------- MODULE MCHaidiBMS -----------------------------
(***************************************************************************)
(* Small instances of the session.                                         *)
(***************************************************************************)
EXTENDS HaidiBMS

(* A frame of the pack with the given first data bytes, the rest zero.     *)
FrameOf(id, bytes) ==
    [src |-> BmsAddress, id |-> id,
     data |-> [i \in 0..7 |-> IF i < Len(bytes) THEN bytes[i + 1] ELSE 0]]

Ask(id, hint, fn) == [id |-> id, on |-> TRUE, hint |-> hint, fn |-> fn]

VERSION == 98

(* One command of every kind, the report of the pack's size and the cells  *)
(* it sizes, with and without a hint; and one the protocol does not know.  *)
AllPolls == {Ask(DISCHARGE_MOS_CONTROL, 0, TRUE), Ask(STATUS_INFO, 0, FALSE),
             Ask(CELL_VOLTAGES, 0, FALSE), Ask(CELL_VOLTAGES, 3, FALSE),
             Ask(FAULT_RECORDS, 0, TRUE), Ask(NONE, 0, FALSE)}

(* The pack has four cells, in two frames; the hint is for one frame.      *)
AllFrames ==
    {FrameOf(DISCHARGE_MOS_CONTROL, <<1>>), FrameOf(DISCHARGE_MOS_CONTROL, <<0>>),
     FrameOf(STATUS_INFO, <<4, 8>>),
     FrameOf(CELL_VOLTAGES, <<0>>), FrameOf(CELL_VOLTAGES, <<1>>), FrameOf(CELL_VOLTAGES, <<17>>),
     FrameOf(FAULT_RECORDS, <<0>>), FrameOf(FAULT_RECORDS, <<255>>),
     [FrameOf(CELL_VOLTAGES, <<0>>) EXCEPT !.src = 2]}

(* One paginated read and the fault stream, with every setter in use.      *)
FewPolls  == {Ask(VERSION, 0, FALSE), Ask(FAULT_RECORDS, 0, FALSE)}
FewFrames == {FrameOf(VERSION, <<0>>), FrameOf(VERSION, <<1>>), FrameOf(FAULT_RECORDS, <<1>>)}

StreamPolls  == {Ask(FAULT_RECORDS, 0, FALSE)}
StreamFrames == {FrameOf(FAULT_RECORDS, <<1>>)}
=============================================================================
