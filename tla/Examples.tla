------------------------------ MODULE Examples ------------------------------
(***************************************************************************)
(* The two programs under examples/, which drive the session from one      *)
(* thread: dump_all.cpp sends its schedule one probe at a time and prints  *)
(* each reply under the probe's label; poll_loop.cpp reads two values at   *)
(* start-up and then sends a sweep whenever one is due.                    *)
(*                                                                         *)
(* Both turn the same crank: tick(), one read, feed() of what it gave, a   *)
(* short sleep.  Their handlers print and never call the session.  Of the  *)
(* output, what is kept is whether a line has been begun and not ended.    *)
(***************************************************************************)
EXTENDS HaidiBMS

CONSTANTS
    Schedule,        \* the Data IDs of dump_all's probes, in order
    Sweeps,          \* opt.sweeps: how often the schedule is sent
    PROBE_GUARD_MS,  \* how long a probe may take
    interval_ms,     \* opt.interval_ms: the pause between two sweeps
    Startup, Sweep,  \* the Data IDs of poll_loop's start-up reads and of its sweep
    sweep_ms,        \* poll_loop: time from one sweep to the next
    ReadBatch        \* frames one read can hold

(* The programs call the typed poll_*(), so that every Data ID is known.   *)
Requests == {id \in Byte : is_known_data_id(id)}

ASSUME ExamplesAssumption ==
    /\ Schedule \in Seq(Requests) /\ Startup \in Seq(Requests) /\ Sweep \in Seq(Requests)
    /\ Len(Startup) <= QUEUE_CAPACITY /\ Len(Sweep) <= QUEUE_CAPACITY
    /\ Sweeps \in Nat \ {0} /\ PROBE_GUARD_MS \in Nat \ {0} /\ interval_ms \in Nat
    /\ sweep_ms \in Nat /\ ReadBatch \in Nat

(* app.pc is where the program is: in main() before anything is sent, in   *)
(* dump_all at the head of the loop over the schedule ("probe"), waiting   *)
(* for the probe's outcome, closing its line, or pausing, in poll_loop     *)
(* asking or in its loop.  fed counts the frames of the read under way and *)
(* is -1 outside one.  spent is the time since the probe was sent or, in a *)
(* pause, what the program takes for the time waited; due is the time to   *)
(* the next sweep.  The rest is history: mine is the request of the probe, *)
(* refused counts polls turned down.                                       *)
VARIABLE app

exampleVars == <<bms, stack, fate, app>>

(* What a step of the session prints: on_event() ends the open line, and   *)
(* so does a trace of bytes sent or read.  this_probe is told apart only   *)
(* as none, one and several.                                               *)
Printed(a, read) ==
    LET event  == Len(stack') > Len(stack)
        traced == a.g_trace /\ (read \/ bms'.sent # bms.sent)
    IN  [a EXCEPT !.g_line_open = @ /\ ~event /\ ~traced,
                  !.this_probe  = IF event /\ @ < 2 THEN @ + 1 ELSE @]

Session == <<bms, stack, fate>>

Request0(id, fn) == [id |-> id, on |-> FALSE, hint |-> 0, fn |-> fn]

-----------------------------------------------------------------------------
(* The turn: pump() of dump_all, the loop body of poll_loop.               *)

Turning == app.pc \in {"wait", "pause", "loop"} /\ stack = <<>>

(* A mutant: the pause goes on until the signal.                           *)
KeepsTurningUntilSignal ==
    CASE app.pc = "wait"  -> bms.state # "IDLE" \/ bms.queue_count > 0
      [] app.pc = "pause" -> ~app.g_stop
      [] app.pc = "loop"  -> TRUE

(* while (busy() || pending() > 0), or the pause not over.                 *)
KeepsTurning ==
    CASE app.pc = "wait"  -> bms.state # "IDLE" \/ bms.queue_count > 0
      [] app.pc = "pause" -> app.spent < interval_ms /\ ~app.g_stop
      [] app.pc = "loop"  -> TRUE

PumpTicks(d) ==
    /\ Turning /\ app.fed = -1 /\ KeepsTurning
    /\ Tick(d)
    /\ app' = Printed([app EXCEPT !.fed = 0, !.spent = IF app.pc = "wait" THEN @ + d ELSE @,
                                  !.due = IF @ > d THEN @ - d ELSE 0], FALSE)

PumpFeeds ==
    /\ Turning /\ app.fed \in 0..(ReadBatch - 1)
    /\ Feed
    /\ app' = Printed([app EXCEPT !.fed = @ + 1], TRUE)

HandlerReturns ==
    /\ Return
    /\ app' = Printed(app, FALSE)

(* The port went away.                                                     *)
PumpFails ==
    /\ Turning /\ app.fed = 0
    /\ app' = IF app.pc = "pause" THEN [app EXCEPT !.fed = -1, !.spent = interval_ms]
              ELSE [app EXCEPT !.pc = "failed"]
    /\ UNCHANGED Session

-----------------------------------------------------------------------------
(* dump_all: run_sweep() and main().                                       *)

Labelled ==
    [app EXCEPT !.g_line_open = TRUE, !.this_probe = 0, !.spent = 0, !.mine = Len(fate) + 1]

StartProbe ==
    /\ app.pc = "probe" /\ app.i <= Len(Schedule) /\ ~app.g_stop
    /\ IF queue_status(bms, Schedule[app.i]) = "QUEUED"
       THEN /\ Poll(Request0(Schedule[app.i], FALSE))
            /\ app' = Printed([Labelled EXCEPT !.pc = "wait"], FALSE)
       ELSE /\ app' = [Labelled EXCEPT !.g_line_open = FALSE, !.i = @ + 1, !.refused = @ + 1]
            /\ UNCHANGED Session

(* After a turn: the signal, then the guard.                               *)
TurnOver == app.pc = "wait" /\ app.fed >= 0 /\ stack = <<>>

HeedSignal ==
    /\ TurnOver /\ app.g_stop
    /\ app' = [app EXCEPT !.pc = "close", !.fed = -1]
    /\ UNCHANGED Session

(* A mutant: the probe is given up and its request left with the session.  *)
GiveUpWithoutReset ==
    /\ TurnOver /\ ~app.g_stop /\ app.spent >= PROBE_GUARD_MS
    /\ app' = [app EXCEPT !.pc = "close", !.fed = -1, !.g_line_open = FALSE]
    /\ UNCHANGED Session

GiveUp ==
    /\ TurnOver /\ ~app.g_stop /\ app.spent >= PROBE_GUARD_MS
    /\ Reset
    /\ app' = [app EXCEPT !.pc = "close", !.fed = -1, !.g_line_open = FALSE]

NextTurn ==
    /\ TurnOver /\ ~app.g_stop /\ app.spent < PROBE_GUARD_MS
    /\ app' = [app EXCEPT !.fed = -1]
    /\ UNCHANGED Session

ProbeSettled ==
    /\ app.pc = "wait" /\ app.fed = -1 /\ ~KeepsTurning
    /\ app' = [app EXCEPT !.pc = "close"]
    /\ UNCHANGED Session

(* A mutant: a probe that saw no event leaves its line as it is.           *)
CloseProbeAsItIs ==
    /\ app.pc = "close"
    /\ app' = [app EXCEPT !.pc = "probe", !.i = @ + 1]
    /\ UNCHANGED Session

(* "interrupted", "none stored" or "no event" when nothing was printed.    *)
CloseProbe ==
    /\ app.pc = "close"
    /\ app' = [app EXCEPT !.pc = "probe", !.i = @ + 1,
                          !.g_line_open = @ /\ app.this_probe # 0]
    /\ UNCHANGED Session

EndSweep ==
    /\ app.pc = "probe" /\ (app.i > Len(Schedule) \/ app.g_stop)
    /\ app' = IF app.g_stop \/ app.sweep = Sweeps THEN [app EXCEPT !.pc = "done"]
              ELSE [app EXCEPT !.pc = "pause", !.spent = 0]
    /\ UNCHANGED Session

(* waited += 2, whatever the clock says of the turn.                       *)
PauseTurns ==
    /\ app.pc = "pause" /\ app.fed >= 0 /\ stack = <<>>
    /\ app' = [app EXCEPT !.fed = -1, !.spent = @ + 2]
    /\ UNCHANGED Session

EndPause ==
    /\ app.pc = "pause" /\ app.fed = -1 /\ ~KeepsTurning
    /\ app' = IF app.g_stop THEN [app EXCEPT !.pc = "done"]
              ELSE [app EXCEPT !.pc = "probe", !.i = 1, !.sweep = @ + 1]
    /\ UNCHANGED Session

(* SIGINT or SIGTERM, at any moment.                                       *)
Signal ==
    /\ app.pc \in {"probe", "wait", "close", "pause"} /\ ~app.g_stop
    /\ app' = [app EXCEPT !.g_stop = TRUE]
    /\ UNCHANGED Session

-----------------------------------------------------------------------------
(* poll_loop: main().  The status of a poll is not looked at.              *)

AskNext ==
    /\ app.pc = "ask" /\ app.ask # <<>>
    /\ IF queue_status(bms, Head(app.ask)) = "QUEUED"
       THEN Poll(Request0(Head(app.ask), app.sweep = 0)) /\ app' = [app EXCEPT !.ask = Tail(@)]
       ELSE app' = [app EXCEPT !.ask = Tail(@), !.refused = @ + 1] /\ UNCHANGED Session

AskedAll ==
    /\ app.pc = "ask" /\ app.ask = <<>>
    /\ app' = [app EXCEPT !.pc = "loop"]
    /\ UNCHANGED Session

(* A mutant: a sweep that is due is sent whatever is still queued.         *)
SweepDueRegardless == app.due = 0

SweepDue == app.due = 0 /\ bms.state = "IDLE" /\ bms.queue_count = 0

StartSweep ==
    /\ app.pc = "loop" /\ app.fed >= 0 /\ stack = <<>> /\ SweepDue
    /\ Len(fate) + Len(Sweep) <= MaxRequests
    /\ app' = [app EXCEPT !.pc = "ask", !.ask = Sweep, !.sweep = 1, !.fed = -1, !.due = sweep_ms]
    /\ UNCHANGED Session

NoSweep ==
    /\ app.pc = "loop" /\ app.fed >= 0 /\ stack = <<>>
    /\ ~SweepDue \/ Len(fate) + Len(Sweep) > MaxRequests
    /\ app' = [app EXCEPT !.fed = -1]
    /\ UNCHANGED Session

-----------------------------------------------------------------------------
(* Both programs set their handlers and call tick() before they ask.       *)
Main ==
    /\ app.pc = "main"
    /\ \E clock \in Timeout :
           bms' = [bms EXCEPT !.tx_fn = TRUE, !.event_fn = TRUE, !.now_ms = clock]
    /\ \/ \E trace \in BOOLEAN : app' = [app EXCEPT !.pc = "probe", !.sweep = 1, !.g_trace = trace]
       \/ app' = [app EXCEPT !.pc = "ask", !.ask = Startup]
    /\ UNCHANGED <<stack, fate>>

ExamplesInit ==
    /\ Init
    /\ app = [pc |-> "main", ask |-> <<>>, i |-> 1, sweep |-> 0, fed |-> -1, spent |-> 0, due |-> 0,
              mine |-> 0, g_trace |-> FALSE, g_stop |-> FALSE, g_line_open |-> FALSE,
              this_probe |-> 0, refused |-> 0]

DumpAll ==
    \/ StartProbe \/ HeedSignal \/ GiveUp \/ NextTurn \/ ProbeSettled \/ CloseProbe
    \/ EndSweep \/ PauseTurns \/ EndPause

PollLoop == AskNext \/ AskedAll \/ StartSweep \/ NoSweep

Pump == (\E d \in TickSteps : PumpTicks(d)) \/ PumpFeeds \/ PumpFails \/ HandlerReturns

Program == Main \/ Pump \/ DumpAll \/ PollLoop

ExamplesNext == Program \/ Signal

(* One thread that never blocks: the port is opened non-blocking, and the  *)
(* sleeps end.  Nothing is assumed of the pack or of the signal.           *)
ExamplesSpec == ExamplesInit /\ [][ExamplesNext]_exampleVars /\ WF_exampleVars(Program)

-----------------------------------------------------------------------------
(* Properties.                                                             *)

(* "The line has to be closed however the probe ended": no label and no    *)
(* heading is printed into a line that an earlier probe left open, with or *)
(* without a trace breaking it, whether the probe got its reply, ended     *)
(* without an event, was given up or was interrupted.                      *)
LinesClosed == app.pc \in {"probe", "pause", "done"} => ~app.g_line_open

(* What is printed under a probe's label is about that probe: no reply,    *)
(* timeout or record of an earlier request comes in while a later one is   *)
(* waited for, also after a probe was given up half-way.                   *)
OutcomeUnderItsLabel ==
    app.mine # 0 => \A k \in DOMAIN stack : stack[k].owner \in {0, app.mine}

(* No poll of either program is turned down, although neither looks after  *)
(* the ring: dump_all asks when the last probe has left it, poll_loop when *)
(* it is empty.                                                            *)
NothingRefused == app.refused = 0

(* dump_all gets to its summary, with or without a signal, whatever the    *)
(* pack sends or fails to send.                                            *)
Finishes == app.mine # 0 ~> app.pc \in {"done", "failed"}

(* "none stored" is printed of the fault records only when not one record  *)
(* has come in whole.                                                      *)
NoneStoredIsSaidRightly ==
    app.pc = "close" /\ Schedule[app.i] = FAULT_RECORDS /\ app.this_probe = 0 => bms.heard < 4
=============================================================================
