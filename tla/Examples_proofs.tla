--------------------------- MODULE Examples_proofs ---------------------------
(***************************************************************************)
(* The two example programs, for every schedule, guard, interval, capacity *)
(* and clock: first what depends on the programs alone, then what they     *)
(* make of the session.                                                    *)
(***************************************************************************)
EXTENDS Examples, HaidiBMS_proofs

Places == {"main", "probe", "wait", "close", "pause", "done", "failed", "ask", "loop"}

Pos == Nat \ {0}

AppState ==
    [pc : Places, ask : Seq(Requests), i : Pos, sweep : Nat, fed : Int, spent : Nat, due : Nat,
     mine : Nat, g_trace : BOOLEAN, g_stop : BOOLEAN, g_line_open : BOOLEAN, this_probe : Nat,
     refused : Nat]

(* Between two turns nothing is being read.                                *)
Between(a) == a.pc \in {"main", "probe", "close", "ask", "done"} => a.fed = -1

(* A line is open only until something is printed under the label.         *)
Closed(a) ==
    /\ a.pc \in {"main", "probe", "pause", "done"} => ~a.g_line_open
    /\ a.this_probe # 0 => ~a.g_line_open

Cranked(a) == a \in AppState /\ Between(a) /\ Closed(a)

-----------------------------------------------------------------------------
(* What is printed changes the line and the count of events, no more: an   *)
(* event ends the line.                                                    *)
LEMMA PrintedFacts ==
    ASSUME NEW a \in AppState, NEW read
    PROVE  /\ Printed(a, read) \in AppState
           /\ Printed(a, read).pc = a.pc /\ Printed(a, read).ask = a.ask
           /\ Printed(a, read).i = a.i /\ Printed(a, read).fed = a.fed
           /\ Printed(a, read).spent = a.spent /\ Printed(a, read).mine = a.mine
           /\ Printed(a, read).g_stop = a.g_stop
           /\ Printed(a, read).refused = a.refused
           /\ Printed(a, read).g_line_open =>
                  a.g_line_open /\ Printed(a, read).this_probe = a.this_probe
           /\ Printed(a, read).this_probe = 0 => a.this_probe = 0 /\ ~(Len(stack') > Len(stack))
<1> DEFINE event  == Len(stack') > Len(stack)
           traced == a.g_trace /\ (read \/ bms'.sent # bms.sent)
           open   == a.g_line_open /\ ~event /\ ~traced
           probe  == IF event /\ a.this_probe < 2 THEN a.this_probe + 1 ELSE a.this_probe
<1>1. Printed(a, read) = [a EXCEPT !.g_line_open = open, !.this_probe = probe]
  BY DEF Printed
<1>2. open \in BOOLEAN /\ (open => a.g_line_open /\ ~event)
  OBVIOUS
<1>3. probe \in Nat /\ (probe = 0 => a.this_probe = 0 /\ ~event) /\ (~event => probe = a.this_probe)
  BY DEF AppState
<1> HIDE DEF event, open, probe
<1>4. /\ Printed(a, read) \in AppState
      /\ Printed(a, read).g_line_open = open /\ Printed(a, read).this_probe = probe
      /\ Printed(a, read).pc = a.pc /\ Printed(a, read).ask = a.ask
      /\ Printed(a, read).i = a.i /\ Printed(a, read).fed = a.fed
      /\ Printed(a, read).spent = a.spent /\ Printed(a, read).mine = a.mine
      /\ Printed(a, read).g_stop = a.g_stop
      /\ Printed(a, read).refused = a.refused
  BY <1>1, <1>2, <1>3 DEF AppState
<1> QED
  BY <1>2, <1>3, <1>4 DEF event

(* So does a print keep what the program depends on.                       *)
LEMMA PrintedCranked ==
    ASSUME NEW a, Cranked(a), NEW read
    PROVE  Cranked(Printed(a, read))
<1>1. a \in AppState
  BY DEF Cranked
<1> DEFINE c == Printed(a, read)
<1>2. /\ c \in AppState /\ c.pc = a.pc /\ c.fed = a.fed /\ c.spent = a.spent
      /\ c.g_stop = a.g_stop
      /\ c.g_line_open => a.g_line_open /\ c.this_probe = a.this_probe
  BY <1>1, PrintedFacts
<1> HIDE DEF c
<1>3. Between(c)
  BY <1>2 DEF Cranked, Between
<1>4. Closed(c)
  BY <1>2 DEF Cranked, Closed
<1> QED
  BY <1>2, <1>3, <1>4 DEF Cranked, c

(* A turn begins: the clocks of the program move on.                       *)
LEMMA TurnType ==
    ASSUME NEW a \in AppState, NEW fed \in Int, NEW spent \in Nat, NEW due \in Nat
    PROVE  [a EXCEPT !.fed = fed, !.spent = spent, !.due = due] \in AppState
BY DEF AppState

LEMMA TickCranked ==
    ASSUME Cranked(app), NEW d \in TickSteps, PumpTicks(d)
    PROVE  Cranked(app')
<1> DEFINE spent == IF app.pc = "wait" THEN app.spent + d ELSE app.spent
           due == IF app.due > d THEN app.due - d ELSE 0
           a == [app EXCEPT !.fed = 0, !.spent = spent, !.due = due]
<1>1. app \in AppState /\ app' = Printed(a, FALSE)
  BY DEF PumpTicks, Cranked
<1>2. d \in Nat
  BY TimingAssumption, ClockAssumption DEF Timeout
<1>3. spent \in Nat /\ due \in Nat
  BY <1>1, <1>2 DEF AppState
<1>4. /\ app.pc \in {"wait", "pause", "loop"} /\ app.fed = -1
      /\ app.pc = "pause" => ~app.g_stop
  BY DEF PumpTicks, Turning, KeepsTurning
<1> HIDE DEF spent, due
<1>6. /\ a \in AppState /\ a.fed = 0 /\ a.pc = app.pc /\ a.g_stop = app.g_stop
      /\ a.g_line_open = app.g_line_open /\ a.this_probe = app.this_probe
  <2>1. /\ a.fed = 0 /\ a.pc = app.pc /\ a.g_stop = app.g_stop
        /\ a.g_line_open = app.g_line_open /\ a.this_probe = app.this_probe
    BY <1>1 DEF AppState
  <2>2. a \in AppState
    <3>1. 0 \in Int
      OBVIOUS
    <3> QED
      BY <1>1, <1>3, <3>1, TurnType, Zenon
  <2> QED
    BY <2>1, <2>2
<1> HIDE DEF a
<1>7. Between(a)
  BY <1>4, <1>6 DEF Cranked, Between
<1>8. Closed(a)
  BY <1>6 DEF Cranked, Closed
<1> QED
  BY <1>1, <1>6, <1>7, <1>8, PrintedCranked DEF Cranked

LEMMA FeedCranked ==
    ASSUME Cranked(app), PumpFeeds
    PROVE  Cranked(app')
<1> DEFINE fed == app.fed + 1
           a == [app EXCEPT !.fed = fed]
<1>1. app \in AppState /\ app' = Printed(a, TRUE)
  BY DEF PumpFeeds, Cranked
<1>2. /\ app.pc \in {"wait", "pause", "loop"} /\ app.fed \in 0..(ReadBatch - 1)
  BY DEF PumpFeeds, Turning
<1>3. fed \in Int /\ fed # -1
  <2>1. ReadBatch \in Nat
    BY ExamplesAssumption
  <2>2. ASSUME NEW x \in 0..(ReadBatch - 1)
        PROVE  x + 1 \in Int /\ x + 1 # -1
    BY <2>1
  <2> QED
    BY <1>2, <2>2
<1> HIDE DEF fed
<1>4. /\ a \in AppState /\ a.fed = fed /\ a.pc = app.pc
      /\ a.g_stop = app.g_stop
      /\ a.g_line_open = app.g_line_open /\ a.this_probe = app.this_probe
  BY <1>1, <1>3 DEF AppState
<1> HIDE DEF a
<1>5. Between(a)
  BY <1>2, <1>3, <1>4 DEF Cranked, Between
<1>6. Closed(a)
  BY <1>4 DEF Cranked, Closed
<1> QED
  BY <1>1, <1>4, <1>5, <1>6, PrintedCranked DEF Cranked

(* The steps of the programs that move on and leave the session, or reset  *)
(* it: where to, and what else they assign.                                *)
SameRest(a, c) ==
    /\ c.g_stop = a.g_stop /\ c.this_probe = a.this_probe
    /\ c.ask = a.ask /\ c.mine = a.mine /\ c.refused = a.refused

Moves(a, c, pc, fed, spent, i, open) ==
    /\ c \in AppState
    /\ c.pc = pc /\ c.fed = fed /\ c.spent = spent /\ c.i = i /\ c.g_line_open = open
    /\ SameRest(a, c)

LEMMA MoveFacts ==
    ASSUME NEW a \in AppState, NEW pc \in Places, NEW fed \in Int, NEW spent \in Nat,
           NEW i \in Pos, NEW sweep \in Nat, NEW open \in BOOLEAN,
           NEW c, c = [a EXCEPT !.pc = pc, !.fed = fed, !.spent = spent, !.i = i,
                                !.sweep = sweep, !.g_line_open = open]
    PROVE  Moves(a, c, pc, fed, spent, i, open)
<1> DEFINE b == [a EXCEPT !.pc = pc, !.fed = fed, !.spent = spent]
<1>1. b \in AppState
  BY DEF AppState
<1>2. c = [b EXCEPT !.i = i, !.sweep = sweep, !.g_line_open = open]
  BY DEF AppState
<1> HIDE DEF b
<1>3. c \in AppState
  BY <1>1, <1>2 DEF AppState
<1>4. /\ c.pc = pc /\ c.fed = fed /\ c.spent = spent /\ c.i = i /\ c.g_line_open = open
      /\ SameRest(a, c)
  BY DEF AppState, SameRest
<1> QED
  BY <1>3, <1>4 DEF Moves

LEMMA AppFields ==
    ASSUME NEW a \in AppState
    PROVE  /\ a.pc \in Places /\ a.fed \in Int /\ a.spent \in Nat /\ a.i \in Pos
           /\ a.sweep \in Nat /\ a.g_line_open \in BOOLEAN /\ a.g_stop \in BOOLEAN
           /\ a.this_probe \in Nat /\ a.mine \in Nat /\ a.refused \in Nat
           /\ a.ask \in Seq(Requests) /\ a.due \in Nat /\ a.g_trace \in BOOLEAN
BY DEF AppState

LEMMA Literals ==
    /\ \A x \in {"main", "probe", "wait", "close", "pause", "done", "failed", "ask", "loop"} :
           x \in Places
    /\ 0 \in Nat /\ 1 \in Nat /\ 0 \in Int /\ -1 \in Int /\ TRUE \in BOOLEAN /\ FALSE \in BOOLEAN
BY DEF Places

(* A step that moves on: the members of app that the turn, the probe and   *)
(* the loops assign.                                                       *)
Goes(pc, fed, spent, i, open) == Moves(app, app', pc, fed, spent, i, open)

LEMMA GoesBy ==
    ASSUME app \in AppState, NEW pc \in Places, NEW fed \in Int, NEW spent \in Nat,
           NEW i \in Pos, NEW sweep \in Nat, NEW open \in BOOLEAN,
           app' = [app EXCEPT !.pc = pc, !.fed = fed, !.spent = spent, !.i = i,
                              !.sweep = sweep, !.g_line_open = open]
    PROVE  Goes(pc, fed, spent, i, open)
BY MoveFacts, Zenon DEF Goes

(* The port goes away: a pause is cut short, anything else ends.           *)
LEMMA PumpFailsGoes ==
    ASSUME app \in AppState, PumpFails
    PROVE  IF app.pc = "pause" THEN Goes("pause", -1, interval_ms, app.i, app.g_line_open)
           ELSE Goes("failed", app.fed, app.spent, app.i, app.g_line_open)
<1>0. /\ app.pc \in Places /\ app.fed \in Int /\ app.spent \in Nat /\ app.i \in Pos
      /\ app.sweep \in Nat /\ app.g_line_open \in BOOLEAN /\ -1 \in Int /\ 0 \in Nat /\ 1 \in Pos
      /\ interval_ms \in Nat
  BY AppFields, ExamplesAssumption DEF Pos
<1>1. CASE app.pc = "pause"
  <2>1. app' = [app EXCEPT !.pc = "pause", !.fed = -1, !.spent = interval_ms, !.i = app.i,
                           !.sweep = app.sweep, !.g_line_open = app.g_line_open]
    BY <1>1 DEF PumpFails, AppState
  <2>2. "pause" \in Places
    BY <1>0 DEF Places, Pos
  <2> QED
    BY <1>0, <1>1, <2>1, <2>2, GoesBy, Zenon
<1>2. CASE ~(app.pc = "pause")
  <2>1. app' = [app EXCEPT !.pc = "failed", !.fed = app.fed, !.spent = app.spent, !.i = app.i,
                           !.sweep = app.sweep, !.g_line_open = app.g_line_open]
    BY <1>2 DEF PumpFails, AppState
  <2>2. "failed" \in Places
    BY <1>0 DEF Places, Pos
  <2> QED
    BY <1>0, <1>2, <2>1, <2>2, GoesBy, Zenon
<1> QED
  BY <1>1, <1>2

(* After a turn.                                                           *)
LEMMA HeedSignalGoes ==
    ASSUME app \in AppState, HeedSignal
    PROVE  Goes("close", -1, app.spent, app.i, app.g_line_open)
<1>0. /\ app.pc \in Places /\ app.fed \in Int /\ app.spent \in Nat /\ app.i \in Pos
      /\ app.sweep \in Nat /\ app.g_line_open \in BOOLEAN /\ -1 \in Int /\ 0 \in Nat /\ 1 \in Pos
  BY AppFields DEF Pos
<1>1. app' = [app EXCEPT !.pc = "close", !.fed = -1, !.spent = app.spent, !.i = app.i,
                         !.sweep = app.sweep, !.g_line_open = app.g_line_open]
  BY DEF HeedSignal, AppState
<1>2. "close" \in Places
  BY <1>0 DEF Places, Pos
<1> QED
  BY <1>0, <1>1, <1>2, GoesBy, Zenon

LEMMA GiveUpGoes ==
    ASSUME app \in AppState, GiveUp
    PROVE  Goes("close", -1, app.spent, app.i, FALSE)
<1>0. /\ app.pc \in Places /\ app.fed \in Int /\ app.spent \in Nat /\ app.i \in Pos
      /\ app.sweep \in Nat /\ app.g_line_open \in BOOLEAN /\ -1 \in Int /\ 0 \in Nat /\ 1 \in Pos
  BY AppFields DEF Pos
<1>1. app' = [app EXCEPT !.pc = "close", !.fed = -1, !.spent = app.spent, !.i = app.i,
                         !.sweep = app.sweep, !.g_line_open = FALSE]
  BY DEF GiveUp, AppState
<1>2. "close" \in Places /\ (FALSE) \in BOOLEAN
  BY <1>0 DEF Places, Pos
<1> QED
  BY <1>0, <1>1, <1>2, GoesBy, Zenon

LEMMA NextTurnGoes ==
    ASSUME app \in AppState, NextTurn
    PROVE  Goes(app.pc, -1, app.spent, app.i, app.g_line_open)
<1>0. /\ app.pc \in Places /\ app.fed \in Int /\ app.spent \in Nat /\ app.i \in Pos
      /\ app.sweep \in Nat /\ app.g_line_open \in BOOLEAN /\ -1 \in Int /\ 0 \in Nat /\ 1 \in Pos
  BY AppFields DEF Pos
<1>1. app' = [app EXCEPT !.pc = app.pc, !.fed = -1, !.spent = app.spent, !.i = app.i,
                         !.sweep = app.sweep, !.g_line_open = app.g_line_open]
  BY DEF NextTurn, AppState
<1> QED
  BY <1>0, <1>1, GoesBy, Zenon

LEMMA ProbeSettledGoes ==
    ASSUME app \in AppState, ProbeSettled
    PROVE  Goes("close", app.fed, app.spent, app.i, app.g_line_open)
<1>0. /\ app.pc \in Places /\ app.fed \in Int /\ app.spent \in Nat /\ app.i \in Pos
      /\ app.sweep \in Nat /\ app.g_line_open \in BOOLEAN /\ -1 \in Int /\ 0 \in Nat /\ 1 \in Pos
  BY AppFields DEF Pos
<1>1. app' = [app EXCEPT !.pc = "close", !.fed = app.fed, !.spent = app.spent, !.i = app.i,
                         !.sweep = app.sweep, !.g_line_open = app.g_line_open]
  BY DEF ProbeSettled, AppState
<1>2. "close" \in Places
  BY <1>0 DEF Places, Pos
<1> QED
  BY <1>0, <1>1, <1>2, GoesBy, Zenon

(* After a probe, a sweep, a pause.                                        *)
LEMMA CloseProbeGoes ==
    ASSUME app \in AppState, CloseProbe
    PROVE  Goes("probe", app.fed, app.spent, app.i + 1, app.g_line_open /\ app.this_probe # 0)
<1>0. /\ app.pc \in Places /\ app.fed \in Int /\ app.spent \in Nat /\ app.i \in Pos
      /\ app.sweep \in Nat /\ app.g_line_open \in BOOLEAN /\ -1 \in Int /\ 0 \in Nat /\ 1 \in Pos
  BY AppFields DEF Pos
<1>1. app' = [app EXCEPT !.pc = "probe", !.fed = app.fed, !.spent = app.spent, !.i = app.i + 1,
                         !.sweep = app.sweep, !.g_line_open = app.g_line_open /\ app.this_probe # 0]
  BY DEF CloseProbe, AppState
<1>2. "probe" \in Places /\ (app.g_line_open /\ app.this_probe # 0) \in BOOLEAN /\ app.i + 1 \in Pos
  BY <1>0 DEF Places, Pos
<1> QED
  BY <1>0, <1>1, <1>2, GoesBy, Zenon

LEMMA EndSweepGoes ==
    ASSUME app \in AppState, EndSweep
    PROVE  IF app.g_stop \/ app.sweep = Sweeps THEN Goes("done", app.fed, app.spent, app.i, app.g_line_open)
           ELSE Goes("pause", app.fed, 0, app.i, app.g_line_open)
<1>0. /\ app.pc \in Places /\ app.fed \in Int /\ app.spent \in Nat /\ app.i \in Pos
      /\ app.sweep \in Nat /\ app.g_line_open \in BOOLEAN /\ -1 \in Int /\ 0 \in Nat /\ 1 \in Pos
  BY AppFields DEF Pos
<1>1. CASE app.g_stop \/ app.sweep = Sweeps
  <2>1. app' = [app EXCEPT !.pc = "done", !.fed = app.fed, !.spent = app.spent, !.i = app.i,
                           !.sweep = app.sweep, !.g_line_open = app.g_line_open]
    BY <1>1 DEF EndSweep, AppState
  <2>2. "done" \in Places
    BY <1>0 DEF Places, Pos
  <2> QED
    BY <1>0, <1>1, <2>1, <2>2, GoesBy, Zenon
<1>2. CASE ~(app.g_stop \/ app.sweep = Sweeps)
  <2>1. app' = [app EXCEPT !.pc = "pause", !.fed = app.fed, !.spent = 0, !.i = app.i,
                           !.sweep = app.sweep, !.g_line_open = app.g_line_open]
    BY <1>2 DEF EndSweep, AppState
  <2>2. "pause" \in Places
    BY <1>0 DEF Places, Pos
  <2> QED
    BY <1>0, <1>2, <2>1, <2>2, GoesBy, Zenon
<1> QED
  BY <1>1, <1>2

LEMMA PauseTurnsGoes ==
    ASSUME app \in AppState, PauseTurns
    PROVE  Goes(app.pc, -1, app.spent + 2, app.i, app.g_line_open)
<1>0. /\ app.pc \in Places /\ app.fed \in Int /\ app.spent \in Nat /\ app.i \in Pos
      /\ app.sweep \in Nat /\ app.g_line_open \in BOOLEAN /\ -1 \in Int /\ 0 \in Nat /\ 1 \in Pos
  BY AppFields DEF Pos
<1>1. app' = [app EXCEPT !.pc = app.pc, !.fed = -1, !.spent = app.spent + 2, !.i = app.i,
                         !.sweep = app.sweep, !.g_line_open = app.g_line_open]
  BY DEF PauseTurns, AppState
<1>2. app.spent + 2 \in Nat
  BY <1>0
<1> QED
  BY <1>0, <1>1, <1>2, GoesBy, Zenon

LEMMA EndPauseGoes ==
    ASSUME app \in AppState, EndPause
    PROVE  IF app.g_stop THEN Goes("done", app.fed, app.spent, app.i, app.g_line_open)
           ELSE Goes("probe", app.fed, app.spent, 1, app.g_line_open)
<1>0. /\ app.pc \in Places /\ app.fed \in Int /\ app.spent \in Nat /\ app.i \in Pos
      /\ app.sweep \in Nat /\ app.g_line_open \in BOOLEAN /\ -1 \in Int /\ 0 \in Nat /\ 1 \in Pos
  BY AppFields DEF Pos
<1>1. CASE app.g_stop
  <2>1. app' = [app EXCEPT !.pc = "done", !.fed = app.fed, !.spent = app.spent, !.i = app.i,
                           !.sweep = app.sweep, !.g_line_open = app.g_line_open]
    BY <1>1 DEF EndPause, AppState
  <2>2. "done" \in Places
    BY <1>0 DEF Places, Pos
  <2> QED
    BY <1>0, <1>1, <2>1, <2>2, GoesBy, Zenon
<1>2. CASE ~(app.g_stop)
  <2>1. app' = [app EXCEPT !.pc = "probe", !.fed = app.fed, !.spent = app.spent, !.i = 1,
                           !.sweep = app.sweep + 1, !.g_line_open = app.g_line_open]
    BY <1>2 DEF EndPause, AppState
  <2>2. "probe" \in Places /\ app.sweep + 1 \in Nat
    BY <1>0 DEF Places, Pos
  <2> QED
    BY <1>0, <1>2, <2>1, <2>2, GoesBy, Zenon
<1> QED
  BY <1>1, <1>2

(* poll_loop.                                                              *)
LEMMA AskedAllGoes ==
    ASSUME app \in AppState, AskedAll
    PROVE  Goes("loop", app.fed, app.spent, app.i, app.g_line_open)
<1>0. /\ app.pc \in Places /\ app.fed \in Int /\ app.spent \in Nat /\ app.i \in Pos
      /\ app.sweep \in Nat /\ app.g_line_open \in BOOLEAN /\ -1 \in Int /\ 0 \in Nat /\ 1 \in Pos
  BY AppFields DEF Pos
<1>1. app' = [app EXCEPT !.pc = "loop", !.fed = app.fed, !.spent = app.spent, !.i = app.i,
                         !.sweep = app.sweep, !.g_line_open = app.g_line_open]
  BY DEF AskedAll, AppState
<1>2. "loop" \in Places
  BY <1>0 DEF Places, Pos
<1> QED
  BY <1>0, <1>1, <1>2, GoesBy, Zenon

LEMMA NoSweepGoes ==
    ASSUME app \in AppState, NoSweep
    PROVE  Goes(app.pc, -1, app.spent, app.i, app.g_line_open)
<1>0. /\ app.pc \in Places /\ app.fed \in Int /\ app.spent \in Nat /\ app.i \in Pos
      /\ app.sweep \in Nat /\ app.g_line_open \in BOOLEAN /\ -1 \in Int /\ 0 \in Nat /\ 1 \in Pos
  BY AppFields DEF Pos
<1>1. app' = [app EXCEPT !.pc = app.pc, !.fed = -1, !.spent = app.spent, !.i = app.i,
                         !.sweep = app.sweep, !.g_line_open = app.g_line_open]
  BY DEF NoSweep, AppState
<1> QED
  BY <1>0, <1>1, GoesBy, Zenon

-----------------------------------------------------------------------------
(* Every step of the programs keeps Cranked.                               *)

LEMMA PumpFailsCranked ==
    ASSUME Cranked(app), PumpFails
    PROVE  Cranked(app')
<1>1. app \in AppState
  BY DEF Cranked
<1> QED
  BY <1>1, PumpFailsGoes
  DEF Cranked, Between, Closed, PumpFails, Turning, TurnOver, KeepsTurning,
      Goes, Moves, SameRest

LEMMA HeedSignalCranked ==
    ASSUME Cranked(app), HeedSignal
    PROVE  Cranked(app')
<1>1. app \in AppState
  BY DEF Cranked
<1> QED
  BY <1>1, HeedSignalGoes
  DEF Cranked, Between, Closed, HeedSignal, Turning, TurnOver, KeepsTurning,
      Goes, Moves, SameRest

LEMMA GiveUpCranked ==
    ASSUME Cranked(app), GiveUp
    PROVE  Cranked(app')
<1>1. app \in AppState
  BY DEF Cranked
<1> QED
  BY <1>1, GiveUpGoes
  DEF Cranked, Between, Closed, GiveUp, Turning, TurnOver, KeepsTurning,
      Goes, Moves, SameRest

LEMMA NextTurnCranked ==
    ASSUME Cranked(app), NextTurn
    PROVE  Cranked(app')
<1>1. app \in AppState
  BY DEF Cranked
<1> QED
  BY <1>1, NextTurnGoes
  DEF Cranked, Between, Closed, NextTurn, Turning, TurnOver, KeepsTurning,
      Goes, Moves, SameRest

LEMMA ProbeSettledCranked ==
    ASSUME Cranked(app), ProbeSettled
    PROVE  Cranked(app')
<1>1. app \in AppState
  BY DEF Cranked
<1> QED
  BY <1>1, ProbeSettledGoes
  DEF Cranked, Between, Closed, ProbeSettled, Turning, TurnOver, KeepsTurning,
      Goes, Moves, SameRest

LEMMA CloseProbeCranked ==
    ASSUME Cranked(app), CloseProbe
    PROVE  Cranked(app')
<1>1. app \in AppState
  BY DEF Cranked
<1> QED
  BY <1>1, CloseProbeGoes
  DEF Cranked, Between, Closed, CloseProbe, Turning, TurnOver, KeepsTurning,
      Goes, Moves, SameRest

LEMMA EndSweepCranked ==
    ASSUME Cranked(app), EndSweep
    PROVE  Cranked(app')
<1>1. app \in AppState
  BY DEF Cranked
<1> QED
  BY <1>1, EndSweepGoes
  DEF Cranked, Between, Closed, EndSweep, Turning, TurnOver, KeepsTurning,
      Goes, Moves, SameRest

LEMMA PauseTurnsCranked ==
    ASSUME Cranked(app), PauseTurns
    PROVE  Cranked(app')
<1>1. app \in AppState
  BY DEF Cranked
<1> QED
  BY <1>1, PauseTurnsGoes
  DEF Cranked, Between, Closed, PauseTurns, Turning, TurnOver, KeepsTurning,
      Goes, Moves, SameRest

LEMMA EndPauseCranked ==
    ASSUME Cranked(app), EndPause
    PROVE  Cranked(app')
<1>1. app \in AppState
  BY DEF Cranked
<1> QED
  BY <1>1, EndPauseGoes
  DEF Cranked, Between, Closed, EndPause, Turning, TurnOver, KeepsTurning,
      Goes, Moves, SameRest

LEMMA AskedAllCranked ==
    ASSUME Cranked(app), AskedAll
    PROVE  Cranked(app')
<1>1. app \in AppState
  BY DEF Cranked
<1> QED
  BY <1>1, AskedAllGoes
  DEF Cranked, Between, Closed, AskedAll, Turning, TurnOver, KeepsTurning,
      Goes, Moves, SameRest

LEMMA NoSweepCranked ==
    ASSUME Cranked(app), NoSweep
    PROVE  Cranked(app')
<1>1. app \in AppState
  BY DEF Cranked
<1> QED
  BY <1>1, NoSweepGoes
  DEF Cranked, Between, Closed, NoSweep, Turning, TurnOver, KeepsTurning,
      Goes, Moves, SameRest

LEMMA LabelType ==
    ASSUME NEW a \in AppState, NEW pc \in Places, NEW open \in BOOLEAN, NEW probe \in Nat,
           NEW spent \in Nat, NEW mine \in Nat, NEW i \in Pos, NEW refused \in Nat
    PROVE  [a EXCEPT !.pc = pc, !.g_line_open = open, !.this_probe = probe,
                     !.spent = spent, !.mine = mine, !.i = i, !.refused = refused] \in AppState
<1> DEFINE b == [a EXCEPT !.pc = pc, !.g_line_open = open, !.this_probe = probe]
           c == [a EXCEPT !.pc = pc, !.g_line_open = open, !.this_probe = probe,
                          !.spent = spent, !.mine = mine, !.i = i, !.refused = refused]
<1>1. b \in AppState
  BY DEF AppState
<1>2. c = [b EXCEPT !.spent = spent, !.mine = mine, !.i = i, !.refused = refused]
  BY DEF AppState
<1> HIDE DEF b
<1>3. c \in AppState
  BY <1>1, <1>2 DEF AppState
<1> QED
  BY <1>3

(* A probe is labelled, and sent or refused.                               *)
Sent == [Labelled EXCEPT !.pc = "wait"]

LEMMA LabelledFacts ==
    ASSUME app \in AppState, Len(fate) \in Nat
    PROVE  /\ Sent \in AppState
           /\ Sent.pc = "wait" /\ Sent.fed = app.fed /\ Sent.spent = 0 /\ Sent.i = app.i
           /\ Sent.this_probe = 0 /\ Sent.mine = Len(fate) + 1
           /\ Sent.g_stop = app.g_stop
           /\ Sent.refused = app.refused /\ Sent.ask = app.ask
<1>1. /\ Sent.pc = "wait" /\ Sent.fed = app.fed /\ Sent.spent = 0 /\ Sent.i = app.i
      /\ Sent.this_probe = 0 /\ Sent.mine = Len(fate) + 1
      /\ Sent.g_stop = app.g_stop
      /\ Sent.refused = app.refused /\ Sent.ask = app.ask
  BY DEF Sent, Labelled, AppState
<1>2. Sent = [app EXCEPT !.pc = "wait", !.g_line_open = TRUE, !.this_probe = 0, !.spent = 0,
                         !.mine = Len(fate) + 1, !.i = app.i, !.refused = app.refused]
  BY DEF Sent, Labelled, AppState
<1>3. /\ "wait" \in Places /\ TRUE \in BOOLEAN /\ 0 \in Nat /\ Len(fate) + 1 \in Nat
      /\ app.i \in Pos /\ app.refused \in Nat
  BY AppFields DEF Places
<1>4. [app EXCEPT !.pc = "wait", !.g_line_open = TRUE, !.this_probe = 0, !.spent = 0,
                  !.mine = Len(fate) + 1, !.i = app.i, !.refused = app.refused] \in AppState
  BY <1>3, LabelType, Zenon
<1> QED
  BY <1>1, <1>2, <1>4, Zenon

Denied == [Labelled EXCEPT !.g_line_open = FALSE, !.i = @ + 1, !.refused = @ + 1]

LEMMA DeniedFacts ==
    ASSUME app \in AppState, Len(fate) \in Nat
    PROVE  /\ Denied \in AppState
           /\ Denied.pc = app.pc /\ Denied.fed = app.fed /\ Denied.g_line_open = FALSE
           /\ Denied.g_stop = app.g_stop
<1>1. /\ Denied.pc = app.pc /\ Denied.fed = app.fed /\ Denied.g_line_open = FALSE
      /\ Denied.g_stop = app.g_stop
  BY DEF Denied, Labelled, AppState
<1>2. Denied = [app EXCEPT !.pc = app.pc, !.g_line_open = FALSE, !.this_probe = 0, !.spent = 0,
                           !.mine = Len(fate) + 1, !.i = app.i + 1, !.refused = app.refused + 1]
  BY DEF Denied, Labelled, AppState
<1>3. /\ app.pc \in Places /\ FALSE \in BOOLEAN /\ 0 \in Nat /\ Len(fate) + 1 \in Nat
      /\ app.i + 1 \in Pos /\ app.refused + 1 \in Nat
  BY AppFields DEF Pos
<1>4. [app EXCEPT !.pc = app.pc, !.g_line_open = FALSE, !.this_probe = 0, !.spent = 0,
                  !.mine = Len(fate) + 1, !.i = app.i + 1, !.refused = app.refused + 1]
          \in AppState
  BY <1>3, LabelType, Zenon
<1> QED
  BY <1>1, <1>2, <1>4, Zenon

LEMMA StartProbeCranked ==
    ASSUME Cranked(app), Len(fate) \in Nat, StartProbe
    PROVE  Cranked(app')
<1>1. app \in AppState /\ app.pc = "probe" /\ ~app.g_stop /\ app.fed = -1
  BY DEF Cranked, StartProbe, Between
<1>2. CASE app' = Printed(Sent, FALSE)
  <2>1. Between(Sent) /\ Closed(Sent)
    BY <1>1, LabelledFacts DEF Between, Closed
  <2> QED
    BY <1>1, <1>2, <2>1, LabelledFacts, PrintedCranked DEF Cranked
<1>3. CASE app' = Denied
  BY <1>1, <1>3, DeniedFacts DEF Cranked, Between, Closed
<1> QED
  BY <1>2, <1>3 DEF StartProbe, Sent, Denied

(* The signal.                                                             *)
LEMMA SignalCranked ==
    ASSUME Cranked(app), Signal
    PROVE  Cranked(app')
<1>1. app \in AppState /\ app' = [app EXCEPT !.g_stop = TRUE] /\ ~app.g_stop
      /\ app.pc \in {"probe", "wait", "close", "pause"}
  BY DEF Cranked, Signal
<1>2. app' \in AppState
  BY <1>1 DEF AppState
<1>3. /\ app'.pc = app.pc /\ app'.fed = app.fed /\ app'.spent = app.spent
      /\ app'.g_line_open = app.g_line_open /\ app'.this_probe = app.this_probe
     
  BY <1>1 DEF AppState
<1> QED
  BY <1>1, <1>2, <1>3 DEF Cranked, Between, Closed

(* poll_loop asks.                                                         *)
Asking(pc, ask, fed, refused) ==
    /\ app' \in AppState
    /\ app'.pc = pc /\ app'.fed = fed /\ app'.ask = ask /\ app'.refused = refused
    /\ app'.spent = app.spent /\ app'.i = app.i /\ app'.mine = app.mine
    /\ app'.g_line_open = app.g_line_open /\ app'.this_probe = app.this_probe
    /\ app'.g_stop = app.g_stop

LEMMA AskingBy ==
    ASSUME app \in AppState,
           NEW pc \in Places, NEW ask \in Seq(Requests), NEW sweep \in Nat, NEW fed \in Int,
           NEW due \in Nat, NEW refused \in Nat, NEW trace \in BOOLEAN,
           app' = [app EXCEPT !.pc = pc, !.ask = ask, !.sweep = sweep, !.fed = fed,
                              !.due = due, !.refused = refused, !.g_trace = trace]
    PROVE  Asking(pc, ask, fed, refused)
<1> DEFINE b == [app EXCEPT !.pc = pc, !.ask = ask, !.sweep = sweep, !.fed = fed]
<1>1. b \in AppState
  BY DEF AppState
<1>2. app' = [b EXCEPT !.due = due, !.refused = refused, !.g_trace = trace]
  BY DEF AppState
<1>3. /\ app'.pc = pc /\ app'.fed = fed /\ app'.ask = ask /\ app'.refused = refused
      /\ app'.spent = app.spent /\ app'.i = app.i /\ app'.mine = app.mine
      /\ app'.g_line_open = app.g_line_open /\ app'.this_probe = app.this_probe
      /\ app'.g_stop = app.g_stop
  BY DEF AppState
<1> HIDE DEF b
<1>4. app' \in AppState
  BY <1>1, <1>2 DEF AppState
<1> QED
  BY <1>3, <1>4 DEF Asking

LEMMA AskingCranked ==
    ASSUME Cranked(app), NEW pc, NEW ask, NEW fed, NEW refused, Asking(pc, ask, fed, refused),
           pc \in {"ask", "probe"}, fed = -1, pc = "probe" => ~app.g_line_open
    PROVE  Cranked(app')
BY DEF Asking, Cranked, Between, Closed

LEMMA AskNextAsks ==
    ASSUME app \in AppState, AskNext
    PROVE  /\ app.ask # <<>> /\ Head(app.ask) \in Requests
           /\ IF queue_status(bms, Head(app.ask)) = "QUEUED"
              THEN Asking("ask", Tail(app.ask), app.fed, app.refused)
              ELSE Asking("ask", Tail(app.ask), app.fed, app.refused + 1)
<1>1. /\ "ask" \in Places /\ app.ask \in Seq(Requests) /\ app.ask # <<>> /\ app.pc = "ask"
      /\ app.sweep \in Nat /\ app.fed \in Int /\ app.due \in Nat /\ app.refused \in Nat
      /\ app.refused + 1 \in Nat /\ app.g_trace \in BOOLEAN
  BY AppFields DEF Places, AskNext
<1>2. Tail(app.ask) \in Seq(Requests) /\ Head(app.ask) \in Requests
  BY <1>1
<1>3. CASE queue_status(bms, Head(app.ask)) = "QUEUED"
  <2>1. app' = [app EXCEPT !.pc = "ask", !.ask = Tail(app.ask), !.sweep = app.sweep,
                           !.fed = app.fed, !.due = app.due, !.refused = app.refused,
                           !.g_trace = app.g_trace]
    BY <1>1, <1>3 DEF AskNext, AppState
  <2> QED
    BY <1>1, <1>2, <1>3, <2>1, AskingBy, Zenon
<1>4. CASE queue_status(bms, Head(app.ask)) # "QUEUED"
  <2>1. app' = [app EXCEPT !.pc = "ask", !.ask = Tail(app.ask), !.sweep = app.sweep,
                           !.fed = app.fed, !.due = app.due, !.refused = app.refused + 1,
                           !.g_trace = app.g_trace]
    BY <1>1, <1>4 DEF AskNext, AppState
  <2> QED
    BY <1>1, <1>2, <1>4, <2>1, AskingBy, Zenon
<1> QED
  BY <1>3, <1>4

LEMMA StartSweepAsks ==
    ASSUME app \in AppState, StartSweep
    PROVE  Asking("ask", Sweep, -1, app.refused)
<1>1. /\ "ask" \in Places /\ Sweep \in Seq(Requests) /\ 1 \in Nat /\ -1 \in Int /\ sweep_ms \in Nat
      /\ app.refused \in Nat /\ app.g_trace \in BOOLEAN
  BY AppFields, ExamplesAssumption DEF Places
<1>2. app' = [app EXCEPT !.pc = "ask", !.ask = Sweep, !.sweep = 1, !.fed = -1, !.due = sweep_ms,
                         !.refused = app.refused, !.g_trace = app.g_trace]
  BY DEF StartSweep, AppState
<1> QED
  BY <1>1, <1>2, AskingBy, Zenon

LEMMA MainAsks ==
    ASSUME app \in AppState, Main
    PROVE  \/ Asking("probe", app.ask, app.fed, app.refused)
           \/ Asking("ask", Startup, app.fed, app.refused)
<1>1. /\ "ask" \in Places /\ "probe" \in Places /\ Startup \in Seq(Requests)
      /\ app.ask \in Seq(Requests) /\ 1 \in Nat /\ app.sweep \in Nat /\ app.fed \in Int
      /\ app.due \in Nat /\ app.refused \in Nat /\ app.g_trace \in BOOLEAN
  BY AppFields, ExamplesAssumption DEF Places
<1>2. ASSUME NEW trace \in BOOLEAN, app' = [app EXCEPT !.pc = "probe", !.sweep = 1, !.g_trace = trace]
      PROVE  Asking("probe", app.ask, app.fed, app.refused)
  <2>1. app' = [app EXCEPT !.pc = "probe", !.ask = app.ask, !.sweep = 1, !.fed = app.fed,
                           !.due = app.due, !.refused = app.refused, !.g_trace = trace]
    BY <1>2 DEF AppState
  <2> QED
    BY <1>1, <2>1, AskingBy, Zenon
<1>3. ASSUME app' = [app EXCEPT !.pc = "ask", !.ask = Startup]
      PROVE  Asking("ask", Startup, app.fed, app.refused)
  <2>1. app' = [app EXCEPT !.pc = "ask", !.ask = Startup, !.sweep = app.sweep, !.fed = app.fed,
                           !.due = app.due, !.refused = app.refused, !.g_trace = app.g_trace]
    BY <1>3 DEF AppState
  <2> QED
    BY <1>1, <2>1, AskingBy, Zenon
<1> QED
  BY <1>2, <1>3 DEF Main

(* A step of the loop, of the port or of the signal.                       *)
LEMMA NextCranked ==
    ASSUME Cranked(app), Len(fate) \in Nat, ExamplesNext
    PROVE  Cranked(app')
<1>0. app \in AppState
  BY DEF Cranked
<1>1. CASE Main
  <2>1. app.pc = "main" /\ app.fed = -1 /\ ~app.g_line_open
    BY <1>1 DEF Main, Cranked, Between, Closed
  <2> QED
    BY <1>0, <1>1, <2>1, MainAsks, AskingCranked
<1>2. CASE Pump
  <2>1. ASSUME NEW d \in TickSteps, PumpTicks(d) PROVE Cranked(app')
    BY <2>1, TickCranked
  <2>2. CASE HandlerReturns
    BY <2>2, PrintedCranked DEF HandlerReturns
  <2> QED
    BY <1>2, <2>1, <2>2, FeedCranked, PumpFailsCranked DEF Pump
<1>3. CASE DumpAll
  BY <1>3, StartProbeCranked, HeedSignalCranked, GiveUpCranked, NextTurnCranked,
     ProbeSettledCranked, CloseProbeCranked, EndSweepCranked, PauseTurnsCranked, EndPauseCranked
     DEF DumpAll
<1>4. CASE PollLoop
  <2>1. CASE AskNext
    <3>1. app.pc = "ask" /\ app.fed = -1
      BY <2>1 DEF AskNext, Cranked, Between
    <3> QED
      BY <1>0, <2>1, <3>1, AskNextAsks, AskingCranked
  <2>2. CASE StartSweep
    BY <1>0, <2>2, StartSweepAsks, AskingCranked
  <2> QED
    BY <1>4, <2>1, <2>2, AskedAllCranked, NoSweepCranked DEF PollLoop
<1> QED
  BY <1>1, <1>2, <1>3, <1>4, SignalCranked DEF ExamplesNext, Program

-----------------------------------------------------------------------------
(* The session under the programs.                                         *)

(* The typed poll_*() of the programs pass what PollArgs allows.           *)
LEMMA RequestArgs ==
    ASSUME NEW id \in Requests, NEW fn \in BOOLEAN
    PROVE  Request0(id, fn) \in PollArgs
BY DEF Request0, PollArgs, Requests, Byte

(* Setting the handlers and the clock.                                     *)
LEMMA HandlersSet ==
    ASSUME NEW b \in Object, NEW tx \in BOOLEAN, NEW event \in BOOLEAN, NEW clock \in Timeout
    PROVE  LET c == [b EXCEPT !.tx_fn = tx, !.event_fn = event, !.now_ms = clock]
           IN  /\ c \in Object /\ SameQueue(b, c) /\ c.tx_fn = tx
               /\ c.state = b.state /\ c.dispatching = b.dispatching
BY DEF Object, SameQueue

Configured ==
    /\ bms' \in Object /\ SameQueue(bms, bms') /\ bms'.tx_fn = TRUE
    /\ bms'.state = bms.state /\ bms'.dispatching = bms.dispatching
    /\ UNCHANGED <<stack, fate>>

LEMMA MainConfigures ==
    ASSUME bms \in Object, Main
    PROVE  Configured
<1>1. PICK clock \in Timeout :
          bms' = [bms EXCEPT !.tx_fn = TRUE, !.event_fn = TRUE, !.now_ms = clock]
  BY DEF Main
<1>2. TRUE \in BOOLEAN
  OBVIOUS
<1> QED
  BY <1>1, <1>2, HandlersSet, Zenon DEF Configured, Main

(* What a step of the programs is to the session.                          *)
Asks == \E id \in Requests, fn \in BOOLEAN : Poll(Request0(id, fn))

LEMMA ScheduleIds ==
    ASSUME NEW i \in Pos, i <= Len(Schedule)
    PROVE  Schedule[i] \in Requests
BY ExamplesAssumption DEF Pos

LEMMA ProgramSteps ==
    ASSUME bms \in Object, app \in AppState, ExamplesNext
    PROVE  [Next]_vars \/ Asks \/ Configured
<1>1. CASE Main
  BY <1>1, MainConfigures
<1>2. CASE Pump
  BY <1>2 DEF Pump, PumpTicks, PumpFeeds, PumpFails, HandlerReturns, Next, Session, vars
<1>3. CASE DumpAll
  <2>1. CASE StartProbe
    <3>1. Schedule[app.i] \in Requests
      BY <2>1, AppFields, ScheduleIds DEF StartProbe
    <3>2. FALSE \in BOOLEAN
      OBVIOUS
    <3>3. Poll(Request0(Schedule[app.i], FALSE)) => Asks
      BY <3>1, <3>2, Zenon DEF Asks
    <3> QED
      BY <2>1, <3>3 DEF StartProbe, Session, vars
  <2>2. CASE GiveUp
    BY <2>2 DEF GiveUp, Next, Application
  <2> QED
    BY <1>3, <2>1, <2>2
    DEF DumpAll, HeedSignal, NextTurn, ProbeSettled, CloseProbe, EndSweep, PauseTurns, EndPause,
        Session, vars
<1>4. CASE PollLoop
  <2>1. CASE AskNext
    <3>1. Head(app.ask) \in Requests
      BY <2>1, AskNextAsks
    <3>2. (app.sweep = 0) \in BOOLEAN
      OBVIOUS
    <3>3. Poll(Request0(Head(app.ask), app.sweep = 0)) => Asks
      BY <3>1, <3>2, Zenon DEF Asks
    <3> QED
      BY <2>1, <3>3 DEF AskNext, Session, vars
  <2> QED
    BY <1>4, <2>1 DEF PollLoop, AskedAll, StartSweep, NoSweep, Session, vars
<1>5. CASE Signal
  BY <1>5 DEF Signal, Session, vars
<1> QED
  BY <1>1, <1>2, <1>3, <1>4, <1>5 DEF ExamplesNext, Program

(* The session stays well-formed under the programs, which it does not     *)
(* know: their polls are polls, and the rest are its own steps.            *)
LEMMA ExamplesGood ==
    ASSUME Good(bms, stack, fate), app \in AppState, ExamplesNext
    PROVE  Good(bms', stack', fate')
<1>0. bms \in Object /\ Sound(bms, Len(fate))
  BY DEF Good, Sound
<1>1. CASE [Next]_vars
  BY <1>1, NextGood
<1>2. CASE Asks
  BY <1>2, RequestArgs, AskFacts DEF Asks
<1>3. CASE Configured
  <2>1. Sound(bms', Len(fate))
    BY <1>0, <1>3, SameQueueSound DEF Configured
  <2> QED
    BY <1>3, <2>1 DEF Good, Configured
<1> QED
  BY <1>0, <1>1, <1>2, <1>3, ProgramSteps

LEMMA AppBegins ==
    ASSUME ExamplesInit
    PROVE  Cranked(app)
<1>1. /\ app.pc = "main" /\ app.fed = -1 /\ app.g_stop = FALSE
      /\ app.g_line_open = FALSE /\ app.this_probe = 0
  BY DEF ExamplesInit
<1>2. ASSUME NEW pc \in Places, NEW ask \in Seq(Requests), NEW i \in Pos, NEW sweep \in Nat,
             NEW fed \in Int, NEW flag \in BOOLEAN
      PROVE  [pc |-> pc, ask |-> ask, i |-> i, sweep |-> sweep, fed |-> fed, spent |-> sweep,
              due |-> sweep, mine |-> sweep, g_trace |-> flag, g_stop |-> flag,
              g_line_open |-> flag, this_probe |-> sweep, refused |-> sweep]
                 \in AppState
  BY <1>2 DEF AppState
<1>3. "main" \in Places /\ <<>> \in Seq(Requests) /\ 1 \in Pos /\ 0 \in Nat /\ -1 \in Int
      /\ FALSE \in BOOLEAN
  BY DEF Places, Pos
<1>4. app \in AppState
  BY <1>2, <1>3, Zenon DEF ExamplesInit
<1> QED
  BY <1>1, <1>4 DEF Cranked, Between, Closed

LEMMA CrankedInvariant == ExamplesSpec => [](Good(bms, stack, fate) /\ Cranked(app))
<1>1. ExamplesInit => Good(bms, stack, fate) /\ Cranked(app)
  BY InitGood, AppBegins DEF ExamplesInit
<1>2. ASSUME Good(bms, stack, fate), Cranked(app), [ExamplesNext]_exampleVars
      PROVE  (Good(bms, stack, fate) /\ Cranked(app))'
  <2>1. CASE UNCHANGED exampleVars
    <3>1. Cranked(app)' = Cranked(app')
      BY DEF Cranked, Between, Closed
    <3> QED
      BY <1>2, <2>1, <3>1 DEF exampleVars
  <2>2. CASE ExamplesNext
    <3>1. Len(fate) \in Nat /\ app \in AppState
      BY <1>2 DEF Good, Cranked
    <3> QED
      BY <1>2, <2>2, <3>1, NextCranked, ExamplesGood
  <2> QED
    BY <1>2, <2>1, <2>2
<1> QED
  BY <1>1, <1>2, PTL DEF ExamplesSpec

(* dump_all never prints a label or a heading into a line that is open,    *)
(* however the probe before it ended, for every schedule, guard and pack.  *)
THEOREM NoLineLeftOpen == ExamplesSpec => []LinesClosed
<1>1. Cranked(app) => LinesClosed
  BY DEF Cranked, Closed, LinesClosed
<1> QED
  BY <1>1, CrankedInvariant, PTL

-----------------------------------------------------------------------------
(* What feed(), tick() and the return of a handler leave alone: the TX     *)
(* handler, the room in the ring, and a session with nothing to do.        *)

Free(b) == b.state = "IDLE" /\ b.queue_count = 0

Spares(b, c) ==
    /\ c \in Object /\ c.tx_fn = b.tx_fn
    /\ c.queue_count <= b.queue_count
    /\ Free(b) => Free(c)

LEMMA SparesTwice ==
    ASSUME NEW a \in Object, NEW b, NEW c, Spares(a, b), Spares(b, c)
    PROVE  Spares(a, c)
BY DEF Spares, Object

LEMMA UntouchedSpares ==
    ASSUME NEW b \in Object, NEW c, Untouched(b, c), c.tx_fn = b.tx_fn
    PROVE  Spares(b, c)
BY DEF Untouched, SameQueue, Spares, Free, Object

LEMMA TransmitKeepsTx ==
    ASSUME NEW b \in Object
    PROVE  transmit(b).tx_fn = b.tx_fn
<1> DEFINE new == IF ~b.tx_fn THEN b.sent
                  ELSE [ctx   |-> head(b).ctx,
                        tries |-> IF b.sent.ctx = head(b).ctx THEN b.sent.tries + 1 ELSE 1]
           deadline == (b.now_ms + b.response_timeout_ms) % ClockMod
<1>1. transmit(b) = [b EXCEPT !.sent = new, !.deadline_ms = deadline]
  BY DEF transmit
<1> HIDE DEF new, deadline
<1> QED
  BY <1>1 DEF Object

LEMMA BeginKeepsTx ==
    ASSUME NEW b \in Object
    PROVE  begin_awaiting(b).tx_fn = b.tx_fn
<1> DEFINE items == ItemsExpected(b)
           frames == FramesExpected(b)
<1>1. begin_awaiting(b) =
          [b EXCEPT !.seen_mask = {}, !.frames_seen = 0, !.record_len = 0, !.retries = 0,
                    !.heard = 0, !.expected_items = items, !.expected_frames = frames]
  BY DEF begin_awaiting
<1> HIDE DEF items, frames
<1> QED
  BY <1>1 DEF Object

LEMMA PumpSpares ==
    ASSUME NEW b, NEW n, Sound(b, n)
    PROVE  Spares(b, pump(b))
<1> DEFINE started == [b EXCEPT !.state = "AWAITING"]
<1>0. b \in Object
  BY DEF Sound
<1>1. pump(b) \in Object /\ pump(b).queue_count = b.queue_count /\ (Free(b) => Free(pump(b)))
  BY <1>0, PumpFacts DEF Sound, SameQueue, Free, pump
<1>2. pump(b).tx_fn = b.tx_fn
  <2>1. CASE b.state # "IDLE" \/ b.queue_count = 0
    BY <2>1 DEF pump
  <2>2. CASE ~(b.state # "IDLE" \/ b.queue_count = 0)
    <3>1. started \in Object /\ started.tx_fn = b.tx_fn
      BY <1>0 DEF Object
    <3>2. pump(b) = transmit(begin_awaiting(started))
      BY <2>2 DEF pump
    <3> HIDE DEF started
    <3> QED
      BY <3>1, <3>2, BeginKeepsTx, BeginAwaitingFacts, TransmitKeepsTx
  <2> QED
    BY <2>1, <2>2
<1> QED
  BY <1>0, <1>1, <1>2 DEF Spares, Object

LEMMA CompleteSpares ==
    ASSUME NEW b, NEW n \in Nat, Sound(b, n)
    PROVE  Spares(b, complete(b))
<1> DEFINE h == (b.queue_head + 1) % QUEUE_CAPACITY
           idle == [(IF b.state = "AWAITING" THEN pop(b) ELSE b) EXCEPT !.state = "IDLE"]
<1>0. b \in Object
  BY DEF Sound
<1>1. Sound(idle, n) /\ idle \in Object
  BY IdleSound DEF Sound
<1>2. idle = IF b.state = "AWAITING"
             THEN [b EXCEPT !.queue_head = h, !.queue_count = b.queue_count - 1, !.state = "IDLE"]
             ELSE [b EXCEPT !.state = "IDLE"]
  BY <1>0 DEF pop, Object
<1>3. complete(b) = pump(idle)
  BY DEF complete
<1> HIDE DEF h
<1>4. /\ idle.tx_fn = b.tx_fn
      /\ idle.queue_count = IF b.state = "AWAITING" THEN b.queue_count - 1 ELSE b.queue_count
      /\ idle.state = "IDLE"
  BY <1>0, <1>2 DEF Object
<1> HIDE DEF idle
<1>5. Spares(b, idle)
  BY <1>0, <1>1, <1>4 DEF Spares, Free, Object
<1> QED
  BY <1>0, <1>1, <1>3, <1>5, PumpSpares, SparesTwice

LEMMA AwaitSpares ==
    ASSUME NEW b \in Object
    PROVE  Spares(b, await_next_frame(b))
<1> DEFINE deadline == (b.now_ms + b.interframe_timeout_ms) % ClockMod
<1>1. await_next_frame(b) = [b EXCEPT !.deadline_ms = deadline]
  BY DEF await_next_frame
<1> HIDE DEF deadline
<1>2. await_next_frame(b).tx_fn = b.tx_fn
  BY <1>1 DEF Object
<1> QED
  BY <1>2, AwaitFacts, UntouchedSpares

LEMMA AfterRecordSpares ==
    ASSUME NEW b, NEW n, Sound(b, n)
    PROVE  Spares(b, after_record(b))
<1> DEFINE rewound == [b EXCEPT !.record_len = 0]
<1>0. b \in Object
  BY DEF Sound
<1>1. rewound \in Object /\ SameQueue(b, rewound) /\ rewound.state = b.state
      /\ rewound.tx_fn = b.tx_fn
  BY <1>0 DEF Object, SameQueue, FAULT_BUFFER_LEN
<1>2. after_record(b) = IF b.state # "AWAITING" THEN pump(rewound) ELSE await_next_frame(rewound)
  BY DEF after_record
<1> HIDE DEF rewound
<1>3. Sound(rewound, n) /\ Spares(b, rewound)
  BY <1>0, <1>1, SameQueueSound DEF Spares, SameQueue, Free, Object
<1> QED
  BY <1>0, <1>1, <1>2, <1>3, PumpSpares, AwaitSpares, SparesTwice

LEMMA FilingFrameSpares ==
    ASSUME NEW b \in Object, NEW no \in 0..MAX_FRAME_INDEX
    PROVE  Spares(b, FileFrame(b, no))
<1> DEFINE mask == b.seen_mask \cup {no}
           count == Cardinality(mask)
<1>1. FileFrame(b, no) =
          [b EXCEPT !.seen_mask = mask, !.frames_seen = count, !.heard = b.heard + 1]
  BY DEF FileFrame, Object
<1> HIDE DEF mask, count
<1>2. FileFrame(b, no).tx_fn = b.tx_fn
  BY <1>1 DEF Object
<1> QED
  BY <1>2, FileFrameFacts, UntouchedSpares

LEMMA FilingRecordSpares ==
    ASSUME NEW b \in Object
    PROVE  Spares(b, FileRecord(b))
<1> DEFINE len == IF b.record_len + 7 > FAULT_BUFFER_LEN THEN FAULT_BUFFER_LEN
                  ELSE b.record_len + 7
           frames == (b.frames_seen + 1) % 256
<1>1. FileRecord(b) = [b EXCEPT !.record_len = len, !.frames_seen = frames, !.heard = b.heard + 1]
  BY DEF FileRecord, Object
<1> HIDE DEF len, frames
<1>2. FileRecord(b).tx_fn = b.tx_fn
  BY <1>1 DEF Object
<1> QED
  BY <1>2, FileRecordFacts, UntouchedSpares

LEMMA NotingSpares ==
    ASSUME NEW b \in Object, NEW id, NEW data \in Data
    PROVE  Spares(b, note_counts(b, id, data))
<1> DEFINE cells == (data[1] + data[2] + data[3]) % 256
           temps == (data[4] + data[5] + data[6]) % 256
           status == [b EXCEPT !.cached_cell_count = data[0], !.cached_temp_count = data[1]]
           boards == [b EXCEPT !.cached_cell_count = cells, !.cached_temp_count = temps]
<1>1. note_counts(b, id, data) \in {status, boards, b}
  <2>1. CASE id = STATUS_INFO
    BY <2>1 DEF note_counts, STATUS_INFO, BMU_CELL_TEMP_COUNT
  <2>2. CASE id = BMU_CELL_TEMP_COUNT
    BY <2>2 DEF note_counts, STATUS_INFO, BMU_CELL_TEMP_COUNT
  <2>3. CASE id # STATUS_INFO /\ id # BMU_CELL_TEMP_COUNT
    BY <2>3 DEF note_counts
  <2> QED
    BY <2>1, <2>2, <2>3
<1> HIDE DEF cells, temps
<1>2. status.tx_fn = b.tx_fn /\ boards.tx_fn = b.tx_fn
  BY DEF Object
<1> HIDE DEF status, boards
<1>3. note_counts(b, id, data).tx_fn = b.tx_fn
  BY <1>1, <1>2
<1> QED
  BY <1>3, NoteCountsFacts, UntouchedSpares

LEMMA AtSpares ==
    ASSUME bms \in Object, NEW d \in Timeout
    PROVE  Spares(bms, At(d))
<1> DEFINE now == (bms.now_ms + d) % ClockMod
<1>1. At(d) = [bms EXCEPT !.now_ms = now]
  BY DEF At
<1> HIDE DEF now
<1>2. At(d).tx_fn = bms.tx_fn
  BY <1>1 DEF Object
<1> QED
  BY <1>2, AtFacts, UntouchedSpares

(* feed() and tick() do not touch the TX handler.                          *)
LEMMA EmitKeepsTx ==
    ASSUME NEW b, Spares(bms, b), NEW event, NEW then, emit(b, event, then)
    PROVE  bms'.tx_fn = bms.tx_fn
<1>1. b \in Object /\ b.tx_fn = bms.tx_fn /\ bms' = [b EXCEPT !.dispatching = TRUE]
  BY DEF Spares, emit
<1> QED
  BY <1>1 DEF Object

LEMMA FeedKeepsTx ==
    ASSUME Good(bms, stack, fate), Feed
    PROVE  bms'.tx_fn = bms.tx_fn
<1>0. bms \in Object /\ Sound(bms, Len(fate)) /\ Len(fate) \in Nat
  BY DEF Good, Sound
<1>1. Spares(bms, bms)
  BY <1>0 DEF Spares, Object
<1>2. ASSUME NEW error \in FrameErrors, OnFrameError(error)
      PROVE  bms'.tx_fn = bms.tx_fn
  BY <1>1, <1>2, EmitKeepsTx, Zenon DEF OnFrameError
<1>3. ASSUME NEW f \in Frames, OnFrame(f)
      PROVE  bms'.tx_fn = bms.tx_fn
  <2>1. f.id \in Byte /\ f.data \in Data /\ f.data[0] \in Byte
    BY InputAssumption DEF Data
  <2>2. CASE RejectIdle(f) \/ RejectSource(f) \/ RejectId(f) \/ RejectFrameNo(f)
    BY <1>1, <2>2, EmitKeepsTx, Zenon DEF RejectIdle, RejectSource, RejectId, RejectFrameNo
  <2>3. CASE HandleSingle(f)
    BY <1>0, <2>1, <2>3, NotingSpares, EmitKeepsTx, Zenon DEF HandleSingle
  <2>4. CASE HandleMultiLast(f) \/ HandleMultiMore(f)
    <3>1. f.data[0] \in 0..MAX_FRAME_INDEX
      <4>1. f.data[0] <= MAX_FRAME_INDEX
        BY <2>4, Zenon DEF HandleMultiLast, HandleMultiMore, AcceptFrame
      <4> QED
        BY <2>1, <4>1 DEF MAX_FRAME_INDEX, Byte
    <3>2. Spares(bms, FileFrame(bms, f.data[0])) /\ FileFrame(bms, f.data[0]) \in Object
      BY <1>0, <3>1, FilingFrameSpares DEF Spares
    <3>3. CASE HandleMultiLast(f)
      BY <3>2, <3>3, EmitKeepsTx, Zenon DEF HandleMultiLast, finish_multi
    <3>4. CASE HandleMultiMore(f)
      BY <3>2, <3>4, AwaitSpares DEF HandleMultiMore, Spares
    <3> QED
      BY <2>4, <3>3, <3>4
  <2>5. CASE HandleStreamEnd(f)
    BY <1>0, <2>5, CompleteSpares DEF HandleStreamEnd, Spares
  <2>6. CASE HandleStreamMore(f) \/ HandleStreamRecord(f)
    <3>1. Spares(bms, FileRecord(bms)) /\ FileRecord(bms) \in Object
      BY <1>0, FilingRecordSpares DEF Spares
    <3>2. CASE HandleStreamRecord(f)
      BY <3>1, <3>2, EmitKeepsTx, Zenon DEF HandleStreamRecord
    <3>3. CASE HandleStreamMore(f)
      BY <3>1, <3>3, AwaitSpares DEF HandleStreamMore, Spares
    <3> QED
      BY <2>6, <3>2, <3>3
  <2> QED
    BY <1>3, <2>2, <2>3, <2>4, <2>5, <2>6 DEF OnFrame
<1> QED
  BY <1>2, <1>3 DEF Feed

LEMMA TickKeepsTx ==
    ASSUME Good(bms, stack, fate), NEW d \in TickSteps, Tick(d)
    PROVE  bms'.tx_fn = bms.tx_fn
<1>0. bms \in Object
  BY DEF Good, Sound
<1>1. Spares(bms, At(d)) /\ At(d) \in Object /\ At(d).retries = bms.retries
  BY <1>0, AtSpares, AtFacts, TimingAssumption DEF Spares
<1>2. CASE TickQuiet(d)
  BY <1>1, <1>2 DEF TickQuiet, Spares
<1>3. CASE TickFinishes(d) \/ TickTruncates(d) \/ TickTimesOut(d)
  BY <1>1, <1>3, EmitKeepsTx, Zenon DEF TickFinishes, TickTruncates, TickTimesOut, finish_multi
<1>4. CASE TickRetries(d)
  <2> DEFINE again == [At(d) EXCEPT !.retries = At(d).retries + 1]
  <2>1. bms.retries + 1 \in Byte
    BY <1>0, <1>4 DEF TickRetries, Byte, Object
  <2>2. again \in Object /\ again.tx_fn = bms.tx_fn
    BY <1>1, <2>1 DEF Object, Spares
  <2>3. bms' = transmit(again)
    BY <1>4 DEF TickRetries
  <2> HIDE DEF again
  <2> QED
    BY <2>2, <2>3, TransmitKeepsTx
<1> QED
  BY <1>2, <1>3, <1>4 DEF Tick

(* emit() pushes one activation, of the request in flight.                 *)
Pushes ==
    /\ Len(stack') = Len(stack) + 1
    /\ stack' = Append(stack, stack'[Len(stack) + 1])
    /\ stack'[Len(stack) + 1].owner = InFlight(bms)

LEMMA EmitPushes ==
    ASSUME Good(bms, stack, fate), Emits, bms'.tx_fn = bms.tx_fn
    PROVE  Pushes /\ Spares(bms, bms') /\ Len(fate') = Len(fate)
<1>0. bms \in Object /\ Sound(bms, Len(fate)) /\ fate \in Seq(Fates) /\ stack \in Seq(Activation)
  BY DEF Good, Sound
<1>1. PICK b \in Object, event \in Event, then \in Continuations :
          Untouched(bms, b) /\ emit(b, event, then)
  BY DEF Emits
<1>2. Good(b, stack, fate)
  BY <1>0, <1>1, UntouchedSound DEF Good
<1>3. /\ SameQueue(b, bms') /\ bms'.state = b.state /\ bms' \in Object
      /\ Len(stack') = Len(stack) + 1
      /\ stack'[Len(stack) + 1].owner = InFlight(b)
      /\ fate' = IF then = "complete" THEN Reported(fate, InFlight(b)) ELSE fate
  BY <1>1, <1>2, EmitFacts DEF Good, Sound
<1>4. Len(fate') = Len(fate)
  BY <1>0, <1>3, ReportedFacts
<1>5. Spares(bms, bms')
  BY <1>0, <1>1, <1>3 DEF Spares, SameQueue, Free, Object, Untouched
<1>6. InFlight(b) = InFlight(bms)
  BY <1>1 DEF InFlight, head, Untouched, SameQueue
<1>7. stack' = Append(stack, stack'[Len(stack) + 1])
  <2>1. \E act : stack' = Append(stack, act)
    BY <1>1 DEF emit
  <2>2. PICK act : stack' = Append(stack, act)
    BY <2>1
  <2>3. Append(stack, act)[Len(stack) + 1] = act
    BY <1>0
  <2> QED
    BY <2>2, <2>3
<1> QED
  BY <1>3, <1>4, <1>5, <1>6, <1>7 DEF Pushes

(* A step of feed() or tick(): it emits, or the stack is as it was.        *)
LEMMA DriveSpares ==
    ASSUME Good(bms, stack, fate), Feed \/ (\E d \in TickSteps : Tick(d))
    PROVE  /\ Spares(bms, bms') /\ Len(fate') = Len(fate)
           /\ Pushes \/ stack' = stack
<1>0. bms \in Object /\ Sound(bms, Len(fate)) /\ fate \in Seq(Fates) /\ Len(fate) \in Nat
  BY DEF Good, Sound
<1>1. bms'.tx_fn = bms.tx_fn
  BY FeedKeepsTx, TickKeepsTx
<1>2. Emits \/ Leaves \/ Retries \/ Ends
  BY FeedShape, TickShape, TimingAssumption
<1>3. CASE Emits
  BY <1>1, <1>3, EmitPushes
<1>4. CASE Leaves \/ Retries
  BY <1>0, <1>1, <1>4 DEF Leaves, Retries, Untouched, SameQueue, Spares, Free, Object
<1>5. CASE Ends
  <2>1. bms' = complete(bms) /\ fate' = Reported(fate, head(bms).ctx) /\ stack' = stack
    BY <1>5 DEF Ends
  <2> QED
    BY <1>0, <2>1, CompleteSpares, ReportedFacts
<1> QED
  BY <1>2, <1>3, <1>4, <1>5

(* A handler returns.                                                      *)
LEMMA ReturnSpares ==
    ASSUME Good(bms, stack, fate), Return
    PROVE  Spares(bms, bms') /\ fate' = fate /\ Len(stack') <= Len(stack)
<1>0. /\ bms \in Object /\ Sound(bms, Len(fate)) /\ Len(fate) \in Nat
      /\ stack \in Seq(Activation) /\ Len(stack) \in Nat
  BY DEF Good, Sound
<1>1. CASE SessionHandlerRuns
  <2>1. bms' = bms /\ fate' = fate /\ Len(stack') = Len(stack)
    BY <1>0, <1>1 DEF SessionHandlerRuns
  <2> QED
    BY <1>0, <2>1 DEF Spares, Object
<1>2. ASSUME NEW then \in {"return", "complete", "stream"}, EmitReturns(then)
      PROVE  Spares(bms, bms') /\ fate' = fate /\ Len(stack') <= Len(stack)
  <2> DEFINE ended == EndDispatch(bms, Top.nested)
             off == [bms EXCEPT !.dispatching = FALSE]
  <2>1. /\ off \in Object /\ SameQueue(bms, off) /\ off.state = bms.state /\ off.tx_fn = bms.tx_fn
    BY <1>0 DEF Object, SameQueue
  <2>2. ended = IF Top.nested THEN bms ELSE off
    BY DEF EndDispatch
  <2>3. bms' = Resume(ended, then) /\ fate' = fate
    BY <1>2 DEF EmitReturns
  <2>4. Len(stack') = Len(stack) - 1
    BY <1>2, EmitReturnsFacts DEF Continuations
  <2> HIDE DEF off, ended
  <2>5. Sound(ended, Len(fate)) /\ Spares(bms, ended)
    BY <1>0, <2>1, <2>2, SameQueueSound DEF Spares, SameQueue, Free, Object
  <2>6. Spares(ended, bms')
    <3>1. CASE then = "return"
      BY <2>3, <2>5, <3>1 DEF Resume, Spares, Object
    <3>2. CASE then = "complete"
      BY <1>0, <2>3, <2>5, <3>2, CompleteSpares DEF Resume
    <3>3. CASE then = "stream"
      BY <2>3, <2>5, <3>3, AfterRecordSpares DEF Resume
    <3> QED
      BY <3>1, <3>2, <3>3
  <2> QED
    BY <1>0, <2>3, <2>4, <2>5, <2>6, SparesTwice
<1> QED
  BY <1>1, <1>2 DEF Return

-----------------------------------------------------------------------------
(* The programs ask when there is room.                                    *)

(* Where the program is, against the session: no handler runs between two  *)
(* turns, what is left of a sweep fits into the ring, and dump_all is at   *)
(* its next probe with a session that has nothing to do, unless it was     *)
(* interrupted.                                                            *)
InTurn ==
    /\ app.fed = -1 => stack = <<>>
    /\ app.pc # "main" => bms.tx_fn
    /\ app.pc = "main" => Free(bms)
    /\ app.pc \in {"probe", "pause", "close"} /\ ~app.g_stop => Free(bms)
    /\ app.pc = "ask" => bms.queue_count + Len(app.ask) <= QUEUE_CAPACITY
    /\ app.refused = 0

(* The probe is the only request in the ring, and the last one accepted.   *)
OneProbe ==
    /\ app.pc \in {"main", "ask", "loop"} => app.mine = 0
    /\ app.pc \in {"wait", "close"} => app.mine # 0
    /\ app.mine # 0 => bms.queue_count <= 1 /\ Len(fate) = app.mine

Turned == InTurn /\ OneProbe /\ OutcomeUnderItsLabel

(* A step of the program's own that leaves the session as it is.           *)
LEMMA GoesTurned ==
    ASSUME bms \in Object, app \in AppState, Cranked(app), Turned,
           \/ PumpFails \/ HeedSignal \/ NextTurn \/ ProbeSettled \/ CloseProbe \/ EndSweep
           \/ PauseTurns \/ EndPause \/ AskedAll \/ NoSweep
    PROVE  Turned'
<1>0. bms' = bms /\ stack' = stack /\ fate' = fate
  BY DEF PumpFails, HeedSignal, NextTurn, ProbeSettled, CloseProbe, EndSweep, PauseTurns,
         EndPause, AskedAll, NoSweep, Session
<1>1. /\ bms.queue_count \in Nat
      /\ app.fed \in Int
  BY CapacityAssumption DEF Object, AppState
<1>2. CASE PumpFails
  BY <1>0, <1>1, <1>2, PumpFailsGoes
  DEF PumpFails, Turning, Turned, InTurn, OneProbe, OutcomeUnderItsLabel, Goes, Moves, SameRest
<1>3. CASE HeedSignal
  BY <1>0, <1>1, <1>3, HeedSignalGoes
  DEF HeedSignal, TurnOver, Turned, InTurn, OneProbe, OutcomeUnderItsLabel, Goes, Moves, SameRest
<1>4. CASE NextTurn
  BY <1>0, <1>1, <1>4, NextTurnGoes
  DEF NextTurn, TurnOver, Turned, InTurn, OneProbe, OutcomeUnderItsLabel, Goes, Moves, SameRest
<1>5. CASE ProbeSettled
  BY <1>0, <1>1, <1>5, ProbeSettledGoes
  DEF ProbeSettled, KeepsTurning, Free, Turned, InTurn, OneProbe, OutcomeUnderItsLabel,
      Goes, Moves, SameRest
<1>6. CASE CloseProbe
  BY <1>0, <1>1, <1>6, CloseProbeGoes
  DEF CloseProbe, Turned, InTurn, OneProbe, OutcomeUnderItsLabel, Goes, Moves, SameRest
<1>7. CASE EndSweep
  BY <1>0, <1>1, <1>7, EndSweepGoes
  DEF EndSweep, Turned, InTurn, OneProbe, OutcomeUnderItsLabel, Goes, Moves, SameRest
<1>8. CASE PauseTurns
  BY <1>0, <1>1, <1>8, PauseTurnsGoes
  DEF PauseTurns, Turned, InTurn, OneProbe, OutcomeUnderItsLabel, Goes, Moves, SameRest
<1>9. CASE EndPause
  BY <1>0, <1>1, <1>9, EndPauseGoes
  DEF EndPause, Turned, InTurn, OneProbe, OutcomeUnderItsLabel, Goes, Moves, SameRest
<1>10. CASE AskedAll
  BY <1>0, <1>1, <1>10, AskedAllGoes
  DEF AskedAll, Turned, InTurn, OneProbe, OutcomeUnderItsLabel, Goes, Moves, SameRest
<1>11. CASE NoSweep
  BY <1>0, <1>1, <1>11, NoSweepGoes
  DEF NoSweep, Turned, InTurn, OneProbe, OutcomeUnderItsLabel, Goes, Moves, SameRest
<1> QED
  BY <1>2, <1>3, <1>4, <1>5, <1>6, <1>7, <1>8, <1>9, <1>10, <1>11

(* The turn: feed(), tick() and handlers that return.                      *)
LEMMA OwnerInFlight ==
    ASSUME Good(bms, stack, fate), bms.queue_count <= 1
    PROVE  InFlight(bms) \in {0, Len(fate)}
<1>1. CASE bms.state = "AWAITING" /\ bms.queue_count > 0
  <2>1. bms \in Object /\ Ring(bms, Len(fate)) /\ bms.queue_count = 1 /\ Len(fate) \in Nat
    BY <1>1, CapacityAssumption DEF Good, Sound, Object
  <2>2. 0 \in 0..(bms.queue_count - 1)
    BY <2>1
  <2>3. Queued(bms, 0).ctx = Len(fate)
    <3>1. Queued(bms, 0).ctx = Len(fate) - bms.queue_count + 1 + 0
      BY <2>1, <2>2, Zenon DEF Ring
    <3> QED
      BY <2>1, <3>1
  <2>4. (bms.queue_head + 0) % QUEUE_CAPACITY = bms.queue_head
    <3>1. bms.queue_head \in Slots /\ 0 \in 0..QUEUE_CAPACITY
      BY <2>1, CapacityAssumption DEF Object
    <3>2. (bms.queue_head + 0) % QUEUE_CAPACITY =
             IF bms.queue_head + 0 < QUEUE_CAPACITY THEN bms.queue_head + 0
             ELSE bms.queue_head + 0 - QUEUE_CAPACITY
      BY <3>1, SlotIndex
    <3> QED
      BY <3>1, <3>2, CapacityAssumption DEF Slots
  <2> QED
    BY <1>1, <2>3, <2>4 DEF InFlight, head, Queued
<1>2. CASE ~(bms.state = "AWAITING" /\ bms.queue_count > 0)
  BY <1>2 DEF InFlight
<1> QED
  BY <1>1, <1>2

(* What a turn does to the program's own state.                            *)
Turns ==
    /\ app' \in AppState
    /\ app'.pc = app.pc /\ app'.ask = app.ask /\ app'.i = app.i /\ app'.mine = app.mine
    /\ app'.refused = app.refused /\ app'.g_stop = app.g_stop
    /\ app'.this_probe = 0 => app.this_probe = 0 /\ ~(Len(stack') > Len(stack))

LEMMA PrintedTurns ==
    ASSUME NEW a \in AppState, NEW read, app' = Printed(a, read),
           a.pc = app.pc, a.ask = app.ask, a.i = app.i, a.mine = app.mine,
           a.refused = app.refused, a.g_stop = app.g_stop, a.this_probe = app.this_probe
    PROVE  Turns /\ app'.fed = a.fed
BY PrintedFacts DEF Turns

LEMMA TicksTurn ==
    ASSUME app \in AppState, NEW d \in TickSteps, PumpTicks(d)
    PROVE  Turns /\ app'.fed # -1
<1> DEFINE spent == IF app.pc = "wait" THEN app.spent + d ELSE app.spent
           due == IF app.due > d THEN app.due - d ELSE 0
           a == [app EXCEPT !.fed = 0, !.spent = spent, !.due = due]
<1>1. app' = Printed(a, FALSE)
  BY DEF PumpTicks
<1>2. d \in Nat
  BY TimingAssumption, ClockAssumption DEF Timeout
<1>3. spent \in Nat /\ due \in Nat /\ 0 \in Int
  BY <1>2 DEF AppState
<1> HIDE DEF spent, due
<1>4. a \in AppState
  BY <1>3, TurnType, Zenon
<1>5. /\ a.fed = 0 /\ a.pc = app.pc /\ a.ask = app.ask /\ a.i = app.i /\ a.mine = app.mine
      /\ a.refused = app.refused /\ a.g_stop = app.g_stop /\ a.this_probe = app.this_probe
  BY DEF AppState
<1> HIDE DEF a
<1>6. Turns /\ app'.fed = a.fed
  BY <1>1, <1>4, <1>5, PrintedTurns, Zenon
<1> QED
  BY <1>5, <1>6

LEMMA FeedsTurn ==
    ASSUME app \in AppState, PumpFeeds
    PROVE  Turns /\ app'.fed # -1
<1> DEFINE fed == app.fed + 1
           a == [app EXCEPT !.fed = fed]
<1>1. app' = Printed(a, TRUE)
  BY DEF PumpFeeds
<1>2. fed \in Int /\ fed # -1
  <2>1. ReadBatch \in Nat /\ app.fed \in 0..(ReadBatch - 1)
    BY ExamplesAssumption DEF PumpFeeds
  <2>2. ASSUME NEW x \in 0..(ReadBatch - 1)
        PROVE  x + 1 \in Int /\ x + 1 # -1
    BY <2>1
  <2> QED
    BY <2>1, <2>2
<1> HIDE DEF fed
<1>3. /\ a \in AppState
      /\ a.fed = fed /\ a.pc = app.pc /\ a.ask = app.ask /\ a.i = app.i /\ a.mine = app.mine
      /\ a.refused = app.refused /\ a.g_stop = app.g_stop /\ a.this_probe = app.this_probe
  BY <1>2 DEF AppState
<1> HIDE DEF a
<1> QED
  BY <1>1, <1>2, <1>3, PrintedTurns

LEMMA ReturnTurns ==
    ASSUME app \in AppState, HandlerReturns
    PROVE  Turns /\ app'.fed = app.fed
<1>1. app' = Printed(app, FALSE)
  BY DEF HandlerReturns
<1> QED
  BY <1>1, PrintedTurns, Zenon

(* The activation pushed on an empty stack belongs to the probe.           *)
LEMMA PushedUnderLabel ==
    ASSUME Good(bms, stack, fate), OneProbe, stack = <<>>, Pushes, app'.mine = app.mine
    PROVE  OutcomeUnderItsLabel'
<1>1. SUFFICES ASSUME app.mine # 0, NEW k \in DOMAIN stack'
               PROVE  stack'[k].owner \in {0, app.mine}
  BY DEF OutcomeUnderItsLabel
<1>2. k = 1
  <2>1. stack' = Append(<<>>, stack'[1]) /\ Len(stack) = 0
    BY DEF Pushes
  <2>2. DOMAIN Append(<<>>, stack'[1]) = 1..1
    OBVIOUS
  <2> QED
    BY <1>1, <2>1, <2>2
<1>3. stack'[1].owner = InFlight(bms)
  BY DEF Pushes
<1>4. InFlight(bms) \in {0, app.mine}
  BY <1>1, OwnerInFlight DEF OneProbe
<1> QED
  BY <1>2, <1>3, <1>4

LEMMA DriveTurned ==
    ASSUME Good(bms, stack, fate), Turned, app \in AppState,
           (\E d \in TickSteps : PumpTicks(d)) \/ PumpFeeds
    PROVE  Turned'
<1>1. /\ Turns /\ app'.fed # -1
      /\ stack = <<>> /\ app.pc \in {"wait", "pause", "loop"}
      /\ Feed \/ (\E d \in TickSteps : Tick(d))
  BY TicksTurn, FeedsTurn DEF PumpTicks, PumpFeeds, Turning
<1>2. /\ Spares(bms, bms') /\ Len(fate') = Len(fate)
      /\ Pushes \/ stack' = stack
  BY <1>1, DriveSpares
<1>3. bms.queue_count \in Nat /\ bms'.queue_count \in Nat /\ bms'.queue_count <= bms.queue_count
  BY <1>2, CapacityAssumption DEF Good, Sound, Spares, Object
<1>4. InTurn'
  BY <1>1, <1>2 DEF Turned, InTurn, Turns, Spares
<1>5. OneProbe'
  BY <1>1, <1>2, <1>3 DEF Turned, OneProbe, Turns
<1>6. OutcomeUnderItsLabel'
  <2>1. CASE Pushes
    BY <1>1, <2>1, PushedUnderLabel DEF Turned, Turns
  <2>2. CASE stack' = stack
    BY <1>1, <2>2 DEF OutcomeUnderItsLabel
  <2> QED
    BY <1>2, <2>1, <2>2
<1> QED
  BY <1>4, <1>5, <1>6 DEF Turned

(* What is left on the stack belongs to whom it did.                       *)
LEMMA OwnersStay ==
    ASSUME Good(bms, stack, fate), Return
    PROVE  \A k \in DOMAIN stack' : k \in DOMAIN stack /\ stack'[k].owner = stack[k].owner
<1>0. stack \in Seq(Activation) /\ Len(stack) \in Nat /\ DOMAIN stack = 1..Len(stack)
  BY DEF Good
<1>1. CASE SessionHandlerRuns
  <2>1. /\ stack # <<>> /\ stack' = [stack EXCEPT ![Len(stack)].run = "session"]
    BY <1>1 DEF SessionHandlerRuns
  <2>2. DOMAIN stack' = DOMAIN stack
    BY <1>0, <2>1
  <2>3. ASSUME NEW k \in DOMAIN stack
        PROVE  stack'[k].owner = stack[k].owner
    <3>1. stack[k] \in Activation
      BY <1>0
    <3>2. stack'[k] = stack[k] \/ stack'[k] = [stack[k] EXCEPT !.run = "session"]
      BY <1>0, <2>1
    <3> QED
      BY <3>1, <3>2 DEF Activation
  <2> QED
    BY <2>2, <2>3
<1>2. ASSUME NEW then \in {"return", "complete", "stream"}, EmitReturns(then)
      PROVE  \A k \in DOMAIN stack' : k \in DOMAIN stack /\ stack'[k].owner = stack[k].owner
  <2>1. stack # <<>> /\ stack' = SubSeq(stack, 1, Len(stack) - 1)
    BY <1>2 DEF EmitReturns
  <2> QED
    BY <1>0, <2>1
<1> QED
  BY <1>1, <1>2 DEF Return

LEMMA ReturnTurned ==
    ASSUME Good(bms, stack, fate), Turned, app \in AppState, Between(app), HandlerReturns
    PROVE  Turned'
<1>1. Turns /\ app'.fed = app.fed /\ Return
  BY ReturnTurns DEF HandlerReturns
<1>2. Spares(bms, bms') /\ fate' = fate
  BY <1>1, ReturnSpares
<1>3. stack # <<>>
  BY <1>1 DEF Return, SessionHandlerRuns, EmitReturns
<1>4. bms.queue_count \in Nat /\ bms'.queue_count \in Nat /\ bms'.queue_count <= bms.queue_count
  BY <1>2, CapacityAssumption DEF Good, Sound, Spares, Object
<1>5. InTurn'
  BY <1>1, <1>2, <1>3 DEF Turned, InTurn, Turns, Spares, Between
<1>6. OneProbe'
  BY <1>1, <1>2, <1>4 DEF Turned, OneProbe, Turns
<1>7. OutcomeUnderItsLabel'
  BY <1>1, OwnersStay DEF Turned, OutcomeUnderItsLabel, Turns
<1> QED
  BY <1>5, <1>6, <1>7 DEF Turned

(* A probe is given up, a signal comes, main() begins.                     *)
LEMMA GiveUpTurned ==
    ASSUME Good(bms, stack, fate), Turned, app \in AppState, GiveUp
    PROVE  Turned'
<1>1. Goes("close", -1, app.spent, app.i, FALSE) /\ Reset /\ stack = <<>> /\ app.pc = "wait"
  BY GiveUpGoes DEF GiveUp, TurnOver
<1>2. bms'.state = "IDLE" /\ bms'.queue_count = 0 /\ Len(fate') = Len(fate) /\ stack' = stack
  BY <1>1, ResetStepFacts
<1>3. bms'.tx_fn = bms.tx_fn
  <2>1. bms \in Object /\ bms' = reset(bms)
    BY <1>1 DEF Good, Sound, Reset
  <2> QED
    BY <2>1 DEF reset, Object
<1>4. InTurn'
  BY <1>1, <1>2, <1>3 DEF Turned, InTurn, Free, Goes, Moves, SameRest
<1>5. OneProbe'
  BY <1>1, <1>2 DEF Turned, OneProbe, Goes, Moves, SameRest
<1>6. OutcomeUnderItsLabel'
  BY <1>1, <1>2 DEF OutcomeUnderItsLabel
<1> QED
  BY <1>4, <1>5, <1>6 DEF Turned

LEMMA SignalTurned ==
    ASSUME Turned, app \in AppState, Signal
    PROVE  Turned'
<1>1. /\ bms' = bms /\ stack' = stack /\ fate' = fate
      /\ app'.pc = app.pc /\ app'.fed = app.fed /\ app'.mine = app.mine /\ app'.ask = app.ask
      /\ app'.refused = app.refused /\ app'.g_stop = TRUE
  BY DEF Signal, Session, AppState
<1> QED
  BY <1>1 DEF Turned, InTurn, OneProbe, OutcomeUnderItsLabel

LEMMA MainTurned ==
    ASSUME Good(bms, stack, fate), Turned, Cranked(app), Main
    PROVE  Turned'
<1>0. bms \in Object /\ app \in AppState /\ app.pc = "main" /\ app.fed = -1
  BY DEF Good, Sound, Cranked, Main, Between
<1>1. Configured
  BY <1>0, MainConfigures
<1>2. /\ bms'.tx_fn /\ Free(bms') /\ bms'.queue_count = 0 /\ stack = <<>> /\ app.mine = 0
  BY <1>0, <1>1 DEF Configured, SameQueue, Free, Turned, InTurn, OneProbe
<1>3. Len(Startup) <= QUEUE_CAPACITY /\ Len(Startup) \in Nat /\ QUEUE_CAPACITY \in Nat
  BY ExamplesAssumption, CapacityAssumption
<1>4. Asking("probe", app.ask, app.fed, app.refused) \/ Asking("ask", Startup, app.fed, app.refused)
  BY <1>0, MainAsks
<1>5. InTurn'
  BY <1>0, <1>1, <1>2, <1>3, <1>4 DEF Turned, InTurn, Asking, Configured
<1>6. OneProbe' /\ OutcomeUnderItsLabel'
  BY <1>2, <1>4 DEF OneProbe, OutcomeUnderItsLabel, Asking
<1> QED
  BY <1>5, <1>6 DEF Turned

LEMMA StartSweepTurned ==
    ASSUME Good(bms, stack, fate), Turned, app \in AppState, StartSweep
    PROVE  Turned'
<1>1. /\ Asking("ask", Sweep, -1, app.refused)
      /\ app.pc = "loop" /\ stack = <<>> /\ bms.queue_count = 0
      /\ bms' = bms /\ stack' = stack /\ fate' = fate
  BY StartSweepAsks DEF StartSweep, SweepDue, Session
<1>2. Len(Sweep) <= QUEUE_CAPACITY /\ Len(Sweep) \in Nat
  BY ExamplesAssumption
<1>3. InTurn'
  BY <1>1, <1>2 DEF Turned, InTurn, Asking
<1>4. OneProbe' /\ OutcomeUnderItsLabel'
  BY <1>1 DEF Turned, OneProbe, OutcomeUnderItsLabel, Asking
<1> QED
  BY <1>3, <1>4 DEF Turned

(* A known request is accepted when there is a TX handler and a free slot. *)
LEMMA RoomMeansQueued ==
    ASSUME bms \in Object, bms.tx_fn, NEW id \in Requests, bms.queue_count < QUEUE_CAPACITY
    PROVE  queue_status(bms, id) = "QUEUED"
BY CapacityAssumption DEF queue_status, Requests, Object

(* A poll takes one slot.                                                  *)
LEMMA AskSpares ==
    ASSUME Good(bms, stack, fate), NEW id \in Requests, NEW fn \in BOOLEAN, Poll(Request0(id, fn))
    PROVE  /\ bms'.tx_fn = bms.tx_fn /\ bms'.queue_count <= bms.queue_count + 1
           /\ bms'.queue_count \in Nat
           /\ stack' = stack /\ Len(fate') = Len(fate) + 1
<1> DEFINE req == [id |-> id, on |-> FALSE, hint |-> 0, fn |-> fn, ctx |-> Len(fate) + 1]
           queue == [bms.queue EXCEPT
                        ![(bms.queue_head + bms.queue_count) % QUEUE_CAPACITY] = req]
           filed == Filing(bms, req)
<1>0. /\ Sound(bms, Len(fate)) /\ bms \in Object /\ Len(fate) \in Nat /\ fate \in Seq(Fates)
      /\ bms.queue_count \in Nat
  BY CapacityAssumption DEF Good, Sound, Object
<1>1. req \in Request /\ req.ctx = Len(fate) + 1
  BY <1>0 DEF Request, Requests, Byte
<1>2. /\ bms.queue_count < QUEUE_CAPACITY /\ stack' = stack /\ fate' = Append(fate, "pending")
      /\ bms' = enqueue(bms, req)
  <2>1. queue_status(bms, id) = "QUEUED" /\ stack' = stack /\ fate' = Append(fate, "pending")
        /\ bms' = enqueue(bms, req)
    BY DEF Poll, Request0
  <2>2. ~(bms.queue_count >= QUEUE_CAPACITY)
    BY <2>1 DEF queue_status
  <2> QED
    BY <1>0, <2>1, <2>2, CapacityAssumption
<1>3. filed = [bms EXCEPT !.queue = queue, !.queue_count = bms.queue_count + 1]
  BY <1>0 DEF Filing, Object
<1>4. bms' = IF bms.dispatching THEN filed ELSE pump(filed)
  BY <1>2 DEF enqueue, Filing
<1> HIDE DEF req
<1>5. Sound(filed, Len(fate) + 1) /\ filed \in Object /\ filed.queue_count = bms.queue_count + 1
  BY <1>0, <1>1, <1>2, FilingSound DEF Sound
<1>6. filed.tx_fn = bms.tx_fn
  <2> HIDE DEF queue, filed
  <2> QED
    BY <1>0, <1>3 DEF Object
<1> HIDE DEF filed
<1>7. Spares(filed, pump(filed))
  BY <1>5, PumpSpares
<1>8. bms' \in Object /\ bms'.tx_fn = bms.tx_fn /\ bms'.queue_count <= bms.queue_count + 1
  BY <1>0, <1>4, <1>5, <1>6, <1>7 DEF Spares
<1> QED
  BY <1>0, <1>2, <1>8, CapacityAssumption DEF Object

LEMMA StartProbeAsks ==
    ASSUME Good(bms, stack, fate), InTurn, Cranked(app), StartProbe
    PROVE  /\ Poll(Request0(Schedule[app.i], FALSE)) /\ Schedule[app.i] \in Requests
           /\ stack = <<>> /\ Free(bms)
           /\ app' = Printed(Sent, FALSE)
           /\ app'.pc = "wait" /\ app'.fed = -1 /\ app'.mine = Len(fate) + 1 /\ app'.i = app.i
           /\ app'.refused = 0
<1>0. /\ bms \in Object /\ app \in AppState /\ app.pc = "probe" /\ app.fed = -1 /\ ~app.g_stop
      /\ Len(fate) \in Nat
  BY DEF Good, Sound, Cranked, StartProbe, Between
<1>1. Schedule[app.i] \in Requests
  BY <1>0, AppFields, ScheduleIds DEF StartProbe
<1>2. stack = <<>> /\ bms.tx_fn /\ bms.queue_count < QUEUE_CAPACITY /\ app.refused = 0 /\ Free(bms)
  BY <1>0, CapacityAssumption DEF InTurn, Free
<1>3. queue_status(bms, Schedule[app.i]) = "QUEUED"
  BY <1>0, <1>1, <1>2, RoomMeansQueued
<1>4. Poll(Request0(Schedule[app.i], FALSE)) /\ app' = Printed(Sent, FALSE)
  BY <1>3 DEF StartProbe, Sent
<1>5. /\ Sent \in AppState /\ Sent.pc = "wait" /\ Sent.fed = -1 /\ Sent.mine = Len(fate) + 1
      /\ Sent.i = app.i /\ Sent.refused = 0
  BY <1>0, <1>2, LabelledFacts
<1>6. /\ app'.pc = Sent.pc /\ app'.fed = Sent.fed /\ app'.mine = Sent.mine /\ app'.i = Sent.i
      /\ app'.refused = Sent.refused
  BY <1>4, <1>5, PrintedFacts
<1> QED
  BY <1>1, <1>2, <1>4, <1>5, <1>6

LEMMA StartProbeTurned ==
    ASSUME Good(bms, stack, fate), Turned, Cranked(app), StartProbe
    PROVE  Turned'
<1>1. /\ Poll(Request0(Schedule[app.i], FALSE)) /\ Schedule[app.i] \in Requests
      /\ stack = <<>> /\ Free(bms) /\ bms.tx_fn
      /\ app'.pc = "wait" /\ app'.fed = -1 /\ app'.mine = Len(fate) + 1 /\ app'.refused = 0
  BY StartProbeAsks DEF Turned, InTurn, StartProbe
<1>2. FALSE \in BOOLEAN
  OBVIOUS
<1>3. /\ bms'.tx_fn = bms.tx_fn /\ bms'.queue_count <= bms.queue_count + 1
      /\ bms'.queue_count \in Nat
      /\ stack' = stack /\ Len(fate') = Len(fate) + 1
  BY <1>1, <1>2, AskSpares, Zenon
<1>4. bms'.queue_count <= 1 /\ app'.mine # 0
  <2>1. Len(fate) \in Nat
    BY DEF Good
  <2> QED
    BY <1>1, <1>3, <2>1 DEF Free
<1> QED
  BY <1>1, <1>3, <1>4 DEF Turned, InTurn, OneProbe, OutcomeUnderItsLabel

LEMMA AskNextTurned ==
    ASSUME Good(bms, stack, fate), Turned, Cranked(app), AskNext
    PROVE  Turned'
<1>0. /\ bms \in Object /\ app \in AppState /\ app.pc = "ask" /\ app.fed = -1
      /\ bms.queue_count \in Nat /\ QUEUE_CAPACITY \in Nat
  BY CapacityAssumption DEF Good, Sound, Object, Cranked, AskNext, Between
<1>1. app.ask # <<>> /\ app.ask \in Seq(Requests) /\ Head(app.ask) \in Requests
  BY <1>0, AskNextAsks, AppFields
<1>2. Len(app.ask) \in Nat /\ Len(app.ask) > 0 /\ Len(Tail(app.ask)) = Len(app.ask) - 1
  BY <1>1
<1>3. /\ stack = <<>> /\ bms.tx_fn /\ app.mine = 0 /\ app.refused = 0
      /\ bms.queue_count + Len(app.ask) <= QUEUE_CAPACITY
  BY <1>0 DEF Turned, InTurn, OneProbe
<1>4. bms.queue_count < QUEUE_CAPACITY
  BY <1>0, <1>2, <1>3
<1>5. queue_status(bms, Head(app.ask)) = "QUEUED"
  BY <1>0, <1>1, <1>3, <1>4, RoomMeansQueued
<1>6. /\ Poll(Request0(Head(app.ask), app.sweep = 0))
      /\ Asking("ask", Tail(app.ask), app.fed, app.refused)
  BY <1>0, <1>5, AskNextAsks DEF AskNext
<1>7. (app.sweep = 0) \in BOOLEAN
  OBVIOUS
<1>8. /\ bms'.tx_fn = bms.tx_fn /\ bms'.queue_count <= bms.queue_count + 1
      /\ bms'.queue_count \in Nat /\ stack' = stack
  BY <1>1, <1>6, <1>7, AskSpares
<1>9. app'.pc = "ask" /\ app'.fed = -1 /\ app'.ask = Tail(app.ask) /\ app'.refused = 0 /\ app'.mine = 0
  BY <1>0, <1>3, <1>6 DEF Asking
<1>10. bms'.queue_count + Len(app'.ask) <= QUEUE_CAPACITY
  BY <1>0, <1>2, <1>3, <1>8, <1>9
<1> QED
  BY <1>3, <1>8, <1>9, <1>10 DEF Turned, InTurn, OneProbe, OutcomeUnderItsLabel

LEMMA NextTurned ==
    ASSUME Good(bms, stack, fate), Cranked(app), Turned, ExamplesNext
    PROVE  Turned'
<1>0. bms \in Object /\ app \in AppState /\ Between(app)
  BY DEF Good, Sound, Cranked
<1>1. CASE Main
  BY <1>1, MainTurned
<1>2. CASE Pump
  BY <1>0, <1>2, DriveTurned, ReturnTurned, GoesTurned DEF Pump
<1>3. CASE DumpAll
  BY <1>0, <1>3, StartProbeTurned, GiveUpTurned, GoesTurned DEF DumpAll
<1>4. CASE PollLoop
  BY <1>0, <1>4, AskNextTurned, StartSweepTurned, GoesTurned DEF PollLoop
<1>5. CASE Signal
  BY <1>0, <1>5, SignalTurned
<1> QED
  BY <1>1, <1>2, <1>3, <1>4, <1>5 DEF ExamplesNext, Program

LEMMA TurnedInvariant == ExamplesSpec => []Turned
<1>1. ExamplesInit => Turned
  <2> SUFFICES ASSUME ExamplesInit
               PROVE  Turned
    OBVIOUS
  <2>1. stack = <<>> /\ bms.state = "IDLE" /\ bms.queue_count = 0
    BY DEF ExamplesInit, Init
  <2>2. app.pc = "main" /\ app.refused = 0 /\ app.mine = 0
    BY DEF ExamplesInit
  <2> QED
    BY <2>1, <2>2 DEF Turned, InTurn, OneProbe, OutcomeUnderItsLabel, Free
<1>2. ASSUME Good(bms, stack, fate), Cranked(app), Turned, [ExamplesNext]_exampleVars
      PROVE  Turned'
  <2>1. CASE UNCHANGED exampleVars
    BY <1>2, <2>1 DEF exampleVars, Turned, InTurn, OneProbe, OutcomeUnderItsLabel
  <2>2. CASE ExamplesNext
    BY <1>2, <2>2, NextTurned
  <2> QED
    BY <1>2, <2>1, <2>2
<1> QED
  BY <1>1, <1>2, CrankedInvariant, PTL DEF ExamplesSpec

(* No poll of dump_all or poll_loop is turned down, for every schedule,    *)
(* and every start-up and sweep that fit into the ring.                    *)
THEOREM EveryPollAccepted == ExamplesSpec => []NothingRefused
<1>1. Turned => NothingRefused
  BY DEF Turned, InTurn, NothingRefused
<1> QED
  BY <1>1, TurnedInvariant, PTL

(* No event of an earlier request is printed under a probe's label, also   *)
(* after a probe was given up half-way.                                    *)
THEOREM EventsUnderTheirLabel == ExamplesSpec => []OutcomeUnderItsLabel
<1>1. Turned => OutcomeUnderItsLabel
  BY DEF Turned
<1> QED
  BY <1>1, TurnedInvariant, PTL

-----------------------------------------------------------------------------
(* "none stored".                                                          *)

(* Only the loops of the programs call feed() and tick().                  *)
LEMMA ExamplesFlat ==
    ASSUME Good(bms, stack, fate), app \in AppState, Flat, ExamplesNext
    PROVE  Flat'
<1>0. bms \in Object /\ Good(bms', stack', fate')
  BY ExamplesGood DEF Good, Sound
<1>1. CASE Main
  BY <1>0, <1>1, MainConfigures DEF Configured, Flat
<1>2. CASE (\E d \in TickSteps : PumpTicks(d)) \/ PumpFeeds
  <2>1. stack = <<>> /\ (Feed \/ \E d \in TickSteps : Tick(d))
    BY <1>2 DEF PumpTicks, PumpFeeds, Turning
  <2>2. Emits \/ Leaves \/ Retries \/ Ends
    BY <2>1, FeedShape, TickShape, TimingAssumption
  <2> QED
    BY <1>0, <2>1, <2>2, KeepsFlat
<1>3. CASE HandlerReturns
  <2>1. SessionHandlerRuns \/ \E then \in Continuations : EmitReturns(then)
    BY <1>3 DEF HandlerReturns, Return, Continuations
  <2>2. Emits => stack = <<>>
    <3>1. Len(stack') <= Len(stack) /\ Len(stack) \in Nat /\ Len(stack') \in Nat
      BY <1>0, <1>3, ReturnSpares DEF HandlerReturns, Good
    <3>2. ASSUME Emits
          PROVE  Len(stack') = Len(stack) + 1
      <4>1. PICK b \in Object, event \in Event, then \in Continuations :
                Untouched(bms, b) /\ emit(b, event, then)
        BY <3>2, Zenon DEF Emits
      <4>2. Good(b, stack, fate)
        BY <4>1, UntouchedSound DEF Good
      <4> QED
        BY <4>1, <4>2, EmitFacts
    <3> QED
      BY <3>1, <3>2
  <2> QED
    BY <1>0, <2>1, <2>2, KeepsFlat
<1>4. CASE Asks
  <2>1. bms'.dispatching = bms.dispatching /\ stack' = stack
    BY <1>4, RequestArgs, AskFacts DEF Asks
  <2> QED
    BY <2>1 DEF Flat
<1>5. CASE GiveUp
  <2>1. bms'.dispatching = bms.dispatching /\ stack' = stack
    BY <1>5, ResetStepFacts DEF GiveUp
  <2> QED
    BY <2>1 DEF Flat
<1>6. CASE UNCHANGED Session
  BY <1>6 DEF Session, Flat
<1>7. CASE StartProbe
  <2>1. Schedule[app.i] \in Requests /\ FALSE \in BOOLEAN
    BY <1>7, AppFields, ScheduleIds DEF StartProbe
  <2>2. Poll(Request0(Schedule[app.i], FALSE)) => Asks
    BY <2>1, Zenon DEF Asks
  <2> QED
    BY <1>4, <1>6, <1>7, <2>2 DEF StartProbe
<1>8. CASE AskNext
  <2>1. Head(app.ask) \in Requests /\ (app.sweep = 0) \in BOOLEAN
    BY <1>8, AskNextAsks
  <2>2. Poll(Request0(Head(app.ask), app.sweep = 0)) => Asks
    BY <2>1, Zenon DEF Asks
  <2> QED
    BY <1>4, <1>6, <1>8, <2>2 DEF AskNext
<1> QED
  BY <1>1, <1>2, <1>3, <1>5, <1>6, <1>7, <1>8
  DEF ExamplesNext, Program, Pump, DumpAll, PollLoop, PumpFails, HeedSignal, NextTurn,
      ProbeSettled, CloseProbe, EndSweep, PauseTurns, EndPause, AskedAll, StartSweep, NoSweep,
      Signal

(* A read of the fault records with no record whole yet: record_len_       *)
(* counts the frames that came in.                                         *)
Gathering(b) ==
    /\ b.heard < 4
    /\ b.state = "AWAITING" => head(b).id = FAULT_RECORDS /\ b.record_len = 7 * b.heard

LEMMA FaultLayout ==
    multiframe_info(FAULT_RECORDS).multi = TRUE /\ multiframe_info(FAULT_RECORDS).streaming = TRUE
BY DEF multiframe_info, Layout, FAULT_RECORDS, ManufacturerName, LongText, Versions,
       CELL_VOLTAGES, CELL_TEMPERATURES

(* A method that leaves the reply, the ring and the state as they are.     *)
SameReply(b, c) ==
    /\ SameQueue(b, c) /\ c.state = b.state
    /\ c.heard = b.heard /\ c.record_len = b.record_len

LEMMA SameReplyGathers ==
    ASSUME NEW b, NEW c, Gathering(b), SameReply(b, c)
    PROVE  Gathering(c)
BY DEF SameReply, Gathering, SameQueue, head

LEMMA TransmitSameReply ==
    ASSUME NEW b \in Object
    PROVE  SameReply(b, transmit(b))
<1> DEFINE new == IF ~b.tx_fn THEN b.sent
                  ELSE [ctx   |-> head(b).ctx,
                        tries |-> IF b.sent.ctx = head(b).ctx THEN b.sent.tries + 1 ELSE 1]
           deadline == (b.now_ms + b.response_timeout_ms) % ClockMod
<1>1. transmit(b) = [b EXCEPT !.sent = new, !.deadline_ms = deadline]
  BY DEF transmit
<1> HIDE DEF new, deadline
<1> QED
  BY <1>1 DEF Object, SameReply, SameQueue

LEMMA AwaitSameReply ==
    ASSUME NEW b \in Object
    PROVE  SameReply(b, await_next_frame(b))
<1> DEFINE deadline == (b.now_ms + b.interframe_timeout_ms) % ClockMod
<1>1. await_next_frame(b) = [b EXCEPT !.deadline_ms = deadline]
  BY DEF await_next_frame
<1> HIDE DEF deadline
<1> QED
  BY <1>1 DEF Object, SameReply, SameQueue

LEMMA AtSameReply ==
    ASSUME bms \in Object, NEW d
    PROVE  SameReply(bms, At(d))
<1> DEFINE now == (bms.now_ms + d) % ClockMod
<1>1. At(d) = [bms EXCEPT !.now_ms = now]
  BY DEF At
<1> HIDE DEF now
<1> QED
  BY <1>1 DEF Object, SameReply, SameQueue

(* A frame of a record that is not its last.                               *)
LEMMA FileRecordGathers ==
    ASSUME NEW b \in Object, Gathering(b), b.state = "AWAITING",
           FileRecord(b).record_len < FAULT_BUFFER_LEN
    PROVE  Gathering(FileRecord(b)) /\ FileRecord(b) \in Object
<1> DEFINE len == IF b.record_len + 7 > FAULT_BUFFER_LEN THEN FAULT_BUFFER_LEN
                  ELSE b.record_len + 7
           frames == (b.frames_seen + 1) % 256
<1>1. FileRecord(b) = [b EXCEPT !.record_len = len, !.frames_seen = frames, !.heard = b.heard + 1]
  BY DEF FileRecord, Object
<1>2. len < 28 => (len = b.record_len + 7 /\ b.record_len < 21)
  BY DEF FAULT_BUFFER_LEN, Object
<1> HIDE DEF len, frames
<1>3. Untouched(b, FileRecord(b)) /\ FileRecord(b).record_len = len
      /\ FileRecord(b).heard = b.heard + 1
  BY <1>1, FileRecordFacts DEF Object
<1>4. len = b.record_len + 7 /\ b.record_len < 21
  BY <1>2, <1>3 DEF FAULT_BUFFER_LEN
<1>5. b.record_len = 7 * b.heard /\ b.heard \in Nat
  BY DEF Gathering, Object
<1>6. b.heard + 1 < 4 /\ len = 7 * (b.heard + 1)
  BY <1>4, <1>5
<1> QED
  BY <1>3, <1>6 DEF Gathering, Untouched, SameQueue, head

(* The end of the stream retires the only request there is.                *)
LEMMA CompleteGathers ==
    ASSUME NEW b, NEW n \in Nat, Sound(b, n), b.queue_count <= 1, b.state = "AWAITING",
           Gathering(b)
    PROVE  Gathering(complete(b))
<1> DEFINE h == (b.queue_head + 1) % QUEUE_CAPACITY
           idle == [b EXCEPT !.queue_head = h, !.queue_count = b.queue_count - 1, !.state = "IDLE"]
<1>0. b \in Object /\ b.queue_count = 1
  BY CapacityAssumption DEF Sound, Object
<1>1. complete(b) = pump(idle)
  BY <1>0 DEF complete, pop, Object
<1> HIDE DEF h
<1>2. idle.queue_count = 0 /\ idle.state = "IDLE" /\ idle.heard = b.heard
  BY <1>0 DEF Object
<1> HIDE DEF idle
<1>3. complete(b) = idle
  BY <1>1, <1>2 DEF pump
<1> QED
  BY <1>2, <1>3 DEF Gathering

(* feed() and tick(), when they report nothing.                            *)
LEMMA EmitReports ==
    ASSUME stack \in Seq(Activation), NEW b, NEW event, NEW then, emit(b, event, then)
    PROVE  Len(stack') > Len(stack)
<1>1. \E act : stack' = Append(stack, act)
  BY DEF emit
<1>2. PICK act : stack' = Append(stack, act)
  BY <1>1
<1>3. Len(Append(stack, act)) = Len(stack) + 1 /\ Len(stack) \in Nat
  OBVIOUS
<1> QED
  BY <1>2, <1>3

LEMMA FeedGathers ==
    ASSUME Good(bms, stack, fate), bms.queue_count <= 1, Gathering(bms), Feed,
           ~(Len(stack') > Len(stack))
    PROVE  Gathering(bms') /\ stack' = stack
<1>0. bms \in Object /\ Sound(bms, Len(fate)) /\ Len(fate) \in Nat /\ stack \in Seq(Activation)
  BY DEF Good, Sound
<1>1. \A b, event, then : ~emit(b, event, then)
  BY <1>0, EmitReports, Zenon
<1>2. PICK f \in Frames : HandleMultiMore(f) \/ HandleStreamEnd(f) \/ HandleStreamMore(f)
  BY <1>1, Zenon
  DEF Feed, OnFrame, OnFrameError, RejectIdle, RejectSource, RejectId, HandleSingle,
      RejectFrameNo, HandleMultiLast, finish_multi, HandleStreamRecord
<1>3. bms.state = "AWAITING" /\ f.id = FAULT_RECORDS
  BY <1>2 DEF HandleMultiMore, HandleStreamEnd, HandleStreamMore, AcceptFrame, AcceptRecord,
              Reply, Gathering
<1>4. CASE HandleMultiMore(f)
  BY <1>3, <1>4, FaultLayout DEF HandleMultiMore, AcceptFrame, Reply
<1>5. CASE HandleStreamEnd(f)
  BY <1>0, <1>3, <1>5, CompleteGathers DEF HandleStreamEnd
<1>6. CASE HandleStreamMore(f)
  <2>1. FileRecord(bms).record_len < FAULT_BUFFER_LEN /\ bms' = await_next_frame(FileRecord(bms))
        /\ stack' = stack
    BY <1>6 DEF HandleStreamMore
  <2>2. Gathering(FileRecord(bms)) /\ FileRecord(bms) \in Object
    BY <1>0, <1>3, <2>1, FileRecordGathers
  <2> QED
    BY <2>1, <2>2, AwaitSameReply, SameReplyGathers
<1> QED
  BY <1>2, <1>4, <1>5, <1>6

LEMMA RetriesLeft ==
    ASSUME NEW b \in Object, b.retries < b.max_retries
    PROVE  b.retries + 1 \in Byte
BY DEF Object, Byte

LEMMA TickGathers ==
    ASSUME Good(bms, stack, fate), Gathering(bms), NEW d \in TickSteps, Tick(d),
           ~(Len(stack') > Len(stack))
    PROVE  Gathering(bms') /\ stack' = stack
<1>0. bms \in Object /\ stack \in Seq(Activation) /\ d \in Timeout
  BY TimingAssumption DEF Good, Sound
<1>1. \A b, event, then : ~emit(b, event, then)
  BY <1>0, EmitReports, Zenon
<1>2. TickQuiet(d) \/ TickRetries(d)
  BY <1>1, Zenon DEF Tick, TickFinishes, TickTruncates, TickTimesOut, finish_multi
<1>3. At(d) \in Object /\ SameReply(bms, At(d)) /\ At(d).retries = bms.retries
  BY <1>0, AtFacts, AtSameReply DEF Untouched
<1>4. CASE TickQuiet(d)
  BY <1>3, <1>4, SameReplyGathers DEF TickQuiet
<1>5. CASE TickRetries(d)
  <2> DEFINE again == [At(d) EXCEPT !.retries = At(d).retries + 1]
  <2>0. bms.retries < bms.max_retries
    BY <1>5, Zenon DEF TickRetries
  <2>1. bms.retries + 1 \in Byte
    BY <1>0, <2>0, RetriesLeft
  <2>2. again \in Object /\ SameReply(bms, again)
    BY <1>3, <2>1 DEF Object, SameReply, SameQueue
  <2>3. bms' = transmit(again) /\ stack' = stack
    BY <1>5 DEF TickRetries
  <2> HIDE DEF again
  <2>4. Gathering(again) /\ SameReply(again, transmit(again))
    BY <2>2, SameReplyGathers, TransmitSameReply
  <2> QED
    BY <2>3, <2>4, SameReplyGathers
<1> QED
  BY <1>2, <1>4, <1>5

(* The probe goes out at once, and nothing of its reply has been heard.    *)
LEMMA PumpBegins ==
    ASSUME NEW b \in Object, b.state = "IDLE", b.queue_count > 0, head(b).id = FAULT_RECORDS
    PROVE  Gathering(pump(b))
<1> DEFINE started == [b EXCEPT !.state = "AWAITING"]
           items == ItemsExpected(started)
           frames == FramesExpected(started)
           begun == begin_awaiting(started)
<1>1. started \in Object /\ SameQueue(b, started) /\ head(started).id = FAULT_RECORDS
  BY DEF Object, SameQueue, head
<1>2. pump(b) = transmit(begun)
  BY DEF pump, Object
<1>3. begun = [started EXCEPT !.seen_mask = {}, !.frames_seen = 0, !.record_len = 0,
                              !.retries = 0, !.heard = 0, !.expected_items = items,
                              !.expected_frames = frames]
  BY DEF begin_awaiting
<1> HIDE DEF started, items, frames, begun
<1>4. begun \in Object /\ SameQueue(started, begun)
  BY <1>1, BeginAwaitingFacts DEF begun
<1>5. begun.heard = 0 /\ begun.record_len = 0
  BY <1>1, <1>3 DEF Object
<1>6. Gathering(begun)
  BY <1>1, <1>4, <1>5 DEF Gathering, SameQueue, head
<1> QED
  BY <1>2, <1>4, <1>6, TransmitSameReply, SameReplyGathers

LEMMA AskGathers ==
    ASSUME Good(bms, stack, fate), Free(bms), bms.dispatching = FALSE,
           NEW fn \in BOOLEAN, Poll(Request0(FAULT_RECORDS, fn))
    PROVE  Gathering(bms')
<1> DEFINE req == [id |-> FAULT_RECORDS, on |-> FALSE, hint |-> 0, fn |-> fn,
                   ctx |-> Len(fate) + 1]
           queue == [bms.queue EXCEPT ![bms.queue_head] = req]
           filed == Filing(bms, req)
<1>0. /\ Sound(bms, Len(fate)) /\ bms \in Object /\ Len(fate) \in Nat
      /\ bms.queue_count = 0 /\ bms.state = "IDLE" /\ QUEUE_CAPACITY \in Nat /\ QUEUE_CAPACITY > 0
      /\ bms.queue_head \in Slots
  BY CapacityAssumption DEF Good, Sound, Object, Free
<1>1. req \in Request /\ req.ctx = Len(fate) + 1 /\ req.id = FAULT_RECORDS
  BY <1>0 DEF Request, Byte, FAULT_RECORDS
<1>2. bms' = pump(filed)
  BY DEF Poll, Request0, enqueue, Filing
<1>3. (bms.queue_head + bms.queue_count) % QUEUE_CAPACITY = bms.queue_head
  BY <1>0 DEF Slots
<1>4. filed = [bms EXCEPT !.queue = queue, !.queue_count = 1]
  <2>1. filed = [bms EXCEPT !.queue = [bms.queue EXCEPT
                                ![(bms.queue_head + bms.queue_count) % QUEUE_CAPACITY] = req],
                            !.queue_count = bms.queue_count + 1]
    BY <1>0 DEF Filing, Object
  <2>2. bms.queue_count + 1 = 1
    BY <1>0
  <2> QED
    BY <1>3, <2>1, <2>2
<1> HIDE DEF req
<1>5. filed \in Object /\ filed.state = "IDLE" /\ filed.queue_count = 1
  BY <1>0, <1>1, FilingSound DEF Sound
<1>6. head(filed) = req
  <2>1. queue[bms.queue_head] = req
    BY <1>0 DEF Object
  <2> HIDE DEF queue, filed
  <2>2. filed.queue = queue /\ filed.queue_head = bms.queue_head
    BY <1>0, <1>4 DEF Object
  <2> QED
    BY <2>1, <2>2 DEF head
<1> HIDE DEF filed
<1>7. filed.queue_count > 0
  BY <1>5
<1> QED
  BY <1>1, <1>2, <1>5, <1>6, <1>7, PumpBegins

(* While the fault records are waited for and nothing has been printed.    *)
Collecting ==
    app.pc \in {"wait", "close"} /\ Schedule[app.i] = FAULT_RECORDS /\ app.this_probe = 0 =>
        stack = <<>> /\ Gathering(bms)

Kept == Flat /\ Collecting

(* The program moves on within the probe, or to where nothing is awaited.  *)
LEMMA GoesCollects ==
    ASSUME app \in AppState, Collecting,
           \/ PumpFails \/ HeedSignal \/ NextTurn \/ ProbeSettled \/ CloseProbe \/ EndSweep
           \/ PauseTurns \/ EndPause \/ AskedAll \/ NoSweep
    PROVE  Collecting'
<1>0. bms' = bms /\ stack' = stack
  BY DEF PumpFails, HeedSignal, NextTurn, ProbeSettled, CloseProbe, EndSweep, PauseTurns,
         EndPause, AskedAll, NoSweep, Session
<1>1. CASE HeedSignal \/ NextTurn \/ ProbeSettled
  <2>1. app'.i = app.i /\ app'.this_probe = app.this_probe /\ app.pc = "wait"
    BY <1>1, HeedSignalGoes, NextTurnGoes, ProbeSettledGoes
    DEF HeedSignal, NextTurn, ProbeSettled, TurnOver, Goes, Moves, SameRest
  <2> QED
    BY <1>0, <2>1 DEF Collecting
<1>2. CASE PumpFails \/ CloseProbe \/ EndSweep
  <2>1. app'.pc \notin {"wait", "close"}
    BY <1>2, PumpFailsGoes, CloseProbeGoes, EndSweepGoes DEF Goes, Moves
  <2> QED
    BY <2>1 DEF Collecting
<1>3. CASE PauseTurns \/ EndPause \/ AskedAll \/ NoSweep
  <2>1. app'.pc \notin {"wait", "close"}
    BY <1>3, PauseTurnsGoes, EndPauseGoes, AskedAllGoes, NoSweepGoes
    DEF PauseTurns, NoSweep, Goes, Moves
  <2> QED
    BY <2>1 DEF Collecting
<1> QED
  BY <1>1, <1>2, <1>3

LEMMA DriveCollects ==
    ASSUME Good(bms, stack, fate), app \in AppState, Turned, Collecting,
           (\E d \in TickSteps : PumpTicks(d)) \/ PumpFeeds
    PROVE  Collecting'
<1>1. Turns /\ (Feed \/ \E d \in TickSteps : Tick(d))
  BY TicksTurn, FeedsTurn DEF PumpTicks, PumpFeeds
<1>2. SUFFICES ASSUME app'.pc \in {"wait", "close"}, Schedule[app'.i] = FAULT_RECORDS,
                      app'.this_probe = 0
               PROVE  stack' = <<>> /\ Gathering(bms')
  BY DEF Collecting
<1>3. stack = <<>> /\ Gathering(bms) /\ ~(Len(stack') > Len(stack)) /\ app.pc \in {"wait", "close"}
  BY <1>1, <1>2 DEF Turns, Collecting
<1>4. bms.queue_count <= 1
  BY <1>3 DEF Turned, OneProbe
<1> QED
  BY <1>1, <1>3, <1>4, FeedGathers, TickGathers

LEMMA GiveUpCollects ==
    ASSUME Good(bms, stack, fate), app \in AppState, Collecting, GiveUp
    PROVE  Collecting'
<1>1. /\ app'.i = app.i /\ app'.this_probe = app.this_probe /\ app.pc = "wait"
      /\ bms' = reset(bms) /\ stack' = stack /\ bms \in Object
  BY GiveUpGoes DEF GiveUp, TurnOver, Reset, Goes, Moves, SameRest, Good, Sound
<1>2. bms'.state = "IDLE" /\ bms'.heard = bms.heard
  BY <1>1 DEF reset, Object
<1> QED
  BY <1>1, <1>2 DEF Collecting, Gathering

LEMMA StartProbeCollects ==
    ASSUME Good(bms, stack, fate), Turned, Cranked(app), Flat, StartProbe
    PROVE  Collecting'
<1>1. /\ Poll(Request0(Schedule[app.i], FALSE))
      /\ stack = <<>> /\ Free(bms) /\ app'.i = app.i
  BY StartProbeAsks DEF Turned
<1>2. stack' = <<>> /\ bms.dispatching = FALSE /\ FALSE \in BOOLEAN
  BY <1>1 DEF Poll, Flat
<1>3. Schedule[app.i] = FAULT_RECORDS => Gathering(bms')
  BY <1>1, <1>2, AskGathers, Zenon
<1> QED
  BY <1>1, <1>2, <1>3 DEF Collecting

LEMMA NextCollects ==
    ASSUME Good(bms, stack, fate), Cranked(app), Turned, Flat, Collecting, ExamplesNext
    PROVE  Collecting'
<1>0. bms \in Object /\ app \in AppState
  BY DEF Good, Sound, Cranked
<1>1. CASE Main
  <2>1. app'.pc \in {"probe", "ask"}
    BY <1>0, <1>1, MainAsks DEF Asking
  <2> QED
    BY <2>1 DEF Collecting
<1>2. CASE HandlerReturns
  <2>1. Turns /\ stack # <<>>
    BY <1>0, <1>2, ReturnTurns DEF HandlerReturns, Return, SessionHandlerRuns, EmitReturns
  <2> QED
    BY <2>1 DEF Collecting, Turns
<1>3. CASE AskNext \/ StartSweep
  <2>1. app'.pc = "ask"
    BY <1>0, <1>3, AskNextAsks, StartSweepAsks DEF Asking, AskNext
  <2> QED
    BY <2>1 DEF Collecting
<1>4. CASE Signal
  <2>1. /\ bms' = bms /\ stack' = stack /\ app'.pc = app.pc /\ app'.i = app.i
        /\ app'.this_probe = app.this_probe
    BY <1>0, <1>4 DEF Signal, Session, AppState
  <2> QED
    BY <2>1 DEF Collecting
<1>5. CASE Pump
  BY <1>0, <1>2, <1>5, DriveCollects, GoesCollects DEF Pump
<1>6. CASE DumpAll
  BY <1>0, <1>6, StartProbeCollects, GiveUpCollects, GoesCollects DEF DumpAll
<1>7. CASE PollLoop
  BY <1>0, <1>3, <1>7, GoesCollects DEF PollLoop
<1> QED
  BY <1>1, <1>4, <1>5, <1>6, <1>7 DEF ExamplesNext, Program

LEMMA KeptInvariant == ExamplesSpec => []Kept
<1>1. ExamplesInit => Kept
  BY DEF ExamplesInit, Init, Kept, Flat, Collecting
<1>2. ASSUME Good(bms, stack, fate), Cranked(app), Turned, Kept, [ExamplesNext]_exampleVars
      PROVE  Kept'
  <2>1. CASE UNCHANGED exampleVars
    BY <1>2, <2>1 DEF exampleVars, Kept, Flat, Collecting, Gathering, head
  <2>2. CASE ExamplesNext
    BY <1>2, <2>2, ExamplesFlat, NextCollects DEF Kept, Cranked
  <2> QED
    BY <1>2, <2>1, <2>2
<1> QED
  BY <1>1, <1>2, CrankedInvariant, TurnedInvariant, PTL DEF ExamplesSpec

(* "none stored" is said of the fault records only when no record came in  *)
(* whole, whatever the pack sent and however the probe ended.              *)
THEOREM NoneStoredMeansNone == ExamplesSpec => []NoneStoredIsSaidRightly
<1>1. Kept => NoneStoredIsSaidRightly
  BY DEF Kept, Collecting, Gathering, NoneStoredIsSaidRightly
<1> QED
  BY <1>1, KeptInvariant, PTL
=============================================================================
