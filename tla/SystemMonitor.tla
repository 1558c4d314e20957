--------------------------- MODULE SystemMonitor ----------------------------
(***************************************************************************)
(* The monitor of the machine's load (app/agents/monitors/system.py): once *)
(* a cycle it reads the load, raises an alarm when a threshold is crossed, *)
(* warns of a load that keeps rising towards it, and reports its status.   *)
(***************************************************************************)
EXTENDS Naturals, Sequences

CONSTANTS
  Readings,   \* values of the load
  Threshold,  \* the threshold of every metric
  Near,       \* the share of it from which a rise is worth a warning
  Window,     \* _TREND_WINDOW
  MinRise     \* _TREND_SLOPE_THRESHOLD, over a whole window

VARIABLES
  cpu,         \* _cpu_history
  ram,         \* _ram_history
  breached,    \* _was_breached
  trendWarned, \* _trend_warned
  told         \* history: alarms of this overload, warnings since it began or ended

vars == <<cpu, ram, breached, trendWarned, told>>

Init ==
  /\ cpu = <<>> /\ ram = <<>> /\ breached = FALSE /\ trendWarned = FALSE
  /\ told = [alarms |-> 0, warnings |-> 0]

(* deque(maxlen): the oldest reading leaves a full window.                 *)
Remember(history, x) ==
  IF Len(history) = Window THEN Append(Tail(history), x) ELSE Append(history, x)

(* _detect_trend.                                                          *)
DetectTrend(history) ==
  /\ Len(history) = Window
  /\ \A i \in 1 .. Window - 1 : history[i] < history[i + 1]
  /\ history[Window] - history[1] >= MinRise
  /\ history[Window] >= Near /\ history[Window] < Threshold

(* The alarm of the edge, not of the level.                                *)
Breach(now) == now /\ ~breached

Warning(now) ==
  ~now /\ ~trendWarned /\ (DetectTrend(cpu') \/ DetectTrend(ram'))

(* Mutant of TrendWarned: the mark lasts for one cycle.                    *)
TrendWarned_Forgotten(now) ==
  IF breached /\ ~now THEN FALSE ELSE Warning(now)

(* _trend_warned after a cycle: a recovery is looked at last.              *)
TrendWarned(now) ==
  IF (breached /\ ~now) \/ Breach(now) THEN FALSE ELSE trendWarned \/ Warning(now)

(* _update_state: one cycle.                                               *)
UpdateState(c, r, diskFull) ==
  LET now == c > Threshold \/ r > Threshold \/ diskFull
  IN  /\ cpu' = Remember(cpu, c) /\ ram' = Remember(ram, r)
      /\ breached' = now
      /\ trendWarned' = TrendWarned(now)
      /\ told' = [alarms   |-> IF ~now THEN 0 ELSE told.alarms + (IF Breach(now) THEN 1 ELSE 0),
                  warnings |-> IF Breach(now) THEN 0
                               ELSE (IF breached /\ ~now THEN 0 ELSE told.warnings)
                                    + (IF Warning(now) THEN 1 ELSE 0)]

Next == \E c, r \in Readings, diskFull \in BOOLEAN : UpdateState(c, r, diskFull)

Spec == Init /\ [][Next]_vars

-----------------------------------------------------------------------------
(* Every overload has exactly one alarm, and between the end of one and    *)
(* the next there are at most two warnings of a rise: the one in the very  *)
(* cycle of the recovery, whose mark is wiped out, and one more.           *)
AlarmsCounted ==
  /\ told.alarms = IF breached THEN 1 ELSE 0
  /\ told.warnings <= 2
=============================================================================
