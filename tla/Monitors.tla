------------------------------ MODULE Monitors ------------------------------
(* The monitors and the proactive engine for model checking.  They share   *)
(* no variable, only the event bus of module EventBus stands between them: *)
(* each is explored on its own, while the others rest.                     *)
EXTENDS Naturals

CONSTANTS
  Paths, Workspace,                               \* of FileMonitors; Workspace: one directory
  Readings, Threshold, Near, Window, MinRise,     \* of SystemMonitor
  Pages, Cooldowns, Idles, Rates, Recent, AlertCooldown,    \* of Proactive
  MaxChanges, MaxMessages, MaxTicks               \* bounds of the exploration

ASSUME MonitorsAssumption ==
  /\ Readings \subseteq Nat /\ Threshold \in Nat /\ Window \in Nat \ {0}
  /\ Cooldowns \subseteq Nat /\ Cooldowns # {} /\ Idles \subseteq Nat /\ Idles # {}
  /\ Rates \subseteq Nat /\ Rates # {}
  /\ Recent \in Nat /\ AlertCooldown \in Nat
  /\ MaxMessages \in Nat /\ MaxTicks \in Nat

VARIABLES
  part,
  run, watchDir, observer, queue, debounce, seen, reported, log, logQueue, builds, unread,
  changes, cpu, ram, breached, trendWarned, told,
  clients, limits, hour, bucket, age, count, last, loop, visits, visitor, sent, loopAge,
  credited, ticks

files == <<run, watchDir, observer, queue, debounce, seen, reported, log, logQueue, builds,
           unread, changes>>
system == <<cpu, ram, breached, trendWarned, told>>
engine == <<clients, limits, hour, bucket, age, count, last, loop, visits, visitor, sent,
            loopAge, credited, ticks>>

DirOf == [p \in Paths |-> IF p \in Workspace THEN "workspace" ELSE "other"]

Limits == [cooldown : Cooldowns, idle : Idles, perHour : Rates]

Files == INSTANCE FileMonitors

System == INSTANCE SystemMonitor

Engine == INSTANCE Proactive

(* The states in which they wait for their turn. *)
AtRest ==
  /\ Files!Init /\ System!Init /\ Engine!Init
  /\ part # "files" => watchDir = CHOOSE dir \in Files!Dirs : TRUE
  /\ part # "engine" => limits = CHOOSE l \in Limits : TRUE

MonitorParts == {"files", "system", "engine"}

Move ==
  \/ part = "files" /\ Files!Next /\ UNCHANGED <<part, system, engine>>
  \/ part = "system" /\ System!Next /\ UNCHANGED <<part, files, engine>>
  \/ part = "engine" /\ Engine!Next /\ UNCHANGED <<part, files, system>>

monitors == <<files, system, engine>>

-----------------------------------------------------------------------------
(* The last change of a file and the errors of a build log are on their    *)
(* way, were reported, or the log could not be read (filesystem.py,        *)
(* build_logs.py).                                                         *)
ChangesNoticed == Files!ChangesNoticed

(* One alarm an overload, and no flood of warnings (system.py).            *)
AlarmsCounted == System!AlarmsCounted

(* The cooldown of the engine holds over its wait for the model, and no    *)
(* message is credited twice to the user's reaction (proactive.py).        *)
EngineHonest == Engine!RoutineSpaced /\ Engine!CreditedOnce
=============================================================================
