------------------------------ MODULE Ollama -------------------------------
(* The model server that the gateway finds or starts                       *)
(* (services/ollama_manager.py).  Only one server at a time can hold the   *)
(* port, wherever it came from; a server that finds it taken ends at once. *)
(* The lifespan asks for a server when the gateway starts and stops it     *)
(* when the gateway ends.  The orchestrator asks for a restart after an    *)
(* httpx.ConnectError; restart() is modelled as the manager offers it, but *)
(* the repository's own client uses aiohttp and never raises that error.   *)
EXTENDS Naturals

CONSTANTS
  Callers,        \* requests that may ask for a restart, and the lifespan
  Lifespan,       \* of the gateway, which asks for a server as it starts
  MaxSpawns,      \* bound of the exploration: servers the gateway spawns
  MaxFaults       \* bound: servers that die or are started by the user

VARIABLES
  port,           \* who holds it: Free, Foreign or the number of a spawned server
  ready,          \* it answers GET /api/version
  _process,       \* number of the process the manager holds, 0 for None
  _we_started_it,
  pc,             \* what each caller awaits; the gateway is down while the lifespan is "off"
  spawns,         \* servers spawned so far
  faults,
  disturbed       \* ghost: two callers were in the manager together, or the gateway was killed

vars == <<port, ready, _process, _we_started_it, pc, spawns, faults, disturbed>>

Free == 0
Foreign == MaxSpawns + 1
Down == [c \in Callers |-> IF c = Lifespan THEN "off" ELSE "idle"]

Init ==
  /\ port \in {Free, Foreign} /\ ready = (port = Foreign)
  /\ _process = 0 /\ _we_started_it = FALSE
  /\ pc = Down
  /\ spawns = 0 /\ faults = 0 /\ disturbed = FALSE

(* ensure_running() from the lifespan: it probes what holds the port. *)
EnsureRunning ==
  /\ pc[Lifespan] = "off"
  /\ pc' = [pc EXCEPT ![Lifespan] = "probing"]
  /\ UNCHANGED <<port, ready, _process, _we_started_it, spawns, faults, disturbed>>

(* shutdown() waits for the process without awaiting, so it is one step:   *)
(* the held process ends, and with it its port if it has the port.         *)
Stopped ==
  IF _we_started_it /\ _process # 0
  THEN /\ port' = IF port = _process THEN Free ELSE port
       /\ ready' = (ready /\ port # _process)
       /\ _process' = 0 /\ _we_started_it' = FALSE
  ELSE UNCHANGED <<port, ready, _process, _we_started_it>>

(* restart() of a request, once the gateway is up. *)
Restart(c) ==
  /\ pc[Lifespan] = "idle" /\ pc[c] = "idle" /\ c # Lifespan
  /\ pc' = [pc EXCEPT ![c] = "probing"]
  /\ disturbed' = (disturbed \/ \E d \in Callers : pc[d] # "idle")
  /\ Stopped
  /\ UNCHANGED <<spawns, faults>>

(* is_running(): the answer to the probe, which is false also when a       *)
(* server is there and is not ready.                                       *)
AlreadyRunning(c) ==
  /\ pc[c] = "probing" /\ ready
  /\ pc' = [pc EXCEPT ![c] = "idle"]
  /\ UNCHANGED <<port, ready, _process, _we_started_it, spawns, faults, disturbed>>

(* The process replaces the held one; if the port is taken it dies, and    *)
(* the manager holds a dead process.  Without an ollama binary Popen       *)
(* raises before anything is changed.                                      *)
Spawn(c) ==
  /\ pc[c] = "probing" /\ ~ready /\ spawns < MaxSpawns
  /\ spawns' = spawns + 1
  /\ _process' = spawns'
  /\ _we_started_it' = TRUE
  /\ port' = IF port = Free THEN spawns' ELSE port
  /\ pc' = [pc EXCEPT ![c] = "waiting"]
  /\ UNCHANGED <<ready, faults, disturbed>>

NotFound(c) ==
  /\ pc[c] = "probing" /\ ~ready
  /\ pc' = [pc EXCEPT ![c] = "idle"]
  /\ UNCHANGED <<port, ready, _process, _we_started_it, spawns, faults, disturbed>>

Waited_Dropped(c) ==
  /\ pc[c] = "waiting"
  /\ pc' = [pc EXCEPT ![c] = "idle"]
  /\ _process' = IF ready THEN _process ELSE 0
  /\ UNCHANGED <<port, ready, _we_started_it, spawns, faults, disturbed>>

(* The loop of thirty probes: it ends when any server answers, or gives    *)
(* up with a RuntimeError and leaves the process it spawned; the lifespan  *)
(* goes on without a model.                                                *)
Waited(c) ==
  /\ pc[c] = "waiting"
  /\ pc' = [pc EXCEPT ![c] = "idle"]
  /\ UNCHANGED <<port, ready, _process, _we_started_it, spawns, faults, disturbed>>

(* The lifespan ends: the server that the gateway started ends with it.  A *)
(* request that was cancelled then no longer waits (main.py).              *)
Shutdown ==
  /\ pc[Lifespan] = "idle"
  /\ Stopped
  /\ pc' = Down
  /\ UNCHANGED <<spawns, faults, disturbed>>

(* The gateway is killed; a server it started is in a session of its own   *)
(* and survives, as somebody else's for the next gateway.                  *)
Crash ==
  /\ faults < MaxFaults /\ faults' = faults + 1
  /\ _process' = 0 /\ _we_started_it' = FALSE
  /\ pc' = Down
  /\ disturbed' = TRUE
  /\ UNCHANGED <<port, ready, spawns>>

(* External: the server starts to answer, dies, or the user starts one.    *)
BecomesReady ==
  /\ port # Free /\ ~ready
  /\ ready' = TRUE
  /\ UNCHANGED <<port, _process, _we_started_it, pc, spawns, faults, disturbed>>

Dies ==
  /\ port # Free /\ faults < MaxFaults /\ faults' = faults + 1
  /\ port' = Free /\ ready' = FALSE
  /\ UNCHANGED <<_process, _we_started_it, pc, spawns, disturbed>>

UserStarts ==
  /\ port = Free /\ faults < MaxFaults /\ faults' = faults + 1
  /\ port' = Foreign
  /\ UNCHANGED <<ready, _process, _we_started_it, pc, spawns, disturbed>>

Next ==
  \/ \E c \in Callers : \/ Restart(c) \/ AlreadyRunning(c) \/ Spawn(c) \/ NotFound(c)
                        \/ Waited(c)
  \/ EnsureRunning \/ Shutdown \/ Crash \/ BecomesReady \/ Dies \/ UserStarts

-----------------------------------------------------------------------------
(* As long as callers do not overlap and the gateway was not killed, a     *)
(* server of the gateway that holds the port is the one the manager holds: *)
(* it is stopped with the gateway and never left behind, however often     *)
(* servers die, are slow, or come from the user (ollama_manager.py:73-159) *)
(* Two overlapping restarts, were they asked for, would break this: the    *)
(* second spawns while the server of the first is not ready, its process   *)
(* dies on the taken port and replaces the live one.                       *)
ServerIsHeld == ~disturbed /\ port \in 1 .. MaxSpawns => /\ _we_started_it /\ _process = port
=============================================================================
