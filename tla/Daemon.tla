------------------------------- MODULE Daemon -------------------------------
(* wade start, stop and restart (daemon.py, cli.py): each is a process of  *)
(* its own, which finds the gateway by the port in config.yaml and by the  *)
(* PID file, and starts a gateway and a WhatsApp bridge that outlive it.   *)
EXTENDS Integers, FiniteSetsExt

CONSTANTS
  Commands,     \* command processes, each used over and over
  Ports,        \* 80 and those from 8000 on
  MaxServers    \* bound of the exploration: gateways that are started

VARIABLES
  port,         \* the port in config.yaml
  pidFile,      \* the gateway that PID_FILE names, 0 without one
  server,       \* per gateway its port, and where it is
  launched,     \* gateways so far
  bridge,       \* the port that the bridge posts to, 0 if none runs
  taken,        \* ports that other programs hold
  pc,           \* per command where it is
  mine,         \* per command the gateway it started
  disturbed     \* ghost: see GatewayIsKnown

daemon == <<port, pidFile, server, launched, bridge, taken, pc, mine, disturbed>>

Servers == 1 .. MaxServers

Up == {"up", "busy"}

Alive == {s \in Servers : server[s].at \in Up \cup {"starting"}}

Init ==
  /\ port = 80 /\ pidFile = 0 /\ bridge = 0
  /\ server = [s \in Servers |-> [at |-> "none", port |-> 0]]
  /\ launched = 0
  /\ taken \in SUBSET (Ports \ {Max(Ports)})
  /\ pc = [c \in Commands |-> "idle"]
  /\ mine = [c \in Commands |-> 0]
  /\ disturbed = FALSE

(* is_running: the gateway on this port answers within a second.  One that *)
(* is busy does not.                                                       *)
IsRunning(p) == \E s \in Servers : server[s] = [at |-> "up", port |-> p]

Missed(p) == \E s \in Servers : server[s] = [at |-> "busy", port |-> p]

Available(p) == p \notin taken /\ \A s \in Servers : ~(server[s].at \in Up /\ server[s].port = p)

(* Port 80, or the first from 8000 that can be bound.                      *)
Free == {p \in Ports : Available(p)}

FreePort == IF 80 \in Free THEN 80 ELSE Min(Free)

Alone(c) == \A d \in Commands \ {c} : pc[d] = "idle"

-----------------------------------------------------------------------------
(* start_daemon removes the PID file of a gateway that does not answer, and *)
(* asks again.                                                             *)
Start(c) ==
  /\ pc[c] \in {"idle", "restarting"}
  /\ pidFile' = IF IsRunning(port) THEN pidFile ELSE 0
  /\ pc' = [pc EXCEPT ![c] = "probing"]
  /\ disturbed' = (disturbed \/ ~Alone(c) \/ Missed(port))
  /\ UNCHANGED <<port, server, launched, bridge, taken, mine>>

AlreadyRunning(c) ==
  /\ pc[c] = "probing" /\ IsRunning(port)
  /\ pc' = [pc EXCEPT ![c] = "idle"]
  /\ UNCHANGED <<port, pidFile, server, launched, bridge, taken, mine, disturbed>>

(* The model server and the models are made ready first, which takes long. *)
EnsureModelsReady(c) ==
  /\ pc[c] = "probing" /\ ~IsRunning(port)
  /\ pc' = [pc EXCEPT ![c] = "preparing"]
  /\ disturbed' = (disturbed \/ Missed(port))
  /\ UNCHANGED <<port, pidFile, server, launched, bridge, taken, mine>>

(* The model server does not come up, or no port is free.                  *)
GiveUp(c) ==
  /\ pc[c] = "preparing"
  /\ pc' = [pc EXCEPT ![c] = "idle"]
  /\ UNCHANGED <<port, pidFile, server, launched, bridge, taken, mine, disturbed>>

(* The port is chosen and saved, the bridge is started, and then the       *)
(* gateway.  A bridge that finds another on its own port ends.             *)
Launch(c) ==
  /\ pc[c] = "preparing" /\ Free # {} /\ launched < MaxServers
  /\ port' = FreePort
  /\ bridge' = IF bridge = 0 THEN FreePort ELSE bridge
  /\ launched' = launched + 1
  /\ server' = [server EXCEPT ![launched'] = [at |-> "starting", port |-> FreePort]]
  /\ mine' = [mine EXCEPT ![c] = launched']
  /\ pc' = [pc EXCEPT ![c] = "waiting"]
  /\ UNCHANGED <<pidFile, taken, disturbed>>

(* The loop of sixty health checks: only a gateway that answers is written *)
(* to the PID file, and one that never does is killed.                     *)
Healthy(c) ==
  /\ pc[c] = "waiting" /\ IsRunning(port)
  /\ pidFile' = mine[c]
  /\ pc' = [pc EXCEPT ![c] = "idle"]
  /\ UNCHANGED <<port, server, launched, bridge, taken, mine, disturbed>>

Ended(s) == [server EXCEPT ![s].at = "gone"]

Unhealthy_Keep(c) ==    \* mutant: the process is not killed
  /\ pc[c] = "waiting" /\ ~IsRunning(port)
  /\ pc' = [pc EXCEPT ![c] = "idle"]
  /\ UNCHANGED <<port, pidFile, server, launched, bridge, taken, mine, disturbed>>

Unhealthy(c) ==
  /\ pc[c] = "waiting" /\ ~IsRunning(port)
  /\ server' = Ended(mine[c])
  /\ pc' = [pc EXCEPT ![c] = "idle"]
  /\ UNCHANGED <<port, pidFile, launched, bridge, taken, mine, disturbed>>

(* stop_daemon kills the gateway of the PID file if one answers.           *)
Stop(c) ==
  /\ pc[c] = "idle"
  /\ server' = IF IsRunning(port) /\ pidFile # 0 THEN Ended(pidFile) ELSE server
  /\ \E next \in {"stopping", "stopping to restart"} : pc' = [pc EXCEPT ![c] = next]
  /\ disturbed' = (disturbed \/ ~Alone(c) \/ Missed(port))
  /\ UNCHANGED <<port, pidFile, launched, bridge, taken, mine>>

(* It kills every bridge and removes the PID file in any case.             *)
CleanUp(c) ==
  /\ pc[c] \in {"stopping", "stopping to restart"}
  /\ bridge' = 0 /\ pidFile' = 0
  /\ pc' = [pc EXCEPT ![c] = IF @ = "stopping" THEN "idle" ELSE "restarting"]
  /\ UNCHANGED <<port, server, launched, taken, mine, disturbed>>

(* The command is interrupted; what it started runs on, in a session of    *)
(* its own.                                                                *)
Interrupt(c) ==
  /\ pc[c] # "idle"
  /\ pc' = [pc EXCEPT ![c] = "idle"]
  /\ disturbed' = TRUE
  /\ UNCHANGED <<port, pidFile, server, launched, bridge, taken, mine>>

-----------------------------------------------------------------------------
(* uvicorn binds its port after the lifespan has started; a taken port     *)
(* ends it.                                                                *)
Bind(s) ==
  /\ server[s].at = "starting"
  /\ server' = IF Available(server[s].port) THEN [server EXCEPT ![s].at = "up"] ELSE Ended(s)
  /\ UNCHANGED <<port, pidFile, launched, bridge, taken, pc, mine, disturbed>>

(* The gateway does not answer for a while, answers again, or dies.        *)
Turn(s) ==
  /\ \/ server[s].at = "up" /\ server' = [server EXCEPT ![s].at = "busy"]
     \/ server[s].at = "busy" /\ server' = [server EXCEPT ![s].at = "up"]
     \/ s \in Alive /\ server' = Ended(s)
  /\ UNCHANGED <<port, pidFile, launched, bridge, taken, pc, mine, disturbed>>

Next ==
  \/ \E c \in Commands : \/ Start(c) \/ AlreadyRunning(c) \/ EnsureModelsReady(c) \/ GiveUp(c)
                         \/ Launch(c) \/ Healthy(c) \/ Unhealthy(c) \/ Stop(c) \/ CleanUp(c)
                         \/ Interrupt(c)
  \/ \E s \in Servers : Bind(s) \/ Turn(s)

-----------------------------------------------------------------------------
(* As long as no command overlaps another or is interrupted, and the       *)
(* gateway answers each command that looks for it, there is at most one    *)
(* gateway however often it dies, does not come up or finds its port       *)
(* taken; between commands it is the one that the PID file names, on the   *)
(* port of config.yaml, so that stop reaches it.                           *)
GatewayIsKnown ==
  ~disturbed =>
    /\ \A s, t \in Alive : s = t
    /\ (\A c \in Commands : pc[c] = "idle") =>
         \A s \in Alive : pidFile = s /\ server[s].port = port
=============================================================================
