------------------------------ MODULE Services ------------------------------
(* The services under the agents, with the monitors, for model checking.   *)
(* These parts share no variable with each other: each is explored on its  *)
(* own, while the others rest.                                             *)
EXTENDS Monitors, Sequences

CONSTANTS
  Configured, Chars, Tags, MaxPiece, MaxText,         \* of Inference
  Sections, Values,                         \* of Settings
  Callers, Lifespan,                        \* of Ollama
  Archs, Numbers, MaxList, MaxOffset,       \* of Seccomp, for lists of at most MaxList calls
  Calls, Cacheable, Reloads, MaxWorkers, Versions,    \* of Sandbox, and Calls of PythonSandbox
  Commands, Ports,                          \* of Daemon
  MaxEdits, MaxSpawns, MaxFaults, MaxProcesses, MaxServers    \* bounds of the exploration

ASSUME ServicesAssumption ==
  /\ Tags \in Seq(Seq(Chars) \ {<<>>})
  /\ Lifespan \in Callers /\ MaxSpawns \in Nat /\ MaxFaults \in Nat
  /\ MaxList \in Nat /\ MaxOffset \in Nat
  /\ MaxServers \in Nat

VARIABLES
  clientSession, leaked, ask, text, buffer, out, outcome,
  kind, file, copies, doc, change, stage, mutex, agreed, overlapped, edits,
  port, ready, _process, _we_started_it, callers, spawns, faults, disturbed,
  arch, blocked, syscall, instr, acc, verdict,
  bwrapOk, toolAt, answer, containers, poolQueue, working, broken, runs, silent, toolCache,
  disk, loaded, reloadTold,
  process, alive, stdin, stdout, pyAt, output, failed,
  gatewayPort, pidFile, gateways, launched, bridge, taken, command, mine, muddled

inference == <<clientSession, leaked, ask, text, buffer, out, outcome>>
settings == <<kind, file, copies, doc, change, stage, mutex, agreed, overlapped, edits>>
ollama == <<port, ready, _process, _we_started_it, callers, spawns, faults, disturbed>>
seccomp == <<arch, blocked, syscall, instr, acc, verdict>>
sandbox == <<bwrapOk, toolAt, answer, containers, poolQueue, working, broken, runs, silent,
             toolCache, disk, loaded, reloadTold>>
python == <<process, alive, stdin, stdout, pyAt, output, failed>>
daemon == <<gatewayPort, pidFile, gateways, launched, bridge, taken, command, mine, muddled>>

Infer == INSTANCE Inference
  WITH session <- clientSession, call <- ask

Set == INSTANCE Settings WITH cache <- copies, disturbed <- overlapped

Server == INSTANCE Ollama WITH pc <- callers

Lists == [a \in Archs |-> UNION {[1 .. n -> Numbers] : n \in 0 .. MaxList}]

Filter == INSTANCE Seccomp WITH call <- syscall, at <- instr, Tables <- Lists

Tool == INSTANCE Sandbox
  WITH at <- toolAt, queue <- poolQueue, cache <- toolCache, told <- reloadTold

Python == INSTANCE PythonSandbox WITH pc <- pyAt

Wade == INSTANCE Daemon
  WITH port <- gatewayPort, server <- gateways, pc <- command, disturbed <- muddled

(* A part that rests is in one of its initial states. *)
ServicesAtRest ==
  /\ Infer!Init /\ Set!Init /\ Server!Init /\ Tool!Init /\ Python!Init /\ Filter!Init
  /\ Wade!Init
  /\ part # "settings" => kind = "config"
  /\ part # "ollama" => port = Server!Free
  /\ part # "seccomp" => /\ arch = CHOOSE a \in Archs : TRUE
                         /\ blocked = <<>>
                         /\ syscall = CHOOSE c \in [arch : Archs, nr : Numbers] : TRUE
  /\ part # "sandbox" => bwrapOk
  /\ part # "daemon" => taken = {}

Init ==
  /\ part \in MonitorParts \cup {"inference", "settings", "ollama", "seccomp", "sandbox",
                                 "python", "daemon"}
  /\ AtRest /\ ServicesAtRest

Next ==
  \/ Move /\ UNCHANGED <<inference, settings, ollama, seccomp, sandbox, python, daemon>>
  \/ /\ UNCHANGED <<part, monitors>>
     /\ \/ /\ part = "inference" /\ Infer!Next
           /\ UNCHANGED <<settings, ollama, seccomp, sandbox, python, daemon>>
        \/ /\ part = "settings" /\ Set!Next
           /\ UNCHANGED <<inference, ollama, seccomp, sandbox, python, daemon>>
        \/ /\ part = "ollama" /\ Server!Next
           /\ UNCHANGED <<inference, settings, seccomp, sandbox, python, daemon>>
        \/ /\ part = "seccomp" /\ Filter!Next
           /\ UNCHANGED <<inference, settings, ollama, sandbox, python, daemon>>
        \/ /\ part = "sandbox" /\ Tool!Next
           /\ UNCHANGED <<inference, settings, ollama, seccomp, python, daemon>>
        \/ /\ part = "python" /\ Python!Next
           /\ UNCHANGED <<inference, settings, ollama, seccomp, sandbox, daemon>>
        \/ /\ part = "daemon" /\ Wade!Next
           /\ UNCHANGED <<inference, settings, ollama, seccomp, sandbox, python>>

services ==
  <<part, monitors, inference, settings, ollama, seccomp, sandbox, python, daemon>>

Spec == Init /\ [][Next]_services

-----------------------------------------------------------------------------
(* What a stream gives is the model's text without its hidden tags         *)
(* (inference_client.py).                                                  *)
StreamKept == Infer!StreamKept

(* A change of the settings that was acknowledged is not undone by another *)
(* one (config.py, credentials.py).                                        *)
SettingsKept == Set!SettingsKept

(* The model server of the gateway is the one it holds (ollama_manager.py) *)
ServerIsHeld == Server!ServerIsHeld

(* The filter kills the forbidden system calls and no other (sandbox.py).  *)
FilterExact == Filter!FilterExact

(* An answered call has ended and ran once (sandbox.py, registry.py).      *)
CallsSettled == Tool!CallsSettled

(* A run_python call returns what its own code printed (runner.py).        *)
OwnAnswer == Python!OwnAnswer

(* The gateway that runs is the one that wade stop would stop (daemon.py). *)
GatewayIsKnown == Wade!GatewayIsKnown
=============================================================================
