--------------------------- MODULE PythonSandbox ---------------------------
(* The interpreter behind run_python (skills/python/runner.py): one        *)
(* process that reads pieces of code from a pipe and answers on another,   *)
(* each answer closed by the marker of its call.  Calls take a lock in     *)
(* turn; one that takes too long replaces the process and answers with an  *)
(* error, while the code of that call may just be about to print.          *)
EXTENDS Naturals, Sequences, SequencesExt

CONSTANTS
  Calls,
  MaxProcesses    \* bound of the exploration: processes started

VARIABLES
  process,    \* number of the process that the sandbox holds
  alive,      \* it has not exited
  stdin,      \* calls whose code was written to it and not executed
  stdout,     \* what can be read from it: text of a call, or a marker
  pc,         \* "idle", "waiting" for the lock, "reading" or "done"
  output,     \* what a call has read so far, and then its answer
  failed      \* calls answered with an error

vars == <<process, alive, stdin, stdout, pc, output, failed>>

Text(c) == <<"text", c>>
Marker(c) == <<"result", c>>

Init ==
  /\ process = 1 /\ alive = TRUE /\ stdin = <<>> /\ stdout = <<>>
  /\ pc = [c \in Calls |-> "idle"] /\ output = [c \in Calls |-> <<>>] /\ failed = {}

(* shutdown() of the old process and Popen of the new one, with new pipes. *)
StartProcess ==
  /\ process' = process + 1 /\ alive' = TRUE /\ stdin' = <<>> /\ stdout' = <<>>

(* execute() before the lock: a process that has exited is replaced, also  *)
(* while another call still reads from it.  Code that the quick check      *)
(* refuses never comes this far.                                           *)
Execute(c) ==
  /\ pc[c] = "idle"
  /\ pc' = [pc EXCEPT ![c] = "waiting"]
  /\ IF alive THEN UNCHANGED <<process, alive, stdin, stdout>>
     ELSE process < MaxProcesses /\ StartProcess
  /\ UNCHANGED <<output, failed>>

Locked == \E c \in Calls : pc[c] = "reading"

(* With the lock: marker and code go to the process. *)
Write(c) ==
  /\ pc[c] = "waiting" /\ ~Locked /\ alive
  /\ stdin' = Append(stdin, c)
  /\ pc' = [pc EXCEPT ![c] = "reading"]
  /\ UNCHANGED <<process, alive, stdout, output, failed>>

(* Writing to a process that has exited raises: it is replaced. *)
WriteFails(c) ==
  /\ pc[c] = "waiting" /\ ~Locked /\ ~alive /\ process < MaxProcesses
  /\ StartProcess
  /\ failed' = failed \cup {c}
  /\ pc' = [pc EXCEPT ![c] = "done"]
  /\ UNCHANGED output

(* The wrapper: the code runs, what it printed and its marker follow.  The *)
(* code may end the interpreter: SystemExit passes through the finally,    *)
(* which prints both, and leaves the loop.                                 *)
Run ==
  /\ alive /\ stdin # <<>>
  /\ stdin' = Tail(stdin)
  /\ stdout' = stdout \o <<Text(Head(stdin)), Marker(Head(stdin))>>
  /\ alive' \in BOOLEAN
  /\ UNCHANGED <<process, pc, output, failed>>

(* The process dies of the code, a signal or a limit. *)
Dies ==
  /\ alive /\ alive' = FALSE
  /\ UNCHANGED <<process, stdin, stdout, pc, output, failed>>

(* _read_output: one line, from whatever process the sandbox holds now.    *)
ReadLine(c) ==
  /\ pc[c] = "reading" /\ stdout # <<>>
  /\ stdout' = Tail(stdout)
  /\ IF Head(stdout) = Marker(c)
     THEN pc' = [pc EXCEPT ![c] = "done"] /\ UNCHANGED output
     ELSE output' = [output EXCEPT ![c] = Append(@, Head(stdout))] /\ UNCHANGED pc
  /\ UNCHANGED <<process, alive, stdin, failed>>

TimeOut_Keep(c) ==
  /\ pc[c] = "reading"
  /\ failed' = failed \cup {c}
  /\ pc' = [pc EXCEPT ![c] = "done"]
  /\ UNCHANGED <<process, alive, stdin, stdout, output>>

(* Fifteen seconds without the marker; the end of the pipe reads as empty  *)
(* lines without end, and is a timeout as well.                            *)
TimeOut(c) ==
  /\ pc[c] = "reading" /\ process < MaxProcesses
  /\ StartProcess
  /\ failed' = failed \cup {c}
  /\ pc' = [pc EXCEPT ![c] = "done"]
  /\ UNCHANGED output

Next ==
  \/ \E c \in Calls : \/ Execute(c) \/ Write(c) \/ WriteFails(c) \/ ReadLine(c)
                      \/ TimeOut(c)
  \/ Run \/ Dies

-----------------------------------------------------------------------------
(* A call that is answered without an error returns what its own code      *)
(* printed and nothing else, whatever happened to the calls before it:     *)
(* timeouts whose code prints later, exits, and a process replaced in the  *)
(* middle (runner.py:105-153).  Assumed: no code leaves a thread or a      *)
(* child behind that prints after it has ended.                            *)
OwnAnswer ==
  \A c \in Calls : pc[c] = "done" /\ c \notin failed => output[c] = <<Text(c)>>
=============================================================================
