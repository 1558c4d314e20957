------------------------------ MODULE Seccomp ------------------------------
(* The system-call filter of a sandbox worker: the program that            *)
(* _build_blocklist_filter writes (skills/sandbox.py), and the kernel's    *)
(* machine that runs it at each system call of the worker.  The offsets of *)
(* the jumps are counted by hand in the code, forward from the next        *)
(* instruction, in fields of eight bits; struct.pack raises on more, and   *)
(* the worker then runs without the filter.                                *)
EXTENDS Naturals, Sequences

CONSTANTS
  Archs,      \* architectures of a system call
  Numbers,    \* numbers of system calls
  Tables,     \* per architecture, the lists that may be blocked
  MaxOffset   \* 255, the largest offset that a field holds

VARIABLES
  arch,       \* the architecture of the process that installs the filter
  blocked,    \* the list for it
  call,       \* the system call: its architecture and its number
  at,         \* index of the instruction, from 0 as in the source
  acc,        \* the accumulator
  verdict     \* "none", "allow" or "kill"

vars == <<arch, blocked, call, at, acc, verdict>>

Instr(code, jt, jf, k) == [code |-> code, jt |-> jt, jf |-> jf, k |-> k]

Jump_Next(list, i) == Instr("jeq", Len(list) - i - 1, 0, list[i + 1])

Jump(list, i) == Instr("jeq", Len(list) - i, 0, list[i + 1])

(* The instruction of index i in the program for a list of n numbers. *)
Program(a, list, i) ==
  LET n == Len(list)
  IN  IF i = 0 THEN Instr("ld arch", 0, 0, 0)
      ELSE IF i = 1 THEN Instr("jeq", 0, n + 2, a)
      ELSE IF i = 2 THEN Instr("ld nr", 0, 0, 0)
      ELSE IF i < n + 3 THEN Jump(list, i - 3)
      ELSE IF i = n + 3 THEN Instr("allow", 0, 0, 0)
      ELSE Instr("kill", 0, 0, 0)

Size == Len(blocked) + 5

(* The longest jump is the one to the end for another architecture. *)
Packed == Len(blocked) + 2 <= MaxOffset

Current == Program(arch, blocked, at)

(* The worker installs the filter for its machine and makes a call. *)
Init ==
  /\ arch \in Archs /\ blocked \in Tables[arch]
  /\ call \in [arch : Archs, nr : Numbers]
  /\ at = 0 /\ acc = 0 /\ verdict = "none"

(* _maybe_apply_seccomp logs the error, and no filter is installed. *)
Unfiltered ==
  /\ verdict = "none" /\ ~Packed
  /\ verdict' = "allow"
  /\ UNCHANGED <<arch, blocked, call, at, acc>>

(* One instruction: a load, a comparison with its jump, or a return. *)
Load ==
  /\ verdict = "none" /\ Packed /\ at < Size
  /\ \/ Current.code = "ld arch" /\ acc' = call.arch
     \/ Current.code = "ld nr" /\ acc' = call.nr
  /\ at' = at + 1
  /\ UNCHANGED <<arch, blocked, call, verdict>>

Compare ==
  /\ verdict = "none" /\ Packed /\ at < Size /\ Current.code = "jeq"
  /\ at' = at + 1 + (IF acc = Current.k THEN Current.jt ELSE Current.jf)
  /\ UNCHANGED <<arch, blocked, call, acc, verdict>>

Return ==
  /\ verdict = "none" /\ Packed /\ at < Size /\ Current.code \in {"allow", "kill"}
  /\ verdict' = Current.code
  /\ UNCHANGED <<arch, blocked, call, at, acc>>

(* The filter stays for the life of the worker: it sees every later call. *)
NextCall ==
  /\ verdict = "allow"
  /\ call' \in [arch : Archs, nr : Numbers]
  /\ at' = 0 /\ acc' = 0 /\ verdict' = "none"
  /\ UNCHANGED <<arch, blocked>>

Next == Unfiltered \/ Load \/ Compare \/ Return \/ NextCall

Spec == Init /\ [][Next]_vars

-----------------------------------------------------------------------------
Forbidden == call.arch # arch \/ \E i \in 1 .. Len(blocked) : blocked[i] = call.nr

(* Where the filter can be packed, a call is killed exactly when it comes  *)
(* from another architecture or its number is in the list, and the program *)
(* never jumps past its end: no offset is one too short or too long        *)
(* (sandbox.py:190-228).                                                   *)
FilterExact ==
  Packed => /\ at < Size
            /\ verdict = "allow" => ~Forbidden
            /\ verdict = "kill" => Forbidden
=============================================================================
