------------------------------ MODULE Sandbox ------------------------------
(* How a tool call runs (skills/registry.py execute_tool, skills/          *)
(* sandbox.py): from the cache, in a bubblewrap container, or in a worker  *)
(* of the process pool when bubblewrap cannot be used.  The executor waits *)
(* sixty seconds and then gives the call up; the container or the worker   *)
(* does not learn of it.  The registry of skills is loaded in the gateway  *)
(* and again in each process that runs a tool.                             *)
EXTENDS Naturals, FiniteSets, Sequences, SequencesExt

CONSTANTS
  Calls,
  Cacheable,    \* calls of one cacheable tool with the same arguments
  Reloads,      \* calls of hot_reload_system
  MaxWorkers,   \* of the pool: 4
  Versions      \* of a skill's files on disk

VARIABLES
  bwrapOk,      \* _BWRAP and _BWRAP_OK
  at,           \* "idle", "bwrap", "pool", "answered" or "given up"
  answer,       \* "result", "error" or "none"
  containers,   \* calls whose container runs
  queue,        \* calls submitted to the pool that no worker has taken
  working,      \* calls that the workers run
  broken,       \* BrokenProcessPool: a worker died
  runs,         \* times the tool of a call was started
  silent,       \* ghost: calls whose container failed without a message
  cache,        \* the entry of the cacheable calls: its text, "none" if expired
  disk,         \* version of the skills on disk
  loaded,       \* version in TOOL_INVENTORY of the gateway
  told          \* the version a reload reported as loaded, 0 before the first

vars == <<bwrapOk, at, answer, containers, queue, working, broken, runs, silent, cache, disk,
          loaded, told>>

Init ==
  /\ bwrapOk \in BOOLEAN
  /\ at = [c \in Calls |-> "idle"] /\ answer = [c \in Calls |-> "none"]
  /\ containers = {} /\ queue = <<>> /\ working = {}
  /\ broken = FALSE
  /\ runs = [c \in Calls |-> 0] /\ silent = {} /\ cache = "none"
  /\ disk = 1 /\ loaded = 0 /\ told = 0

(* load_all_skills(), at the start of the gateway or by the first caller.  *)
(* A second call returns at once; reload_skills() is only ever called      *)
(* inside a tool, so never in this process.                                *)
LoadAllSkills ==
  /\ loaded = 0 /\ loaded' = disk
  /\ UNCHANGED <<bwrapOk, at, answer, containers, queue, working, broken, runs, silent,
                 cache, disk, told>>

(* Somebody edits a skill while no reload runs. *)
EditSkill ==
  /\ \A c \in Reloads : at[c] \notin {"bwrap", "pool"}
  /\ disk + 1 \in Versions /\ disk' = disk + 1
  /\ UNCHANGED <<bwrapOk, at, answer, containers, queue, working, broken, runs, silent,
                 cache, loaded, told>>

Registry == <<disk, loaded>>

CacheHit(c) ==
  /\ loaded # 0 /\ at[c] = "idle" /\ c \in Cacheable /\ cache # "none"
  /\ at' = [at EXCEPT ![c] = "answered"]
  /\ answer' = [answer EXCEPT ![c] = cache]
  /\ UNCHANGED <<bwrapOk, containers, queue, working, broken, runs, silent, cache, Registry,
                 told>>

(* An entry counts from the start of the call that made it; it expires     *)
(* later, or has expired when it is written.                               *)
Expire ==
  /\ cache # "none" /\ cache' = "none"
  /\ UNCHANGED <<bwrapOk, at, answer, containers, queue, working, broken, runs, silent,
                 Registry, told>>

(* The answer of the tool, or the text that an error becomes: both are an  *)
(* answer, and both are cached.                                            *)
Answered(c, text) ==
  /\ at' = [at EXCEPT ![c] = "answered"]
  /\ answer' = [answer EXCEPT ![c] = text]
  /\ cache' = IF c \in Cacheable THEN text ELSE cache
  /\ told' = IF c \in Reloads /\ text = "result" THEN disk ELSE told

(* run_in_executor: a broken pool refuses. *)
Submit(c) ==
  IF broken
  THEN Answered(c, "error") /\ UNCHANGED queue
  ELSE /\ at' = [at EXCEPT ![c] = "pool"]
       /\ queue' = Append(queue, c)
       /\ UNCHANGED <<answer, cache, told>>

(* bwrap: the container starts; if the binary cannot be run, every call    *)
(* from now on goes to the pool, and this one too.                         *)
Misses(c) == loaded # 0 /\ at[c] = "idle" /\ (c \in Cacheable => cache = "none")

StartContainer(c) ==
  /\ Misses(c) /\ bwrapOk
  /\ at' = [at EXCEPT ![c] = "bwrap"]
  /\ containers' = containers \cup {c}
  /\ runs' = [runs EXCEPT ![c] = @ + 1]
  /\ UNCHANGED <<bwrapOk, answer, queue, working, broken, silent, cache, Registry, told>>

StartInPool(c) ==
  /\ Misses(c)
  /\ bwrapOk' = FALSE
  /\ Submit(c)
  /\ UNCHANGED <<containers, working, broken, runs, silent, Registry>>

ContainerEnds_Falls(c) ==
  /\ at[c] = "bwrap"
  /\ containers' = containers \ {c}
  /\ \/ Answered(c, "result") /\ UNCHANGED <<bwrapOk, queue, silent>>
     \/ bwrapOk' = FALSE /\ Submit(c) /\ UNCHANGED silent
  /\ UNCHANGED <<working, broken, runs, Registry>>

(* The container ends with a result, with a message on stderr, or, when    *)
(* the kernel has no user namespaces or the tool was killed, with neither: *)
(* then the tool runs once more in the pool.                               *)
ContainerEnds(c) ==
  /\ at[c] = "bwrap"
  /\ containers' = containers \ {c}
  /\ \/ \E text \in {"result", "error"} : Answered(c, text)
        /\ UNCHANGED <<bwrapOk, queue, silent>>
     \/ /\ bwrapOk' = FALSE /\ silent' = silent \cup {c}
        /\ Submit(c)
  /\ UNCHANGED <<working, broken, runs, Registry>>

(* After the call was given up nobody looks at the end of its container.   *)
OrphanEnds(c) ==
  /\ at[c] = "given up" /\ c \in containers
  /\ containers' = containers \ {c}
  /\ UNCHANGED <<bwrapOk, at, answer, queue, working, broken, runs, silent, cache, Registry,
                 told>>

(* A worker takes the next call. *)
Take ==
  /\ ~broken /\ Cardinality(working) < MaxWorkers /\ queue # <<>>
  /\ working' = working \cup {Head(queue)}
  /\ queue' = Tail(queue)
  /\ runs' = [runs EXCEPT ![Head(queue)] = @ + 1]
  /\ UNCHANGED <<bwrapOk, at, answer, containers, broken, silent, cache, Registry, told>>

(* _run_tool_sync: an exception becomes the text of the answer. *)
ToolEnds(c) ==
  /\ c \in working
  /\ working' = working \ {c}
  /\ IF at[c] = "pool"
     THEN \E text \in {"result", "error"} : Answered(c, text)
     ELSE UNCHANGED <<at, answer, cache, told>>
  /\ UNCHANGED <<bwrapOk, containers, queue, broken, runs, silent, Registry>>

(* A worker dies: a system call its filter forbids, or sixty seconds of    *)
(* processor time, which it collects over all the calls of its life.  The  *)
(* pool is broken: all its calls fail, the other workers are stopped, and  *)
(* get_process_pool() never makes another.                                 *)
WorkerDies ==
  /\ working # {}
  /\ broken' = TRUE
  /\ working' = {}
  /\ queue' = <<>>
  /\ at' = [c \in Calls |-> IF at[c] = "pool" THEN "answered" ELSE at[c]]
  /\ answer' = [c \in Calls |-> IF at[c] = "pool" THEN "error" ELSE answer[c]]
  /\ cache' = IF \E c \in Cacheable : at[c] = "pool" THEN "error" ELSE cache
  /\ UNCHANGED <<bwrapOk, containers, runs, silent, Registry, told>>

(* Sixty seconds are over, or the user stops the request: the future is    *)
(* cancelled.  A call that waits in the pool is withdrawn, unless it was   *)
(* already handed to the queue of the workers; a tool that runs runs on.   *)
GiveUp(c) ==
  /\ at[c] \in {"bwrap", "pool"}
  /\ at' = [at EXCEPT ![c] = "given up"]
  /\ \/ UNCHANGED queue
     \/ \E i \in DOMAIN queue : queue[i] = c /\ queue' = RemoveAt(queue, i)
  /\ UNCHANGED <<bwrapOk, answer, containers, working, broken, runs, silent, cache, Registry,
                 told>>

Next ==
  \/ LoadAllSkills \/ EditSkill \/ Expire
  \/ \E c \in Calls : \/ CacheHit(c) \/ StartContainer(c) \/ StartInPool(c)
                      \/ ContainerEnds(c) \/ OrphanEnds(c) \/ ToolEnds(c) \/ GiveUp(c)
  \/ Take \/ WorkerDies

Spec == Init /\ [][Next]_vars

-----------------------------------------------------------------------------
(* A call that was answered has ended: its tool runs nowhere, it is in no  *)
(* queue, and it ran once, or twice only if its container ended without a  *)
(* word.  The change of sandbox in the middle of a call, the pool's        *)
(* breaking and calls given up do not run the tool of another call again   *)
(* (sandbox.py:63-123, 443-472).                                           *)
Busy == containers \cup ToSet(queue) \cup working

CallsSettled ==
  /\ \A c \in Calls : at[c] = "answered" => c \notin Busy
  /\ \A c \in Calls : runs[c] <= IF c \in silent THEN 2 ELSE 1

(* hot_reload_system answers that all skill modules were reloaded into     *)
(* memory and that "changes take effect without restarting the Gateway"    *)
(* (hot_reload.py:18-22, 41): what it told of is what the gateway uses.    *)
ReloadTakesEffect == told # 0 => loaded = told
=============================================================================
