---------------------------- MODULE FileMonitors ----------------------------
(***************************************************************************)
(* The monitors of files (app/agents/monitors): filesystem.py waits for a  *)
(* file to settle before it reports a change, build_logs.py reads a log    *)
(* whenever it is written and reports errors in it.                        *)
(*                                                                         *)
(* A watchdog thread sees the changes below the watched directory and      *)
(* hands them to the event loop (call_soon_threadsafe), which puts them in *)
(* the queue of the monitor.  Directories are watched whole; a path is a   *)
(* file in one of them.                                                    *)
(***************************************************************************)
EXTENDS Naturals, Sequences, SequencesExt, FiniteSets

CONSTANTS
  Paths,       \* files whose name is not ignored
  DirOf,       \* DirOf[p]: the directory of p
  MaxChanges   \* bound: changes and writes of files

VARIABLES
  run,       \* run() of the filesystem monitor: "new", "running" or "ended"
  watchDir,  \* _watch_dir
  observer,  \* the directory its observer thread watches, or "none"
  queue,     \* its _event_queue
  debounce,  \* debounce[p]: the task that waits for p to settle
  seen,      \* history: the latest change of p a thread saw, and that was not ignored
  reported,  \* reported[p]: event_type of the latest FS_CHANGE for p
  log,       \* log[p]: the tail of the log p is "clean" or an "error"
  logQueue,  \* _event_queue of the log monitor
  builds,    \* builds[p]: what the log monitor made of p: an error reported or not
  unread,    \* history: the logs whose last reading failed
  changes

files == <<run, watchDir, observer, queue, debounce, seen, reported>>
logs == <<log, logQueue, builds, unread>>
vars == <<files, logs, changes>>

Idle == [type |-> "none", due |-> FALSE]

Dirs == {DirOf[p] : p \in Paths}

Init ==
  /\ run = "new" /\ watchDir \in Dirs /\ observer = "none" /\ queue = <<>>
  /\ debounce = [p \in Paths |-> Idle]
  /\ seen = [p \in Paths |-> "none"] /\ reported = [p \in Paths |-> "none"]
  /\ log = [p \in Paths |-> "clean"] /\ logQueue = <<>>
  /\ builds = [p \in Paths |-> "clean"] /\ unread = {} /\ changes = 0

-----------------------------------------------------------------------------
(* The filesystem monitor.                                                 *)

Start ==
  /\ run = "new" /\ run' = "running" /\ observer' = watchDir
  /\ UNCHANGED <<watchDir, queue, debounce, seen, reported, logs, changes>>

(* Cancelled at shutdown: the finally clause stops the observer; the tasks *)
(* that wait for files go on.                                              *)
End ==
  /\ run = "running" /\ run' = "ended" /\ observer' = "none"
  /\ UNCHANGED <<watchDir, queue, debounce, seen, reported, logs, changes>>

(* on_created, on_modified: in the observer's thread.                      *)
Change(p, type) ==
  /\ changes < MaxChanges /\ changes' = changes + 1
  /\ observer = DirOf[p]
  /\ queue' = Append(queue, [path |-> p, type |-> type])
  /\ seen' = [seen EXCEPT ![p] = type]
  /\ UNCHANGED <<run, watchDir, observer, debounce, reported, logs>>

(* Mutant of ScheduleDebounced: a task that waits keeps its change.        *)
ScheduleDebounced_First ==
  /\ run = "running" /\ queue # <<>> /\ queue' = Tail(queue)
  /\ debounce' = [debounce EXCEPT ![Head(queue).path] =
                    IF @.type = "none" THEN [type |-> Head(queue).type, due |-> FALSE] ELSE @]
  /\ UNCHANGED <<run, watchDir, observer, seen, reported, logs, changes>>

(* _schedule_debounced: the task of an earlier change is cancelled, also   *)
(* when its time is up but it has not been resumed.                        *)
ScheduleDebounced ==
  /\ run = "running" /\ queue # <<>> /\ queue' = Tail(queue)
  /\ debounce' = [debounce EXCEPT ![Head(queue).path] =
                    [type |-> Head(queue).type, due |-> FALSE]]
  /\ UNCHANGED <<run, watchDir, observer, seen, reported, logs, changes>>

Settle(p) ==
  /\ debounce[p].type # "none" /\ ~debounce[p].due
  /\ debounce' = [debounce EXCEPT ![p].due = TRUE]
  /\ UNCHANGED <<run, watchDir, observer, queue, seen, reported, logs, changes>>

(* _delayed_emit after its sleep: one FS_CHANGE with the final type.       *)
DelayedEmit(p) ==
  /\ debounce[p].due
  /\ reported' = [reported EXCEPT ![p] = debounce[p].type]
  /\ debounce' = [debounce EXCEPT ![p] = Idle]
  /\ UNCHANGED <<run, watchDir, observer, queue, seen, logs, changes>>

(* change_watch_dir: before run() the directory is only noted; afterwards  *)
(* an observer is started, also when run() has ended and will not stop it. *)
ChangeWatchDir(dir) ==
  /\ watchDir # dir /\ watchDir' = dir
  /\ observer' = IF run = "new" THEN "none" ELSE dir
  /\ UNCHANGED <<run, queue, debounce, seen, reported, logs, changes>>

-----------------------------------------------------------------------------
(* The log monitor: no debounce, the file is read when its event is        *)
(* handled, and an error in its last lines is reported every time.         *)
WriteLog(p, tail) ==
  /\ changes < MaxChanges /\ changes' = changes + 1
  /\ log' = [log EXCEPT ![p] = tail]
  /\ logQueue' = Append(logQueue, p)
  /\ UNCHANGED <<files, builds, unread>>

ProcessLog ==
  /\ logQueue # <<>> /\ logQueue' = Tail(logQueue)
  /\ builds' = [builds EXCEPT ![Head(logQueue)] = log[Head(logQueue)]]
  /\ unread' = unread \ {Head(logQueue)}
  /\ UNCHANGED <<files, log, changes>>

(* A file that is gone or cannot be read: the error is swallowed, and the  *)
(* entry that announced the change has been taken from the queue.          *)
ReadFails ==
  /\ logQueue # <<>> /\ logQueue' = Tail(logQueue)
  /\ unread' = unread \cup {Head(logQueue)}
  /\ UNCHANGED <<files, log, builds, changes>>

Next ==
  \/ Start \/ End \/ ScheduleDebounced \/ ProcessLog \/ ReadFails
  \/ \E p \in Paths : \/ \E type \in {"created", "modified"} : Change(p, type)
                      \/ \E tail \in {"clean", "error"} : WriteLog(p, tail)
                      \/ Settle(p) \/ DelayedEmit(p)
  \/ \E dir \in Dirs : ChangeWatchDir(dir)

Spec == Init /\ [][Next]_vars

-----------------------------------------------------------------------------
Queued(p) == \E i \in DOMAIN queue : queue[i].path = p

(* A change a thread saw is on its way to the bus or its type is the one   *)
(* reported last: however the changes of a file are queued, postponed,     *)
(* cancelled and replaced, the last word on a file is never lost, also     *)
(* when the watched directory changes meanwhile or the monitor ends.       *)
LastChangeKept ==
  \A p \in Paths : Queued(p) \/ debounce[p].type # "none" \/ reported[p] = seen[p]

(* A log whose tail shows an error is waiting to be read, its error was    *)
(* the last thing reported of it (_process_log reads the file late), or    *)
(* the last attempt to read it failed: one bad reading is enough for an    *)
(* error to go unnoticed until the log is written again, and a good one    *)
(* makes up for all the bad ones before it.                                *)
LogErrorsNoticed ==
  \A p \in Paths : builds[p] = log[p] \/ p \in ToSet(logQueue) \/ p \in unread

(* Between the threads of the watcher and the event loop nothing that was  *)
(* written is lost, but for logs that cannot be read: both of the above    *)
(* (filesystem.py, build_logs.py).                                         *)
ChangesNoticed == LastChangeKept /\ LogErrorsNoticed
=============================================================================
