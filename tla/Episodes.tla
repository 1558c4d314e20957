------------------------------ MODULE Episodes -----------------------------
(* The episode store (memory/episodes.py), who writes to it, and the       *)
(* nightly consolidation (agents/memory_agent.py): a job at five past      *)
(* midnight asks the model for a summary of the episodes since midnight    *)
(* and then prunes.  Messages of every user's session come into this one   *)
(* store (memory/manager.py), events from the monitors (orchestrator.py).  *)
EXTENDS Naturals, FiniteSets

CONSTANTS
  MaxRows,       \* bound of the exploration: episodes
  MaxDays,       \* bound: days
  MaxAge,        \* of prune_old_memories: 90 days
  MonitorAge     \* of prune_old for events of monitors: 7 days

VARIABLES
  rows,          \* the table: records [id, type, day]
  ever,          \* ghost: every record written
  erased,        \* ghost: ids that a user deleted or asked to forget
  now,           \* the day, and whether five past midnight is over
  job,           \* the consolidation: "off", "asking" or "pruning"
  digest,        \* ids that the running consolidation read
  digested,      \* ghost: ids in the digest of a summary that was written
  nights         \* ghost: days whose consolidation ended without an error

vars == <<rows, ever, erased, now, job, digest, digested, nights>>

Types == {"conversation", "monitor_event", "fact_extracted"}

Init ==
  /\ rows = {} /\ ever = {} /\ erased = {}
  /\ now = [day |-> 1, late |-> TRUE]
  /\ job = "off" /\ digest = {} /\ digested = {} /\ nights = {}

Insert(type) ==
  LET e == [id |-> Cardinality(ever) + 1, type |-> type, day |-> now.day]
  IN  /\ Cardinality(ever) < MaxRows
      /\ rows' = rows \cup {e}
      /\ ever' = ever \cup {e}

(* record(): a message of a chat, an event of a monitor, or a fact that    *)
(* extract() found in an answer.                                           *)
Record(type) ==
  /\ Insert(type)
  /\ UNCHANGED <<erased, now, job, digest, digested, nights>>

(* DELETE /api/episodes/{id}; delete_matching() of POST /memory/forget:    *)
(* the rows that contain a word of the query, in the order of the table.   *)
Forget(some) ==
  /\ some # {}
  /\ rows' = {e \in rows : e.id \notin some}
  /\ erased' = erased \cup some
  /\ UNCHANGED <<ever, now, job, digest, digested, nights>>

(* The clock of the cron job of lifespan (hour 0, minute 5). *)
Midnight ==
  /\ now.late /\ now.day < MaxDays
  /\ now' = [day |-> now.day + 1, late |-> FALSE]
  /\ UNCHANGED <<rows, ever, erased, job, digest, digested, nights>>

(* 00:05 with a gateway that is down. *)
Missed ==
  /\ ~now.late
  /\ now' = [now EXCEPT !.late = TRUE]
  /\ UNCHANGED <<rows, ever, erased, job, digest, digested, nights>>

(* consolidate_today(): the episodes since midnight, of which the prompt   *)
(* holds the first hundred; a night of the instance has fewer.  Without a  *)
(* conversation or a fact among them it returns, and does not prune.       *)
Today ==
  {e \in rows : e.day = now.day /\ e.type # "monitor_event"}

Consolidate ==
  /\ ~now.late /\ job = "off"
  /\ now' = [now EXCEPT !.late = TRUE]
  /\ IF Today = {}
     THEN nights' = nights \cup {now.day} /\ UNCHANGED <<job, digest>>
     ELSE /\ job' = "asking"
          /\ digest' = {e.id : e \in Today}
          /\ UNCHANGED nights
  /\ UNCHANGED <<rows, ever, erased, digested>>

(* The model answers; the summary is a fact with the tag daily_summary.    *)
Summarise ==
  /\ job = "asking"
  /\ Insert("daily_summary")
  /\ digested' = digested \cup digest
  /\ job' = "pruning"
  /\ UNCHANGED <<erased, now, digest, nights>>

(* The model fails or has nothing to say: no summary, and no pruning.      *)
NoSummary ==
  /\ job = "asking"
  /\ job' = "off" /\ digest' = {}
  /\ UNCHANGED <<rows, ever, erased, now, digested, nights>>

Old_AnyType(e) ==
  now.day - e.day > IF e.type = "monitor_event" THEN MonitorAge ELSE MaxAge

(* The rows that prune_old deletes. *)
Old(e) ==
  CASE e.type = "monitor_event" -> now.day - e.day > MonitorAge
    [] e.type = "daily_summary" -> FALSE
    [] OTHER -> now.day - e.day > MaxAge

(* prune_old_memories() in a thread; a failure is logged. *)
PruneOld ==
  /\ job = "pruning"
  /\ \/ rows' = {e \in rows : ~Old(e)}
     \/ UNCHANGED rows
  /\ job' = "off" /\ digest' = {}
  /\ nights' = nights \cup {now.day}
  /\ UNCHANGED <<ever, erased, now, digested>>

Next ==
  \/ \E type \in Types : Record(type)
  \/ \E some \in SUBSET {e.id : e \in rows} : Forget(some)
  \/ Midnight \/ Missed \/ Consolidate \/ Summarise \/ NoSummary \/ PruneOld

Spec == Init /\ [][Next]_vars

-----------------------------------------------------------------------------
(* Only age and the user make the store forget: a record is there while it *)
(* is within the age of its kind, a summary for ever, unless a user        *)
(* deleted it (episodes.py:118-164, memory_agent.py:110-210).              *)
Remembered ==
  \A e \in ever :
    \/ e \in rows \/ e.id \in erased
    \/ e.type # "daily_summary"
       /\ now.day - e.day > IF e.type = "monitor_event" THEN MonitorAge ELSE MaxAge

(* The nightly consolidation is said to turn the day's episodes into       *)
(* durable facts (memory_agent.py:155-156): after a night that ended       *)
(* without an error, what was said on the day before is in a summary.      *)
DaySummarised ==
  \A e \in rows : e.type = "conversation" /\ e.day + 1 \in nights => e.id \in digested
=============================================================================
