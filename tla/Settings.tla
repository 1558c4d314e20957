------------------------------ MODULE Settings ------------------------------
(* config.yaml and credentials.json (core/config.py, core/credentials.py): *)
(* a file, the copy that each process keeps of it, and the edits of the    *)
(* endpoints.  An edit of the configuration takes a copy, changes it and   *)
(* saves it; an edit of the credentials does all of it under one lock.     *)
(* The file is written beside the old one and renamed over it.             *)
EXTENDS Naturals

CONSTANTS
  Sections,     \* what an endpoint changes, or a service with credentials
  Values,
  MaxEdits

VARIABLES
  kind,       \* "config" or "credentials"
  file,       \* the saved document
  cache,      \* per process its copy, or Unread
  doc,        \* per writer the document it is about to save
  change,     \* per writer the section and the value it was given
  stage,      \* per writer "idle", "got", "saving"
  mutex,      \* per process: _lock is held
  agreed,     \* ghost: the document after the edits that were acknowledged
  disturbed,  \* ghost: edits overlapped, or a save failed, or a stale copy was saved
  edits

settings == <<kind, file, cache, doc, change, stage, mutex, agreed, disturbed, edits>>

(* The event loop, a thread of the gateway (patch_config is not async) and *)
(* a tool in a worker process (escalate_cognition, the token of Spotify);  *)
(* in a container the file is read-only and the tool's save fails.         *)
Writers == {"loop", "thread", "tool"}

Process(w) == IF w = "tool" THEN "worker" ELSE "gateway"

Empty == [s \in Sections |-> "unset"]

Unread == [s \in Sections |-> "unread"]

Torn == [s \in Sections |-> "torn"]

Init ==
  /\ kind \in {"config", "credentials"}
  /\ file = Empty
  /\ cache = [p \in {"gateway", "worker"} |-> Unread]
  /\ doc = [w \in Writers |-> Empty]
  /\ change = [w \in Writers |-> << >>]
  /\ stage = [w \in Writers |-> "idle"]
  /\ mutex = [p \in {"gateway", "worker"} |-> FALSE]
  /\ agreed = Empty
  /\ disturbed = FALSE
  /\ edits = 0

(* The copy of a process: read once, and never again while it lives.  A    *)
(* document that cannot be decoded counts as empty.                        *)
Cached(p) == IF cache[p] # Unread THEN cache[p] ELSE IF file = Torn THEN Empty ELSE file

(* Any reader of a process fills its copy.                                 *)
Get(p) ==
  /\ ~mutex[p]
  /\ cache' = [cache EXCEPT ![p] = Cached(p)]
  /\ UNCHANGED <<kind, file, doc, change, stage, mutex, agreed, disturbed, edits>>

(* ConfigManager.get and the change; for credentials the lock is kept.     *)
Begin(w) ==
  \E s \in Sections, v \in Values :
    /\ stage[w] = "idle" /\ edits < MaxEdits
    /\ ~mutex[Process(w)]
    /\ doc' = [doc EXCEPT ![w] = [Cached(Process(w)) EXCEPT ![s] = v]]
    /\ change' = [change EXCEPT ![w] = <<s, v>>]
    /\ cache' = [cache EXCEPT ![Process(w)] = Cached(Process(w))]
    /\ stage' = [stage EXCEPT ![w] = "got"]
    /\ mutex' = [mutex EXCEPT ![Process(w)] = kind = "credentials"]
    /\ disturbed' = \/ disturbed
                    \/ \E x \in Writers : stage[x] # "idle"
                    \/ Cached(Process(w)) # file
    /\ edits' = edits + 1
    /\ UNCHANGED <<kind, file, agreed>>

(* save: the copy changes first, then the new file is written beside the   *)
(* old one.                                                                *)
Save_InPlace(w) ==    \* mutant: the file itself is opened for writing
  /\ stage[w] = "got"
  /\ kind = "config" => ~mutex[Process(w)]
  /\ cache' = [cache EXCEPT ![Process(w)] = doc[w]]
  /\ mutex' = [mutex EXCEPT ![Process(w)] = TRUE]
  /\ stage' = [stage EXCEPT ![w] = "saving"]
  /\ file' = Torn
  /\ UNCHANGED <<kind, doc, change, agreed, disturbed, edits>>

Save(w) ==
  /\ stage[w] = "got"
  /\ kind = "config" => ~mutex[Process(w)]
  /\ cache' = [cache EXCEPT ![Process(w)] = doc[w]]
  /\ mutex' = [mutex EXCEPT ![Process(w)] = TRUE]
  /\ stage' = [stage EXCEPT ![w] = "saving"]
  /\ UNCHANGED <<kind, file, doc, change, agreed, disturbed, edits>>

Over(w) ==
  /\ stage' = [stage EXCEPT ![w] = "idle"]
  /\ mutex' = [mutex EXCEPT ![Process(w)] = FALSE]
  /\ UNCHANGED <<kind, cache, doc, change, edits>>

Replace(w) ==
  /\ stage[w] = "saving"
  /\ file' = doc[w]
  /\ agreed' = [agreed EXCEPT ![change[w][1]] = change[w][2]]
  /\ Over(w)
  /\ UNCHANGED disturbed

(* The disk is full: the caller is told, the copy stays changed.           *)
Fail(w) ==
  /\ stage[w] = "saving"
  /\ disturbed' = TRUE
  /\ Over(w)
  /\ UNCHANGED <<file, agreed>>

(* A process ends, with the edits it was at.                               *)
Restart(p) ==
  LET its == {w \in Writers : Process(w) = p}
  IN /\ cache' = [cache EXCEPT ![p] = Unread]
     /\ stage' = [w \in Writers |-> IF w \in its THEN "idle" ELSE stage[w]]
     /\ mutex' = [mutex EXCEPT ![p] = FALSE]
     /\ UNCHANGED <<kind, file, doc, change, agreed, disturbed, edits>>

Next ==
  \/ \E w \in Writers : Begin(w) \/ Save(w) \/ Replace(w) \/ Fail(w)
  \/ \E p \in {"gateway", "worker"} : Get(p) \/ Restart(p)

Spec == Init /\ [][Next]_settings

-----------------------------------------------------------------------------
(* Over restarts at any point of a save, the file holds every edit that    *)
(* was acknowledged, whole; only overlapping edits, a save that failed and *)
(* a copy older than the file can lose one.                                *)
SettingsKept == ~disturbed => file = agreed
=============================================================================
