------------------------------- MODULE Facts -------------------------------
(* The long-term facts: memory.json and the MEMORY.md generated from it    *)
(* (skills/memory/updater.py, memory/passive_extractor.py,                 *)
(* api/v1/memory.py).  Each edit reads the file, changes a copy and writes *)
(* it back, under a lock that only excludes the threads of one process:    *)
(* the endpoints and the extractor run in threads of the gateway, the tool *)
(* in worker processes.  In a container the files are read-only and the    *)
(* tool fails without an effect.                                           *)
EXTENDS Naturals, FiniteSets

CONSTANTS
  Topics, Values,
  Lists,             \* the topics that collect values: likes, dislikes
  Gateway, Tools,    \* threads of the gateway; worker processes
  MaxEdits

VARIABLES
  json,      \* memory.json: what is stored of a topic, {} if nothing is; or Torn
  md,        \* MEMORY.md: the facts it was generated from
  edit,      \* per thread the edit it is at: what it stores, and the copy it read
  at,        \* "idle", "loaded", "emptied", "written"
  lock,      \* per process the holder of memory_file_lock
  truth,     \* ghost: the facts after the edits that were acknowledged
  mixed,     \* ghost: edits of two processes overlapped
  edits

facts == <<json, md, edit, at, lock, truth, mixed, edits>>

Threads == Gateway \cup Tools

None == [t \in Topics |-> {}]

Torn == [t \in Topics |-> {"torn"}]    \* between the truncation and the write of write_text

(* memory_file_lock is a threading.Lock: each process has its own.         *)
Process(w) == IF w \in Gateway THEN "gateway" ELSE w

Processes == {Process(w) : w \in Threads}

Init ==
  /\ json = None
  /\ md = None
  /\ edit = [w \in Threads |-> [topic |-> "none", value |-> {}, append |-> FALSE, data |-> None]]
  /\ at = [w \in Threads |-> "idle"]
  /\ lock = [p \in Processes |-> "free"]
  /\ truth = None
  /\ mixed = FALSE
  /\ edits = 0

(* _load_memory_db: a file that cannot be decoded counts as empty.         *)
Load == IF json = Torn THEN None ELSE json

Free_Always(p) == TRUE    \* mutant: no lock

Free(p) == lock[p] = "free"

(* The lock is taken and the file read; nothing is written unless the      *)
(* condition of the caller holds of what was read.                         *)
Begin(w, t, v, append) ==
  /\ at[w] = "idle" /\ edits < MaxEdits
  /\ Free(Process(w))
  /\ edit' = [edit EXCEPT ![w] = [topic |-> t, value |-> v, append |-> append, data |-> Load]]
  /\ at' = [at EXCEPT ![w] = "loaded"]
  /\ lock' = [lock EXCEPT ![Process(w)] = w]
  /\ mixed' = (mixed \/ \E x \in Threads : Process(x) # Process(w) /\ at[x] # "idle")
  /\ edits' = edits + 1
  /\ UNCHANGED <<json, md, truth>>

(* The tool: store_fact unless this very fact is stored, delete_fact if    *)
(* the topic is.                                                           *)
ManageKnowledgeBase(w) ==
  \E t \in Topics, v \in {{x} : x \in Values} \cup {{}} :
    w \in Tools /\ Load[t] # v /\ Begin(w, t, v, FALSE)

(* _direct_store_fact: what a message says of its user replaces the fact,  *)
(* or is added to the list of the topic.                                   *)
DirectStoreFact(w) ==
  \E t \in Topics, x \in Values :
    /\ w \in Gateway
    /\ IF t \in Lists THEN x \notin Load[t] ELSE Load[t] # {x}
    /\ Begin(w, t, {x}, t \in Lists)

(* The page's edit of a fact that is stored, and its deletion.             *)
UpdateFact(w) ==
  \E t \in Topics, x \in Values :
    w \in Gateway /\ Load[t] # {} /\ Begin(w, t, {x}, FALSE)

DeleteFact(w) ==
  \E t \in Topics : w \in Gateway /\ Load[t] # {} /\ Begin(w, t, {}, FALSE)

Edited(w, data) ==
  [data EXCEPT ![edit[w].topic] = IF edit[w].append THEN @ \cup edit[w].value ELSE edit[w].value]

Empty(w) ==
  /\ at[w] = "loaded"
  /\ json' = Torn
  /\ at' = [at EXCEPT ![w] = "emptied"]
  /\ UNCHANGED <<md, edit, lock, truth, mixed, edits>>

Save(w) ==
  /\ at[w] = "emptied"
  /\ json' = Edited(w, edit[w].data)
  /\ at' = [at EXCEPT ![w] = "written"]
  /\ UNCHANGED <<md, edit, lock, truth, mixed, edits>>

(* _save_memory_db writes MEMORY.md too, the lock is released and the      *)
(* caller is told.                                                         *)
SaveMd(w) ==
  /\ at[w] = "written"
  /\ md' = Edited(w, edit[w].data)
  /\ truth' = Edited(w, truth)
  /\ at' = [at EXCEPT ![w] = "idle"]
  /\ lock' = [lock EXCEPT ![Process(w)] = "free"]
  /\ UNCHANGED <<json, edit, mixed, edits>>

(* A tool that runs into its time limit or a worker that dies leaves its   *)
(* edit where it is.                                                       *)
Die(w) ==
  /\ w \in Tools /\ at[w] # "idle"
  /\ at' = [at EXCEPT ![w] = "idle"]
  /\ lock' = [lock EXCEPT ![w] = "free"]
  /\ mixed' = TRUE
  /\ UNCHANGED <<json, md, edit, truth, edits>>

Next ==
  \E w \in Threads :
    \/ ManageKnowledgeBase(w) \/ DirectStoreFact(w) \/ UpdateFact(w) \/ DeleteFact(w)
    \/ Empty(w) \/ Save(w) \/ SaveMd(w) \/ Die(w)

Spec == Init /\ [][Next]_facts

-----------------------------------------------------------------------------
(* As long as edits of two processes do not overlap and none was cut off,  *)
(* no acknowledged fact is lost or comes back, and MEMORY.md says what     *)
(* memory.json says, whatever the threads of the gateway do at once.       *)
FactsAgree ==
  ~mixed /\ (\A w \in Threads : at[w] = "idle") => json = truth /\ md = truth
=============================================================================
