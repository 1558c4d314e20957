------------------------------- MODULE Indexer -------------------------------
(* The file indexer (app/skills/indexing/indexer.py): the differential sync at *)
(* start, the watchdog's queue and its workers, and the commit that writes one *)
(* file into two stores: the vector collection and the SQLite state of it.     *)
(* One watched file; its text is the set of the chunks it is cut into.  A      *)
(* chunk id is derived from path and text: the id of a chunk is the chunk.     *)
EXTENDS Naturals, FiniteSets, Sequences, SequencesExt

CONSTANTS Chunks,      \* pieces of text
          Outer,       \* those in the first or the last 64 KiB of the file
          Workers,     \* live worker threads
          Boot,        \* the bootstrap thread
          MaxEdits,    \* bound: changes of the file
          MaxQueue,    \* bound: event_queue's maxsize (5000 in the code)
          MaxBatch,    \* bound: size of a live batch (20 in the code)
          MaxStarts    \* bound: starts of the gateway

VARIABLES
  disk,       \* the file: [there, text, sig]; sig is its size and mtime, new
              \* with every change
  row,        \* its row in table files: [known, hash, sig, ids]
  chunks,     \* its rows in table chunks
  vector,     \* its entries in the collection
  queue,      \* event_queue
  debounced,  \* last_processed is less than 0.1 s old
  booting,    \* IS_BOOTSTRAPPING
  pc,         \* what each thread does
  stat,       \* the stat each thread works with
  seen,       \* the chunk rows and the raw hash it read: [rows, hash]
  batch,      \* its results that are not committed
  purge,      \* filepaths_to_purge of a worker is not empty
  erase,      \* ids a thread is about to delete from the collection
  starts,     \* starts so far
  calm,       \* history: each change came when all was settled, and nothing failed
  torn,       \* history: a commit was cut off, or a record or a delete failed
  recreated   \* history: the collection was dropped and created again

vars == <<disk, row, chunks, vector, queue, debounced, booting, pc, stat, seen,
          batch, purge, erase, starts, calm, torn, recreated>>
store == <<row, chunks, vector>>
work == <<pc, stat, seen, batch, purge, erase>>
history == <<calm, torn, recreated>>

Threads == Workers \cup {Boot}

(* _get_raw_hash: the beginning and the end of the file, and its size. *)
RawHash(text) == <<text \cap Outer, Cardinality(text)>>

NoRow == [known |-> FALSE, hash |-> RawHash({}), sig |-> 0, ids |-> {}]
NothingSeen == [rows |-> {}, hash |-> RawHash({})]

Init ==
  /\ disk \in [there: BOOLEAN, text: SUBSET Chunks, sig: {1}] /\ (~disk.there => disk.text = {})
  /\ row = NoRow /\ chunks = {} /\ vector = {}
  /\ queue = <<>> /\ debounced = FALSE /\ booting = TRUE
  /\ pc = [t \in Threads |-> "off"]
  /\ stat = [t \in Threads |-> 0] /\ seen = [t \in Threads |-> NothingSeen]
  /\ batch = [t \in Threads |-> <<>>]
  /\ purge = [t \in Threads |-> FALSE] /\ erase = [t \in Threads |-> {}]
  /\ starts = 0 /\ calm = TRUE /\ torn = FALSE /\ recreated = FALSE

(* _is_valid_file: an empty file is not indexed. *)
Valid == disk.there /\ disk.text # {}

Settled ==
  /\ queue = <<>> /\ ~booting /\ ~debounced
  /\ \A t \in Workers : pc[t] = "idle" /\ batch[t] = <<>> /\ ~purge[t]

(* The gateway starts; the collection's embedding dimension may have changed,  *)
(* and then it is dropped and the rows of table files are deleted.             *)
Recreate ==
  /\ vector' = {} /\ row' = NoRow /\ recreated' = TRUE /\ UNCHANGED chunks

Start ==
  /\ pc[Boot] = "off" /\ starts < MaxStarts
  /\ starts' = starts + 1 /\ booting' = TRUE /\ queue' = <<>> /\ debounced' = FALSE
  /\ pc' = [t \in Threads |-> IF t = Boot THEN "walk" ELSE "idle"]
  /\ \/ UNCHANGED <<row, chunks, vector, recreated>>
     \/ vector # {} /\ Recreate
  /\ UNCHANGED <<disk, stat, seen, batch, purge, erase, calm, torn>>

(* The process ends; all threads are daemons and stop where they are. *)
Exit ==
  /\ pc[Boot] # "off"
  /\ torn' = (torn \/ \E t \in Threads : pc[t] \in {"record", "erase", "forget"})
  /\ calm' = (calm /\ torn' = torn)
  /\ pc' = [t \in Threads |-> "off"] /\ queue' = <<>> /\ debounced' = FALSE
  /\ stat' = [t \in Threads |-> 0] /\ seen' = [t \in Threads |-> NothingSeen]
  /\ batch' = [t \in Threads |-> <<>>]
  /\ purge' = [t \in Threads |-> FALSE] /\ erase' = [t \in Threads |-> {}]
  /\ UNCHANGED <<disk, store, booting, starts, recreated>>

(* Someone changes the file, in place or by a rename; the observer thread      *)
(* debounces the change and queues it.  Nothing is queued while the bootstrap  *)
(* runs, when the queue is full, or of a rename: there is no on_moved.         *)
Offered(action) ==
  IF pc[Boot] = "off" \/ booting \/ Len(queue) = MaxQueue
    \/ (action = "changed" /\ debounced)
  THEN queue ELSE Append(queue, action)

Change ==
  /\ disk.sig < MaxEdits
  /\ \E f \in [there: BOOLEAN, text: SUBSET Chunks, sig: {disk.sig + 1}], renamed \in BOOLEAN :
       /\ f.there \/ disk.there
       /\ f.there # disk.there \/ f.text # disk.text
       /\ ~f.there => f.text = {}
       /\ disk' = f
       /\ queue' = IF renamed THEN queue ELSE Offered(IF f.there THEN "changed" ELSE "deleted")
       /\ debounced' = (pc[Boot] # "off" /\ ((f.there /\ ~renamed) \/ debounced))
       /\ calm' = (calm /\ (pc[Boot] = "off" \/ (Settled /\ ~renamed)) /\ (f.there => f.text # {}))
  /\ UNCHANGED <<store, booting, work, starts, torn, recreated>>

Debounced ==
  /\ debounced /\ debounced' = FALSE
  /\ UNCHANGED <<disk, store, queue, booting, work, starts, history>>

(* The bootstrap walks the zones: a file that is gone is purged, one that is   *)
(* there is examined, one that is neither there nor known is left alone.       *)
Walk ==
  /\ pc[Boot] = "walk"
  /\ pc' = [pc EXCEPT ![Boot] = IF Valid THEN "examine"
                                ELSE IF row.known THEN "purge" ELSE "end"]
  /\ stat' = [stat EXCEPT ![Boot] = disk.sig]
  /\ UNCHANGED <<disk, store, queue, debounced, booting, seen, batch, purge, erase, starts, history>>

EndBoot ==
  /\ pc[Boot] = "end" /\ pc' = [pc EXCEPT ![Boot] = "done"] /\ booting' = FALSE
  /\ UNCHANGED <<disk, store, queue, debounced, stat, seen, batch, purge, erase, starts, history>>

(* What a thread does when it is through with a file or a commit. *)
Next1(t) == IF t = Boot THEN "end" ELSE "idle"

(* A worker takes an event and looks at the file. *)
Get(t) ==
  /\ t # Boot /\ pc[t] = "idle" /\ queue # <<>> /\ Len(batch[t]) < MaxBatch
  /\ queue' = Tail(queue)
  /\ IF Head(queue) = "deleted"
     THEN purge' = [purge EXCEPT ![t] = TRUE] /\ UNCHANGED <<pc, stat>>
     ELSE /\ pc' = [pc EXCEPT ![t] = IF Valid THEN "examine" ELSE "idle"]
          /\ stat' = [stat EXCEPT ![t] = disk.sig] /\ UNCHANGED purge
  /\ UNCHANGED <<disk, store, debounced, booting, seen, batch, erase, starts, history>>

Item(action, t, hash, ids, new, old) ==
  [action |-> action, hash |-> hash, sig |-> stat[t], ids |-> ids, new |-> new, old |-> old]

(* _process_file_for_ingestion, first half: the two tables, the stat and the   *)
(* raw hash decide whether the file has to be read.  A file that cannot be     *)
(* opened has no hash and is skipped.                                          *)
Examine(t) ==
  /\ pc[t] = "examine"
  /\ LET known == row.known /\ chunks # {} IN
     \/ /\ known /\ row.sig = stat[t]
        /\ pc' = [pc EXCEPT ![t] = Next1(t)] /\ UNCHANGED <<seen, batch, calm>>
     \/ /\ ~(known /\ row.sig = stat[t])
        /\ pc' = [pc EXCEPT ![t] = Next1(t)] /\ calm' = (calm /\ ~Valid)
        /\ UNCHANGED <<seen, batch>>
     \/ /\ known /\ row.sig # stat[t] /\ Valid /\ row.hash = RawHash(disk.text)
        /\ batch' = [batch EXCEPT ![t] = Append(@, Item("update_stat", t, row.hash, row.ids, {}, {}))]
        /\ pc' = [pc EXCEPT ![t] = IF t = Boot THEN "commit" ELSE "idle"]
        /\ UNCHANGED <<seen, calm>>
     \/ /\ ~(known /\ (row.sig = stat[t] \/ row.hash = RawHash(disk.text))) /\ Valid
        /\ seen' = [seen EXCEPT ![t] = [rows |-> chunks, hash |-> RawHash(disk.text)]]
        /\ pc' = [pc EXCEPT ![t] = "extract"] /\ UNCHANGED <<batch, calm>>
  /\ UNCHANGED <<disk, store, queue, debounced, booting, stat, purge, erase, starts, torn, recreated>>

Extracted_Swapped(t) ==
  LET new == seen[t].rows \ disk.text old == disk.text \ seen[t].rows IN
  IF new = {} /\ old = {} THEN Item("update_stat", t, seen[t].hash, disk.text, {}, {})
  ELSE Item("ingest", t, seen[t].hash, disk.text, new, old)

(* Second half: the text is read, cut and compared with the chunk rows. *)
Extracted(t) ==
  LET new == disk.text \ seen[t].rows old == seen[t].rows \ disk.text IN
  IF new = {} /\ old = {} THEN Item("update_stat", t, seen[t].hash, disk.text, {}, {})
  ELSE Item("ingest", t, seen[t].hash, disk.text, new, old)

(* A file of which no text can be extracted any more is skipped. *)
Extract(t) ==
  /\ pc[t] = "extract"
  /\ \/ /\ Valid /\ batch' = [batch EXCEPT ![t] = Append(@, Extracted(t))]
        /\ pc' = [pc EXCEPT ![t] = IF t = Boot THEN "commit" ELSE "idle"] /\ UNCHANGED calm
     \/ /\ pc' = [pc EXCEPT ![t] = Next1(t)] /\ calm' = (calm /\ ~Valid) /\ UNCHANGED batch
  /\ UNCHANGED <<disk, store, queue, debounced, booting, stat, seen, purge, erase, starts, torn,
                 recreated>>

New(b) == UNION {b[i].new : i \in DOMAIN b}
Old(b) == UNION {b[i].old : i \in DOMAIN b}

(* _commit_batch, in its three steps.  Upsert into the collection; an error of *)
(* the embedding server is printed and the rest goes on.                       *)
Upsert(t) ==
  /\ batch[t] # <<>> /\ pc[t] \in {"idle", "commit"}
  /\ \/ vector' = vector \cup New(batch[t]) /\ UNCHANGED calm
     \/ New(batch[t]) # {} /\ UNCHANGED vector /\ calm' = FALSE
  /\ pc' = [pc EXCEPT ![t] = "record"]
  /\ UNCHANGED <<disk, row, chunks, queue, debounced, booting, stat, seen, batch, purge, erase, starts, torn, recreated>>

(* The state database: the row of the file, its new chunks, minus the old ones. *)
(* An error is printed, and the old ids are deleted from the collection anyway. *)
Record(t) ==
  /\ pc[t] = "record"
  /\ \/ /\ row' = [known |-> TRUE, hash |-> Last(batch[t]).hash,
                    sig |-> Last(batch[t]).sig, ids |-> Last(batch[t]).ids]
        /\ chunks' = (chunks \cup New(batch[t])) \ Old(batch[t])
        /\ UNCHANGED <<calm, torn>>
     \/ UNCHANGED <<row, chunks>> /\ calm' = FALSE /\ torn' = TRUE
  /\ erase' = [erase EXCEPT ![t] = Old(batch[t])]
  /\ batch' = [batch EXCEPT ![t] = <<>>]
  /\ pc' = [pc EXCEPT ![t] = "erase"]
  /\ UNCHANGED <<disk, vector, queue, debounced, booting, stat, seen, purge, starts,
                 recreated>>

(* The old ids are deleted from the collection; an error is swallowed. *)
Erase(t) ==
  /\ pc[t] \in {"erase", "forget"}
  /\ \/ vector' = vector \ erase[t] /\ UNCHANGED <<calm, torn>>
     \/ erase[t] # {} /\ UNCHANGED vector /\ calm' = FALSE /\ torn' = TRUE
  /\ erase' = [erase EXCEPT ![t] = {}]
  /\ pc' = [pc EXCEPT ![t] = Next1(t)]
  /\ UNCHANGED <<disk, row, chunks, queue, debounced, booting, stat, seen, batch, purge, starts, recreated>>

(* _purge_files_completely, its database half; the collection follows in Erase. *)
Purge(t) ==
  /\ pc[t] = "purge" \/ (pc[t] = "idle" /\ purge[t] /\ t # Boot)
  /\ erase' = [erase EXCEPT ![t] = row.ids]
  /\ chunks' = chunks \ row.ids /\ row' = NoRow
  /\ purge' = [purge EXCEPT ![t] = FALSE]
  /\ pc' = [pc EXCEPT ![t] = "forget"]
  /\ UNCHANGED <<disk, vector, queue, debounced, booting, stat, seen, batch, starts, history>>

(* An error of the state database ends the bootstrap's walk or purge, and      *)
(* lets the watchdog work; it ends a worker for good, with all it had in hand. *)
BootFails ==
  /\ pc[Boot] \in {"walk", "purge"}
  /\ pc' = [pc EXCEPT ![Boot] = "done"] /\ booting' = FALSE /\ calm' = FALSE
  /\ UNCHANGED <<disk, store, queue, debounced, stat, seen, batch, purge, erase, starts, torn,
                 recreated>>

WorkerDies(t) ==
  /\ t # Boot /\ (pc[t] \in {"examine", "extract"} \/ (pc[t] = "idle" /\ purge[t]))
  /\ pc' = [pc EXCEPT ![t] = "dead"] /\ calm' = FALSE
  /\ batch' = [batch EXCEPT ![t] = <<>>] /\ purge' = [purge EXCEPT ![t] = FALSE]
  /\ UNCHANGED <<disk, store, queue, debounced, booting, stat, seen, erase, starts, torn, recreated>>

Next ==
  \/ Start \/ Exit \/ Change \/ Debounced \/ Walk \/ EndBoot \/ BootFails
  \/ \E t \in Threads :
       WorkerDies(t) \/ Get(t) \/ Examine(t) \/ Extract(t) \/ Upsert(t) \/ Record(t) \/ Erase(t) \/ Purge(t)

Spec == Init /\ [][Next]_vars

(* Every entry of the collection is known to the state database: its id is in  *)
(* table chunks, so that the next time the file is read it is dropped if it is *)
(* not of the text, or a thread is about to record or to delete it.  Holds     *)
(* however workers, purges, errors and failed upserts interleave, as long as   *)
(* no commit is cut off and no write of the state database and no delete fails.*)
(* (A purge deletes the ids of the file's row only, which may be fewer.)       *)
EntriesTracked ==
  torn \/ \A c \in vector :
    \/ c \in chunks
    \/ \E t \in Threads : (pc[t] = "record" /\ c \in New(batch[t])) \/ c \in erase[t]

(* When each change came after the previous one had been dealt with, was no    *)
(* rename while the gateway ran, nothing failed and the file never was empty,  *)
(* the settled collection holds a text that the raw hash does not tell from    *)
(* the file's, and nothing of a file that is gone: through edits, deletions,   *)
(* restarts and offline changes.                                               *)
IndexIsTrue ==
  calm /\ ~recreated /\ Settled =>
    IF disk.there THEN RawHash(vector) = RawHash(disk.text) ELSE vector = {}
=============================================================================
