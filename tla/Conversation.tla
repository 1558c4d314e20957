---------------------------- MODULE Conversation ----------------------------
(* The conversation of the admin (memory/manager.py, compactor.py): one    *)
(* file a day, a block a message.  An append condenses a file that grew    *)
(* too long and, once a day, deletes the oldest files; the endpoints of    *)
(* the memory tab cut the file of today.  Every operation runs without a   *)
(* pause on the event loop, so no other comes between; but a file is       *)
(* emptied before it is written again, and an error of the write, which is *)
(* swallowed, or the end of the process loses what was not yet written.    *)
EXTENDS Naturals, SequencesExt, FiniteSetsExt

CONSTANTS
  Sizes,            \* lengths of a message
  MaxChars, Keep,   \* MAX_SESSION_CHARS and its 60%
  MaxContext,       \* max_chars of load_recent_memory
  MaxFiles,         \* MAX_SESSION_FILES
  MaxDays, MaxMessages

VARIABLES
  file,      \* per day the blocks of its file, none for a file that is not there
  today,
  pruned,    \* _last_prune: the day of the last clean-up, 0 after a start
  sent,      \* ghost: per day how many messages were appended and not deleted by the
             \* user or with their file: the first ones, numbered from 1
  gaps       \* ghost: the days whose file a failed write has cut short

conversation == <<file, today, pruned, sent, gaps>>

Days == 1 .. MaxDays

SumOf(blocks) == FoldSeq(LAMBDA b, n : b.size + n, 0, blocks)

Latest(blocks, k) == SubSeq(blocks, Len(blocks) - k + 1, Len(blocks))

Newest_SkipLarge(blocks, limit) ==    \* mutant: continue instead of break
  FoldRight(LAMBDA b, kept : IF SumOf(kept) + b.size <= limit THEN <<b>> \o kept ELSE kept,
            blocks, << >>)

(* The longest run of newest blocks within a limit: the loop stops at the  *)
(* first block that does not fit, even if an older one would.              *)
Newest(blocks, limit) ==
  Latest(blocks, Max({0} \cup {k \in 1 .. Len(blocks) : SumOf(Latest(blocks, k)) <= limit}))

TooLong(blocks) == SumOf(blocks) > MaxChars

(* The summary of what is dropped is put in front of the first block that  *)
(* is retained; without one it is a block of its own.                      *)
Condensed(blocks) ==
  IF ~TooLong(blocks) THEN blocks
  ELSE LET kept == Newest(blocks, Keep)
       IN IF kept = << >> THEN <<[id |-> 0, size |-> 1]>>
          ELSE [kept EXCEPT ![1].size = @ + 1]

(* load_recent_memory: whole blocks, and the newest in any case.           *)
Recent(blocks) ==
  IF SumOf(blocks) <= MaxContext \/ blocks = << >> THEN blocks
  ELSE LET fit == Newest(blocks, MaxContext)
       IN IF fit = << >> THEN Latest(blocks, 1) ELSE fit

(* prune_old_sessions: the files written longest ago.  Only the file of    *)
(* today is ever written, so that this is the order of the days.           *)
Oldest(written) == {d \in written : Cardinality({e \in written : e > d}) >= MaxFiles}

(* The files there are; one that lost all it had is empty and still there. *)
Written == {d \in Days : file[d] # << >>} \cup gaps

(* What open("w") and write leave of the blocks that were to be written:   *)
(* the first ones, perhaps not all of them.                                *)
Put(blocks, k) == SubSeq(blocks, 1, k)

Init ==
  /\ file = [d \in Days |-> << >>]
  /\ today = 1
  /\ pruned = 0
  /\ sent = [d \in Days |-> 0]
  /\ gaps = {}

(* The clean-up is due when the last one was more than 86400 s ago: the day *)
(* after it perhaps, later in any case.                                     *)
PruneDue ==
  CASE pruned = today -> {FALSE}
    [] pruned # 0 /\ pruned = today - 1 -> BOOLEAN
    [] OTHER -> {TRUE}

(* append_to_memory.  The clean-up counts the file of today, which it      *)
(* spares as the newest; a file that cannot be deleted stays.  The end of  *)
(* the process while it writes is this step, with a write that failed, and *)
(* Restart.                                                                *)
AppendToMemory ==
  \E size \in Sizes, due \in PruneDue :
    LET id == sent[today] + 1
        added == Append(file[today], [id |-> id, size |-> size])
        new == Condensed(added)
    IN /\ id <= MaxMessages
       /\ \E old \in SUBSET (IF due THEN Oldest(Written \cup {today}) ELSE {}), k \in 0 .. Len(new) :
            /\ k < Len(new) => TooLong(added)
            /\ file' = [d \in Days |-> IF d \in old THEN << >>
                                       ELSE IF d = today THEN Put(new, k) ELSE file[d]]
            /\ sent' = [d \in Days |-> IF d \in old THEN 0
                                       ELSE IF d = today THEN id ELSE sent[d]]
            /\ gaps' = (gaps \ old) \cup (IF k < Len(new) THEN {today} ELSE {})
       /\ pruned' = IF due THEN today ELSE pruned
       /\ UNCHANGED today

ClearMemory ==
  /\ today \in Written
  /\ file' = [file EXCEPT ![today] = << >>]
  /\ sent' = [sent EXCEPT ![today] = 0]
  /\ gaps' = gaps \ {today}
  /\ UNCHANGED <<today, pruned>>

(* truncate_memory_at: the block with the index and all after it go, the   *)
(* file too when nothing is to be left; or the write fails.                *)
TruncateMemoryAt ==
  \E index \in 0 .. Len(file[today]) - 1 : \E k \in 0 .. index :
    /\ file' = [file EXCEPT ![today] = Put(@, k)]
    /\ sent' = [sent EXCEPT ![today] =
                  IF index = 0 THEN 0 ELSE @ - (Len(file[today]) - index)]
    /\ gaps' = IF index = 0 THEN gaps \ {today}
               ELSE IF k < index THEN gaps \cup {today} ELSE gaps
    /\ UNCHANGED <<today, pruned>>

Midnight ==
  /\ today < MaxDays
  /\ today' = today + 1
  /\ UNCHANGED <<file, pruned, sent, gaps>>

Restart ==
  /\ pruned' = 0
  /\ UNCHANGED <<file, today, sent, gaps>>

Next == AppendToMemory \/ ClearMemory \/ TruncateMemoryAt \/ Midnight \/ Restart

Spec == Init /\ [][Next]_conversation

-----------------------------------------------------------------------------
(* The blocks are the latest of n messages in their order, behind a        *)
(* summary of older ones perhaps.                                          *)
AreLatest(blocks, n) ==
  /\ Len(blocks) <= n + 1
  /\ \A i \in DOMAIN blocks :
       blocks[i].id = n + i - Len(blocks) \/ (i = 1 /\ blocks[i].id = 0)

(* The blocks are some of n messages, in their order and none of them      *)
(* twice.                                                                  *)
AreSome(blocks, n) ==
  /\ Len(blocks) <= n + 1
  /\ \A i \in DOMAIN blocks : blocks[i].id <= n + i - Len(blocks)
  /\ \A i, j \in DOMAIN blocks : i < j => blocks[i].id < blocks[j].id

Kept(d, blocks) == IF d \in gaps THEN AreSome(blocks, sent[d]) ELSE AreLatest(blocks, sent[d])

(* Condensing, cutting and cleaning up leave no hole in a conversation:    *)
(* what a file holds, and what of it the model is shown, are the latest    *)
(* messages of its day in their order, and the file of today survives the  *)
(* clean-up.  Only a write that failed in place, between open("w") and its *)
(* end, makes a hole (compactor.py:89, manager.py:152): then the messages  *)
(* that are left are in their order still, and what is said later comes    *)
(* after them.  The model is always shown the last block.                  *)
HistoryHasNoHole ==
  \A d \in Days :
    /\ Kept(d, file[d])
    /\ Kept(d, Recent(file[d]))
    /\ file[d] # << >> => Recent(file[d]) # << >>
    /\ d = today /\ sent[d] # 0 => d \in Written
=============================================================================
