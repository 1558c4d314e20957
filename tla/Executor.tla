------------------------------ MODULE Executor ------------------------------
(***************************************************************************)
(* One execution of ExecutorAgent (app/agents/executor.py): execute(), the *)
(* administrator's loop, or _execute_tier_isolated(), the loop for the     *)
(* other tiers.  The model is asked again and again; the tool calls of an  *)
(* answer are looked at one by one, each refused, approved, run, or cut    *)
(* short, and each answered with a message of role "tool".                 *)
(*                                                                         *)
(* A call is a tool with its arguments, so that two calls with the same    *)
(* arguments are the same call.  Tools and the model belong to the         *)
(* environment; the approval gate is module Hitl.  The generator is        *)
(* suspended at its yields too: after announcing a call, and between the   *)
(* trace of a call and its message.                                        *)
(***************************************************************************)
EXTENDS Naturals, Sequences, FiniteSets

CONSTANTS
  Paths,           \* which loops: "admin", "tier"
  Tools, Calls,
  ToolOf,          \* the tool of a call
  BadCalls,        \* calls whose arguments are not a JSON object
  HighRisk,        \* tools whose manifest says risk "high"
  MAX_TOOL_CALLS,  \* rounds of tool calls, 10 in the code
  MaxPerTool,      \* calls of one tool before the recursion limit, 5 in the code
  MaxBatch         \* bound: tool calls in one answer of the model

ASSUME ExecutorAssumption ==
  /\ Paths \subseteq {"admin", "tier"}
  /\ ToolOf \in [Calls -> Tools] /\ <<>> \notin Calls
  /\ BadCalls \subseteq Calls /\ HighRisk \subseteq Tools
  /\ MAX_TOOL_CALLS \in Nat /\ MaxPerTool \in Nat \ {0} /\ MaxBatch \in Nat \ {0}

Batches == UNION {[1..n -> Calls] : n \in 1..MaxBatch}

VARIABLES
  path,      \* the loop this execution runs
  pc,        \* where the execution is: see Places
  stop,      \* cancel_event.is_set()
  rounds,    \* tool_calls_made
  batch,     \* calls of the current answer not yet looked at
  current,   \* the call being looked at
  counts,    \* call_counts, up to one more than the limit
  seen,      \* call_history
  owed,      \* calls of the current answer without a tool message yet
  untraced,  \* calls of the current answer without a trace yet
  asked,     \* history: requests to the tools model, up to MAX_TOOL_CALLS + 2
  started,   \* history: calls handed to execute_tool, in order
  denied     \* history: calls whose approval was denied

vars == <<path, pc, stop, rounds, batch, current, counts, seen, owed, untraced,
          asked, started, denied>>
loop == <<path, rounds, asked>>
guards == <<counts, seen>>
debts == <<owed, untraced>>

Places == {"top", "model", "calls", "announced", "approval", "tool", "reporting",
           "streaming", "done"}

UpTo(n, max) == IF n < max THEN n ELSE max

Init ==
  /\ path \in Paths
  /\ pc \in {"top", "streaming"} /\ stop = FALSE
  /\ rounds = 0 /\ batch = <<>> /\ current = <<>>
  /\ counts = [t \in Tools |-> 0] /\ seen = {}
  /\ owed = 0 /\ untraced = 0
  /\ asked = 0 /\ started = <<>> /\ denied = {}

Cancel ==
  /\ pc # "done" /\ ~stop /\ stop' = TRUE
  /\ UNCHANGED <<pc, loop, batch, current, guards, debts, started, denied>>

(* "[Interrupted]" is yielded and the generator returns.                   *)
Interrupted ==
  /\ stop /\ pc \in {"top", "calls", "streaming"} /\ (pc = "calls" => batch # <<>>)
  /\ pc' = "done"
  /\ UNCHANGED <<stop, loop, batch, current, guards, debts, started, denied>>

AskModel ==
  /\ pc = "top" /\ ~stop
  /\ pc' = "model" /\ asked' = UpTo(asked + 1, MAX_TOOL_CALLS + 2)
  /\ UNCHANGED <<path, stop, rounds, batch, current, guards, debts, started, denied>>

(* No tool calls, or calls in a round too many: a final answer is streamed *)
(* (or its text yielded).                                                  *)
FinalAnswer ==
  /\ pc = "model"
  /\ pc' = "streaming"
  /\ UNCHANGED <<stop, loop, batch, current, guards, debts, started, denied>>

ToolCalls ==
  /\ pc = "model" /\ rounds < MAX_TOOL_CALLS
  /\ batch' \in Batches
  /\ owed' = Len(batch') /\ untraced' = Len(batch')
  /\ pc' = "calls"
  /\ UNCHANGED <<stop, loop, current, guards, started, denied>>

StreamEnds ==
  /\ pc = "streaming" /\ pc' = "done"
  /\ UNCHANGED <<stop, loop, batch, current, guards, debts, started, denied>>

(* The inference client raises, and the exception leaves the generator.    *)
Raise ==
  /\ pc \in {"model", "streaming"} /\ pc' = "done"
  /\ UNCHANGED <<stop, loop, batch, current, guards, debts, started, denied>>

-----------------------------------------------------------------------------
(* The calls of one answer.                                                *)

Calling == pc = "calls" /\ ~stop /\ batch # <<>>
Taken == batch' = Tail(batch) /\ current' = Head(batch)

(* call_counts, which the recursion limit looks at first.                  *)
Count(c) == counts' = [counts EXCEPT ![ToolOf[c]] = UpTo(@ + 1, MaxPerTool + 1)]

Blocked(c) == counts[ToolOf[c]] >= MaxPerTool

(* A trace for the current call; its message follows the next yield.       *)
Trace == untraced' = untraced - 1 /\ pc' = "reporting"

(* Mutant of RecursionBlocked: the model gets no answer to the call.       *)
RecursionBlocked_Silent ==
  /\ Calling /\ Taken /\ Count(Head(batch))
  /\ Blocked(Head(batch))
  /\ untraced' = untraced - 1
  /\ UNCHANGED <<pc, stop, loop, seen, owed, started, denied>>

RecursionBlocked ==
  /\ Calling /\ Taken /\ Count(Head(batch))
  /\ Blocked(Head(batch))
  /\ Trace
  /\ UNCHANGED <<stop, loop, seen, owed, started, denied>>

(* The same call again: the administrator's execution ends there, without  *)
(* a tool message; the isolated one answers the model and goes on.         *)
LoopDetected ==
  /\ Calling /\ Taken /\ Count(Head(batch))
  /\ ~Blocked(Head(batch)) /\ Head(batch) \in seen
  /\ IF path = "admin" THEN untraced' = untraced - 1 /\ pc' = "done" ELSE Trace
  /\ UNCHANGED <<stop, loop, seen, owed, started, denied>>

(* Mutant of Admitted: call_history is not consulted.                      *)
Admitted_Again(c) == ~Blocked(c)

Admitted(c) == ~Blocked(c) /\ c \notin seen

(* Neither blocked nor repeated: the call is announced.                    *)
Admit ==
  /\ Calling /\ Taken /\ Count(Head(batch))
  /\ Admitted(Head(batch))
  /\ seen' = seen \cup {Head(batch)}
  /\ pc' = "announced"
  /\ UNCHANGED <<stop, loop, debts, started, denied>>

(* Whatever the event says meanwhile: an error for arguments that do not   *)
(* parse, an approval for a high-risk tool, or the tool.                   *)
StartCall ==
  /\ pc = "announced"
  /\ \/ current \in BadCalls /\ Trace /\ UNCHANGED started
     \/ /\ current \notin BadCalls /\ ToolOf[current] \in HighRisk
        /\ pc' = "approval" /\ UNCHANGED <<untraced, started>>
     \/ /\ current \notin BadCalls /\ ToolOf[current] \notin HighRisk
        /\ pc' = "tool" /\ started' = Append(started, current) /\ UNCHANGED untraced
  /\ UNCHANGED <<stop, loop, batch, current, guards, owed, denied>>

(* The approved tool is started, whatever the event says meanwhile.        *)
Approve ==
  /\ pc = "approval" /\ pc' = "tool"
  /\ started' = Append(started, current)
  /\ UNCHANGED <<stop, loop, batch, current, guards, debts, denied>>

Deny ==
  /\ pc = "approval"
  /\ denied' = denied \cup {current}
  /\ Trace
  /\ UNCHANGED <<stop, loop, batch, current, guards, owed, started>>

(* The tool finished, failed, or ran into its 60 s.                        *)
ToolEnds ==
  /\ pc = "tool" /\ Trace
  /\ UNCHANGED <<stop, loop, batch, current, guards, owed, started, denied>>

(* The tool message follows what was yielded.                              *)
Report ==
  /\ pc = "reporting" /\ pc' = "calls"
  /\ owed' = owed - 1
  /\ UNCHANGED <<stop, loop, batch, current, guards, untraced, started, denied>>

(* asyncio.wait returns with the event set: whatever the tool did is       *)
(* recorded as cancelled.                                                  *)
ToolCancelled ==
  /\ pc = "tool" /\ stop /\ pc' = "done"
  /\ untraced' = untraced - 1
  /\ UNCHANGED <<stop, loop, batch, current, guards, owed, started, denied>>

(* Mutant of RoundOver: the round is not counted.                          *)
RoundOver_Uncounted ==
  /\ pc = "calls" /\ batch = <<>>
  /\ pc' = "top"
  /\ UNCHANGED <<loop, stop, batch, current, guards, debts, started, denied>>

(* The for loop is over.                                                   *)
RoundOver ==
  /\ pc = "calls" /\ batch = <<>>
  /\ pc' = "top"
  /\ rounds' = rounds + 1
  /\ UNCHANGED <<path, stop, asked, batch, current, guards, debts, started, denied>>

Step ==
  \/ Interrupted \/ AskModel \/ FinalAnswer \/ ToolCalls \/ StreamEnds \/ Raise
  \/ RecursionBlocked \/ LoopDetected \/ Admit \/ StartCall \/ Approve \/ Deny
  \/ ToolEnds \/ ToolCancelled \/ Report \/ RoundOver

Next == Step \/ Cancel

(* A ready coroutine runs; the model answers or the client raises; a tool  *)
(* is waited for 60 seconds and an approval 300.                           *)
Spec == Init /\ [][Next]_vars /\ WF_vars(Step)

-----------------------------------------------------------------------------
(* The type of the state.                                                  *)
TypeOK ==
  /\ pc \in Places
  /\ path \in Paths /\ stop \in BOOLEAN
  /\ rounds \in 0..MAX_TOOL_CALLS /\ asked \in 0..(MAX_TOOL_CALLS + 2)
  /\ batch \in Seq(Calls) /\ Len(batch) <= MaxBatch
  /\ current \in Calls \cup {<<>>}
  /\ counts \in [Tools -> 0..(MaxPerTool + 1)] /\ seen \in SUBSET Calls
  /\ owed \in 0..MaxBatch /\ untraced \in 0..MaxBatch
  /\ started \in Seq(Calls) /\ denied \in SUBSET Calls

(* The model is never asked while one of its tool calls is unanswered, and *)
(* a call not looked at yet, or running, is the only one without a trace   *)
(* for the critic: the message of a call is behind its trace by one yield. *)
CallsAnswered ==
  LET underWay == IF pc \in {"announced", "approval", "tool"} THEN 1 ELSE 0
  IN  pc # "done" =>
        /\ untraced = Len(batch) + underWay
        /\ owed = untraced + (IF pc = "reporting" THEN 1 ELSE 0)

(* No tool is run twice with the same arguments in one execution.          *)
NoCallRepeated ==
  \A i, j \in 1..Len(started) : started[i] = started[j] => i = j

(* No tool is run more often than the recursion limit allows.              *)
RunsLimited ==
  \A t \in Tools : Cardinality({i \in 1..Len(started) : ToolOf[started[i]] = t}) <= MaxPerTool

(* What the user denied is not run later in the execution, however often   *)
(* the model asks again.                                                   *)
DeniedStaysDenied == \A i \in 1..Len(started) : started[i] \notin denied

(* Whatever the model answers, in either loop: it is asked for tools at    *)
(* most once more than there may be rounds.                                *)
ModelCallsBounded == asked <= MAX_TOOL_CALLS + 1
=============================================================================
