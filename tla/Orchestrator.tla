---------------------------- MODULE Orchestrator ----------------------------
(***************************************************************************)
(* Concurrent chat requests: Orchestrator.process and cancel_session of    *)
(* app/core/orchestrator.py, with the direct (unplanned) path of           *)
(* _execute_task, in which the administrator's ExecutorAgent.execute loop  *)
(* of app/agents/executor.py runs.                                         *)
(*                                                                         *)
(* asyncio is cooperative: an action is what a coroutine does from one     *)
(* await to the next.  The answers of the model, of a tool and of the      *)
(* approval gate are chosen by the environment; which calls a tool loop    *)
(* refuses (Executor) and how an approval is resolved (Hitl) are modules   *)
(* of their own.  The planned path is PlanExecution.                       *)
(*                                                                         *)
(* A generator is suspended at a yield as well.  A yield after which the   *)
(* event is looked at next (a result, a refusal) is not told apart from    *)
(* that look: a stop at the yield is a stop just before it.                *)
(***************************************************************************)
EXTENDS Naturals, TaskStore

CONSTANTS
  Calls,         \* calls of process(), each creating one task
  Sessions,      \* session ids
  SessionOf,     \* the session each call is made for
  MaxRetries,    \* max_retries, 3 in the code
  MaxToolCalls,  \* MAX_TOOL_CALLS rounds of tool calls, 10 in the code
  MaxBatch,      \* bound: tool calls the model asks for in one round
  LostClasses,   \* classes of the exception a lost inference connection raises
  NoCall

ASSUME OrchestratorAssumption ==
  /\ SessionOf \in [Calls -> Sessions]
  /\ MaxRetries \in Nat \ {0} /\ MaxToolCalls \in Nat /\ MaxBatch \in Nat \ {0}
  /\ LostClasses \subseteq {"httpx.ConnectError", "aiohttp.ClientConnectorError"}
  /\ NoCall \notin Calls

VARIABLES
  rows,      \* the task table
  pc,        \* where each call's coroutine is suspended
  registry,  \* _cancel_events: session -> the call whose event it holds
  stop,      \* cancel_event.is_set() of each call
  attempt,   \* the retry loop's attempt
  rounds,    \* tool_calls_made of the running executor
  left,      \* tool calls of the current round not yet looked at
  cause,     \* history: why the call ended
  shared     \* history: the call ran while another one of its session did

vars == <<rows, pc, registry, stop, attempt, rounds, left, cause, shared>>
execVars == <<rounds, left>>

(* "thinking" awaits the tools model, "answering" the model that writes    *)
(* the answer, "announced" the yield of a call that was looked at.         *)
Running == {"preparing", "thinking", "answering", "announced", "asking", "tool", "backoff"}
PC == Running \cup {"idle", "returned", "gone"}

Init ==
  /\ rows = [c \in Calls |-> Absent]
  /\ pc = [c \in Calls |-> "idle"]
  /\ registry = [s \in Sessions |-> NoCall]
  /\ stop = [c \in Calls |-> FALSE]
  /\ attempt = [c \in Calls |-> 0]
  /\ rounds = [c \in Calls |-> 0]
  /\ left = [c \in Calls |-> 0]
  /\ cause = [c \in Calls |-> "none"]
  /\ shared = [c \in Calls |-> FALSE]

(* The finally clause: the session's entry is deleted if there is one,     *)
(* whichever call it belongs to.                                           *)
Unregister(c) == registry' = [registry EXCEPT ![SessionOf[c]] = NoCall]

(* Every way out of process(): the status is written, then finally runs.   *)
(* The text of an error is yielded in between; a client that goes away     *)
(* there leaves the same rows and registry behind.                         *)
Return(c, status, why) ==
  /\ rows' = UpdateStatus(rows, c, status)
  /\ cause' = [cause EXCEPT ![c] = why]
  /\ pc' = [pc EXCEPT ![c] = "returned"]
  /\ Unregister(c)
  /\ UNCHANGED <<stop, attempt, execVars, shared>>

Goto(c, where) ==
  /\ pc' = [pc EXCEPT ![c] = where]
  /\ UNCHANGED <<rows, registry, stop, attempt, cause, shared>>

(* Mutant of Interrupted: an interrupted call returns without an outcome.  *)
Interrupted_NoOutcome(c) == stop[c] /\ Return(c, rows[c], "interrupted")

(* The executor yields "[Interrupted]" and returns normally, so process()  *)
(* closes the task as after a full answer.                                 *)
Interrupted(c) == stop[c] /\ Return(c, Closed(rows[c]), "interrupted")

(* The running calls of c's session.                                       *)
Companions(c) == {d \in Calls : SessionOf[d] = SessionOf[c] /\ pc[d] \in Running}

Meet(c) ==
  shared' = [d \in Calls |-> \/ shared[d]
                             \/ d \in Companions(c)
                             \/ d = c /\ Companions(c) # {}]

(* Mutant of Process: the event is not registered under the session.       *)
Process_Unregistered(c) ==
  /\ pc[c] = "idle"
  /\ rows' = UpdateStatus(Save(rows, c), c, "in_progress")
  /\ attempt' = [attempt EXCEPT ![c] = 1]
  /\ pc' = [pc EXCEPT ![c] = "preparing"]
  /\ Meet(c)
  /\ UNCHANGED <<registry, stop, execVars, cause>>

Process(c) ==
  /\ pc[c] = "idle"
  /\ rows' = UpdateStatus(Save(rows, c), c, "in_progress")
  /\ registry' = [registry EXCEPT ![SessionOf[c]] = c]
  /\ attempt' = [attempt EXCEPT ![c] = 1]
  /\ pc' = [pc EXCEPT ![c] = "preparing"]
  /\ Meet(c)
  /\ UNCHANGED <<stop, execVars, cause>>

(* cancel_session finds an event only under the session's current entry.   *)
CancelSession(s) ==
  /\ registry[s] # NoCall
  /\ stop' = [stop EXCEPT ![registry[s]] = TRUE]
  /\ UNCHANGED <<rows, pc, registry, attempt, execVars, cause, shared>>

(* The context of the request has been put together.  Without any tool the *)
(* answer is asked for at once, and the event not looked at.               *)
Prepared(c) ==
  /\ pc[c] = "preparing"
  /\ \/ Interrupted(c)
     \/ ~stop[c] /\ Goto(c, "thinking") /\ UNCHANGED execVars
     \/ Goto(c, "answering") /\ UNCHANGED execVars

(* No tool calls, or calls after the last allowed round: another model is  *)
(* asked for the answer, whatever the event says meanwhile.                *)
FinalAnswer(c) ==
  /\ pc[c] = "thinking"
  /\ Goto(c, "answering")
  /\ UNCHANGED execVars

(* The answer has been streamed, or was interrupted at one of its chunks.  *)
Answered(c) ==
  /\ pc[c] = "answering"
  /\ Interrupted(c) \/ Return(c, Closed(rows[c]), "answered")

(* Mutant of NextToolCall: the event is checked only between rounds.       *)
NextToolCall_Unchecked(c, n) ==
  \/ n = 0 /\ Interrupted(c)
  \/ /\ n > 0
     /\ left' = [left EXCEPT ![c] = n - 1]
     /\ Goto(c, "announced")
     /\ UNCHANGED rounds
  \/ /\ ~stop[c] /\ n = 0
     /\ rounds' = [rounds EXCEPT ![c] = @ + 1]
     /\ left' = [left EXCEPT ![c] = 0]
     /\ Goto(c, "thinking")

(* Look at the next tool call of the round, n of which remain: interrupted *)
(* by the event, announced, or found to repeat an earlier one, which ends  *)
(* the execution (loop_detected).  With none left, the while loop goes     *)
(* round, checking the event again before it asks the model.  Calls        *)
(* refused by the recursion limit are not counted in n.                    *)
NextToolCall(c, n) ==
  \/ Interrupted(c)
  \/ /\ ~stop[c] /\ n > 0
     /\ left' = [left EXCEPT ![c] = n - 1]
     /\ Goto(c, "announced")
     /\ UNCHANGED rounds
  \/ /\ ~stop[c] /\ n > 0
     /\ Return(c, Closed(rows[c]), "answered")
  \/ /\ ~stop[c] /\ n = 0
     /\ rounds' = [rounds EXCEPT ![c] = @ + 1]
     /\ left' = [left EXCEPT ![c] = 0]
     /\ Goto(c, "thinking")

Continue(c) == NextToolCall(c, left[c])

ToolCalls(c) ==
  /\ pc[c] = "thinking"
  /\ rounds[c] < MaxToolCalls
  /\ \E n \in 0..MaxBatch : NextToolCall(c, n)

(* The announced call is started, or awaits its approval, without another  *)
(* look at the event; arguments that do not parse end it.                  *)
StartCall(c) ==
  /\ pc[c] = "announced"
  /\ \/ \E where \in {"tool", "asking"} : Goto(c, where) /\ UNCHANGED execVars
     \/ Continue(c)

(* The approval gate ignores the event: an approved tool is started.       *)
Approve(c) ==
  /\ pc[c] = "asking"
  /\ Goto(c, "tool")
  /\ UNCHANGED execVars

(* Rejected, or nobody decided within APPROVAL_TIMEOUT.                    *)
Deny(c) ==
  /\ pc[c] = "asking"
  /\ Continue(c)

(* The tool finished, or ran into its 60 s limit.  With the event set      *)
(* either one ends in "[Interrupted]": at once, or at the next check.      *)
ToolEnds(c) ==
  /\ pc[c] = "tool"
  /\ \/ Interrupted(c)
     \/ ~stop[c] /\ Continue(c)

(* except Exception: of process().                                         *)
Fail(c, why) == Return(c, IF stop[c] THEN "cancelled" ELSE "failed", why)

Raise(c) == pc[c] \in {"preparing", "thinking", "answering"} /\ Fail(c, "raised")

(* The inference server is unreachable.  Only httpx.ConnectError reaches   *)
(* the retry branch.                                                       *)
LoseConnection(c, class) ==
  /\ pc[c] \in {"thinking", "answering"}
  /\ \/ class # "httpx.ConnectError" /\ Fail(c, "lost")
     \/ /\ class = "httpx.ConnectError" /\ attempt[c] < MaxRetries
        /\ Goto(c, "backoff")
        /\ UNCHANGED execVars
     \/ /\ class = "httpx.ConnectError" /\ attempt[c] = MaxRetries
        /\ Return(c, "failed", "lost")

(* Mutant of Retry: the attempt is not counted.                            *)
Retry_Uncounted(c) ==
  /\ pc[c] = "backoff"
  /\ Goto(c, "preparing")
  /\ UNCHANGED execVars

(* Restarting Ollama and sleeping are over: a new executor starts from     *)
(* nothing.                                                                *)
Retry(c) ==
  /\ pc[c] = "backoff"
  /\ attempt' = [attempt EXCEPT ![c] = @ + 1]
  /\ rounds' = [rounds EXCEPT ![c] = 0]
  /\ left' = [left EXCEPT ![c] = 0]
  /\ pc' = [pc EXCEPT ![c] = "preparing"]
  /\ UNCHANGED <<rows, registry, stop, cause, shared>>

(* The HTTP client goes away: the generator is closed where it is          *)
(* suspended, and only the finally clause runs.                            *)
Disconnect(c) ==
  /\ pc[c] \in Running
  /\ pc' = [pc EXCEPT ![c] = "gone"]
  /\ Unregister(c)
  /\ UNCHANGED <<rows, stop, attempt, execVars, cause, shared>>

Step(c) ==
  \/ Prepared(c) \/ FinalAnswer(c) \/ Answered(c)
  \/ ToolCalls(c) \/ StartCall(c) \/ Approve(c) \/ Deny(c) \/ ToolEnds(c)
  \/ Raise(c) \/ Retry(c)
  \/ \E class \in LostClasses : LoseConnection(c, class)

Next ==
  \/ \E c \in Calls : Process(c) \/ Step(c) \/ Disconnect(c)
  \/ \E s \in Sessions : CancelSession(s)

(* A suspended call is resumed in the end: the model's answers, the tools  *)
(* and the approval gate all have time limits.                             *)
Fairness == \A c \in Calls : WF_vars(Step(c))

Spec == Init /\ [][Next]_vars /\ Fairness
-----------------------------------------------------------------------------
(***************************************************************************)
(* Properties                                                              *)
(***************************************************************************)

(* The types of the variables.                                             *)
TypeOK ==
  /\ rows \in [Calls -> Row]
  /\ pc \in [Calls -> PC]
  /\ registry \in [Sessions -> Calls \cup {NoCall}]
  /\ stop \in [Calls -> BOOLEAN]
  /\ attempt \in [Calls -> 0..MaxRetries]
  /\ rounds \in [Calls -> 0..MaxToolCalls]
  /\ left \in [Calls -> 0..MaxBatch]
  /\ cause \in [Calls -> {"none", "answered", "interrupted", "raised", "lost"}]
  /\ shared \in [Calls -> BOOLEAN]

(* A task row is active exactly while its request is being worked on, or   *)
(* when the client went away: each of process()'s exits writes an outcome. *)
OutcomeRecorded ==
  \A c \in Calls : rows[c] \in Active <=> pc[c] \in Running \cup {"gone"}

(* The event stored for a session belongs to a request of that session     *)
(* that is still running, so a stop never goes to a finished request.      *)
RegistryLive ==
  \A s \in Sessions : registry[s] # NoCall =>
     pc[registry[s]] \in Running /\ SessionOf[registry[s]] = s

(* cancel_session "triggers the cancellation event for the given session": *)
(* a running request can be stopped through its session.                   *)
RunningIsCancellable ==
  \A c \in Calls : pc[c] \in Running => registry[SessionOf[c]] # NoCall

(* A running request that never overlapped another one of its session can  *)
(* be stopped through its session: the session holds its own event.        *)
AloneIsCancellable ==
  \A c \in Calls : pc[c] \in Running /\ ~shared[c] => registry[SessionOf[c]] = c

(* A request that failed because the inference connection was lost was     *)
(* retried as often as process() promises.                                 *)
RetriesExhausted ==
  \A c \in Calls :
     rows[c] = "failed" /\ cause[c] = "lost" => attempt[c] = MaxRetries

(* A stop is seen at the next look: the stopped request begins no further  *)
(* round and looks at no further tool call.  What it was about to do it    *)
(* still does: start the tool it had announced or was being asked about,   *)
(* or ask for the answer when it was waiting for the tools model or for    *)
(* its context.                                                            *)
MayFollowStop ==
  {<<"announced", "asking">>, <<"announced", "tool">>, <<"asking", "tool">>,
   <<"thinking", "answering">>, <<"preparing", "answering">>,
   <<"thinking", "backoff">>, <<"answering", "backoff">>, <<"backoff", "preparing">>}

StopHolds ==
  [][\A c \in Calls :
       stop[c] /\ pc'[c] # pc[c] /\ pc'[c] \in Running => <<pc[c], pc'[c]>> \in MayFollowStop]_vars

(* Every request comes to an end: the retries, the rounds of tool calls    *)
(* and the tool calls of a round are bounded.                              *)
RequestsEnd ==
  \A c \in Calls : pc[c] = "preparing" ~> pc[c] \in {"returned", "gone"}
=============================================================================
