-------------------------------- MODULE Hitl --------------------------------
(***************************************************************************)
(* Human-in-the-loop approval of one task's high-risk tool calls: the      *)
(* executor that suspends for each (app/agents/executor.py), the registry  *)
(* of pending approvals (app/core/hitl.py), the endpoint that resolves     *)
(* them (app/api/v1/tasks.py), the modal of the web page                   *)
(* (app/static/js/app.js), and another device that finds the pending       *)
(* approval in /api/sync/state (app/api/v1/sync.py).                       *)
(*                                                                         *)
(* _pending is keyed by task id, so one task has at most one entry, and    *)
(* the calls of a task, numbered here, follow one another under one key.   *)
(***************************************************************************)
EXTENDS Naturals, Sequences, FiniteSets

CONSTANTS
  Clients,    \* who answers: "page", "device"
  MaxCalls,   \* bound: high-risk calls of the task
  MaxPosts    \* bound: requests sent to the endpoint

ASSUME HitlAssumption ==
  /\ Clients \subseteq {"page", "device"}
  /\ MaxCalls \in Nat \ {0} /\ MaxPosts \in Nat \ {0}

Calls == 1..MaxCalls
NoCall == 0
Decision == {"none", "approved", "rejected"}

VARIABLES
  pc,       \* the executor: "working", "announced", "waiting", "ended"
  call,     \* the high-risk call it is at
  entry,    \* _pending[task_id]: the call it names and what was decided
  wire,     \* approval tags of the stream the page has yet to receive
  shown,    \* the call each client shows, or NoCall
  buttons,  \* the modal's buttons are enabled
  status,   \* the modal's status line
  hiding,   \* the timer that hides the modal is running
  post,     \* each client's request: where it is, and its decision
  posts,    \* requests sent so far
  consents, \* history: those of them that approve a call or one before it
  decided,  \* history: what the users decided about each call they were shown
  outcome,  \* history: what the executor did with each call
  present,  \* the clients that take part
  late      \* history: a call was not decided within APPROVAL_TIMEOUT

vars == <<pc, call, entry, wire, shown, buttons, status, hiding, post, posts,
          consents, decided, outcome, present, late>>
executor == <<pc, call, outcome, present, late>>
page == <<buttons, status, hiding>>
users == <<posts, consents, decided>>

NoEntry == [call |-> NoCall, approved |-> "none"]
NoPost == [at |-> "none", approved |-> "none"]

Init ==
  /\ pc = "working" /\ call = NoCall
  /\ entry = NoEntry /\ wire = <<>>
  /\ shown = [k \in Clients |-> NoCall]
  /\ buttons = TRUE /\ status = "none" /\ hiding = FALSE
  /\ post = [k \in Clients |-> NoPost]
  /\ posts = 0 /\ consents = [c \in Calls |-> 0]
  /\ decided = [c \in Calls |-> {}] /\ outcome = [c \in Calls |-> "none"]
  /\ present \in (SUBSET Clients) \ {{}} /\ late = FALSE

-----------------------------------------------------------------------------
(* The executor.                                                           *)

(* The next call is a high-risk one: its tag is yielded to the stream.     *)
Announce ==
  /\ pc = "working" /\ call < MaxCalls
  /\ call' = call + 1 /\ pc' = "announced"
  /\ wire' = Append(wire, call + 1)
  /\ UNCHANGED <<entry, shown, page, post, users, outcome, present, late>>

Wait_Approved ==    \* mutant: the entry starts approved
  /\ pc = "announced"
  /\ entry' = [call |-> call, approved |-> "approved"]
  /\ pc' = "waiting"
  /\ UNCHANGED <<call, wire, shown, page, post, users, outcome, present, late>>

(* wait_for_decision up to its await.                                      *)
Wait ==
  /\ pc = "announced"
  /\ entry' = [call |-> call, approved |-> "none"]
  /\ pc' = "waiting"
  /\ UNCHANGED <<call, wire, shown, page, post, users, outcome, present, late>>

(* The finally of wait_for_decision, and what the executor does with its   *)
(* value.                                                                  *)
Decided(granted) ==
  /\ entry' = NoEntry
  /\ outcome' = [outcome EXCEPT ![call] = IF granted THEN "approved" ELSE "rejected"]
  /\ pc' = "working"
  /\ UNCHANGED <<call, wire, shown, page, post, users, present>>

Wake ==
  /\ pc = "waiting" /\ entry.approved # "none"
  /\ Decided(entry.approved = "approved")
  /\ UNCHANGED late

(* Mutant of TimeOut: an unanswered call runs.                             *)
TimeOut_Consents == pc = "waiting" /\ Decided(entry.approved # "rejected") /\ late' = TRUE

(* The timeout may also win against an event set in the same turn of the   *)
(* event loop.                                                             *)
TimeOut == pc = "waiting" /\ Decided(FALSE) /\ late' = TRUE

Finish ==
  /\ pc = "working" /\ pc' = "ended"
  /\ UNCHANGED <<call, outcome, entry, wire, shown, page, post, users, present, late>>

-----------------------------------------------------------------------------
(* The clients.                                                            *)

(* A chunk of the stream reaches the page.  Of the tags in it, the modal   *)
(* shows the first; all are cut out of the text.                           *)
Show(k) ==
  /\ k = "page" /\ wire # <<>>
  /\ \E n \in 1..Len(wire) : wire' = SubSeq(wire, n + 1, Len(wire))
  /\ shown' = [shown EXCEPT ![k] = Head(wire)]
  /\ status' = "none"
  /\ UNCHANGED <<executor, entry, buttons, hiding, post, users>>

(* The device asks for the state, and shows the approval it finds there;   *)
(* it answers a call once.                                                 *)
Snapshot(k) ==
  /\ k = "device" /\ shown[k] = NoCall
  /\ entry # NoEntry /\ ~\E d \in Decision : <<k, d>> \in decided[entry.call]
  /\ shown' = [shown EXCEPT ![k] = entry.call]
  /\ UNCHANGED <<executor, entry, wire, page, post, users>>

Decide(k, d) ==
  /\ shown[k] # NoCall /\ post[k] = NoPost /\ posts < MaxPosts
  /\ IF k = "page" THEN buttons /\ buttons' = FALSE ELSE UNCHANGED buttons
  /\ post' = [post EXCEPT ![k] = [at |-> "sent", approved |-> d]]
  /\ posts' = posts + 1
  /\ consents' = [c \in Calls |-> IF d = "approved" /\ shown[k] <= c THEN consents[c] + 1
                                                                      ELSE consents[c]]
  /\ decided' = [decided EXCEPT ![shown[k]] = @ \cup {<<k, d>>}]
  /\ UNCHANGED <<executor, entry, wire, shown, status, hiding>>

(* The endpoint's response: "resolved", whether the approval was still     *)
(* pending or not, or 404.                                                 *)
Respond(k) ==
  /\ post[k].at \in {"done", "missing"}
  /\ CASE k = "device" ->
            shown' = [shown EXCEPT ![k] = NoCall] /\ UNCHANGED page
       [] k = "page" /\ post[k].at = "done" ->
            status' = post[k].approved /\ hiding' = TRUE /\ UNCHANGED <<shown, buttons>>
       [] k = "page" /\ post[k].at = "missing" ->
            status' = "error" /\ buttons' = TRUE /\ UNCHANGED <<shown, hiding>>
  /\ post' = [post EXCEPT ![k] = NoPost]
  /\ UNCHANGED <<executor, entry, wire, users>>

(* The 1.8 seconds after a success are over.                               *)
Hide ==
  /\ hiding /\ hiding' = FALSE
  /\ shown' = [shown EXCEPT !["page"] = NoCall]
  /\ UNCHANGED <<executor, entry, wire, buttons, status, post, users>>

-----------------------------------------------------------------------------
(* The endpoint.                                                           *)

(* get_pending; the audit row is then written in a thread, and the handler *)
(* suspended.                                                              *)
Lookup(k) ==
  /\ post[k].at = "sent"
  /\ post' = [post EXCEPT ![k].at = IF entry = NoEntry THEN "missing" ELSE "auditing"]
  /\ UNCHANGED <<executor, entry, wire, shown, page, users>>

(* resolve(): the last decision wins; a missing entry goes unnoticed.      *)
Resolve(k) ==
  /\ post[k].at = "auditing"
  /\ entry' = IF entry = NoEntry THEN entry ELSE [entry EXCEPT !.approved = post[k].approved]
  /\ post' = [post EXCEPT ![k].at = "done"]
  /\ UNCHANGED <<executor, wire, shown, page, users>>

Next ==
  \/ Announce \/ Wait \/ Wake \/ TimeOut \/ Finish \/ Hide
  \/ \E k \in present :
       \/ Show(k) \/ Snapshot(k) \/ Respond(k) \/ Lookup(k) \/ Resolve(k)
       \/ \E d \in {"approved", "rejected"} : Decide(k, d)

(* The event loop runs the executor when it is ready and its timer when it *)
(* is due; nobody makes the user answer.                                   *)
Spec == Init /\ [][Next]_vars /\ WF_vars(Announce \/ Wait \/ Wake \/ TimeOut)

-----------------------------------------------------------------------------
(* The type of the state.                                                  *)
TypeOK ==
  /\ pc \in {"working", "announced", "waiting", "ended"} /\ call \in 0..MaxCalls
  /\ entry \in [call : 0..MaxCalls, approved : Decision]
  /\ wire \in Seq(Calls) /\ shown \in [Clients -> 0..MaxCalls]
  /\ buttons \in BOOLEAN /\ hiding \in BOOLEAN /\ status \in Decision \cup {"error"}
  /\ post \in [Clients -> [at : {"none", "sent", "auditing", "missing", "done"},
                           approved : Decision]]
  /\ posts \in 0..MaxPosts /\ consents \in [Calls -> 0..posts]
  /\ decided \in [Calls -> SUBSET (Clients \X Decision)] /\ outcome \in [Calls -> Decision]
  /\ present \in SUBSET Clients /\ late \in BOOLEAN

(* The registry has an entry exactly while the executor waits, and it is   *)
(* the entry of the call it waits for: no decision is kept for a later one.*)
EntryOfWaiting ==
  IF pc = "waiting" THEN entry.call = call ELSE entry = NoEntry

Ran == {c \in Calls : outcome[c] = "approved"}

(* One approval lets at most one call run, and never a call that comes     *)
(* before the one it was given for: up to each call, no more have run than *)
(* were approved.  A late approval may serve a later call (resolve knows   *)
(* the task only), but it is then used up.                                 *)
ConsentUsedOnce ==
  \A c \in Calls : Cardinality({b \in Ran : b <= c}) <= consents[c]

(* A call runs only if a user who was shown that call approved it.         *)
RunsWhatWasApproved ==
  \A c \in Ran : \E k \in Clients : <<k, "approved">> \in decided[c]

(* So it is for one client that answers in time: its decision never        *)
(* reaches another call than the one it was about.                         *)
PromptApprovalIsRight ==
  ~late /\ Cardinality(present) = 1 => RunsWhatWasApproved

(* While a call waits and the page shows it unanswered, it can be answered.*)
CanBeAnswered ==
  (pc = "waiting" /\ shown["page"] = call /\ decided[call] = {}) => buttons

(* A suspended call is decided in the end, by a user or by the timeout.    *)
WaitEnds == pc = "waiting" ~> pc # "waiting"
=============================================================================
