------------------------------ MODULE EventBus ------------------------------
(***************************************************************************)
(* InternalEventBus (app/core/events.py) with its two subscribers, the     *)
(* orchestrator and the ProactiveMonitor.  Monitors emit onto an unbounded *)
(* priority queue; one dispatch loop takes the smallest (priority, _seq)   *)
(* entry, remembers it, runs its handlers together and waits for all of    *)
(* them before it takes the next.  put() on an unbounded queue does not    *)
(* suspend, so emit() and emit_nowait() are the same step.                 *)
(*                                                                         *)
(* An event is its sequence number; log gives its type.                    *)
(***************************************************************************)
EXTENDS Naturals, Sequences, FiniteSets

CONSTANTS
  Types,       \* the event types considered
  MaxEvents,   \* bound: events ever emitted
  RecentLen    \* maxlen of _recent, 100 in the code

EventType == {"SYS_THRESHOLD", "BUILD_LOG", "TASK_REQUEST", "FS_CHANGE",
              "USER_ARRIVAL", "CALENDAR_UPDATE", "MONITOR_STATUS"}

ASSUME EventBusAssumption ==
  /\ Types \subseteq EventType
  /\ MaxEvents \in Nat
  /\ RecentLen \in Nat \ {0}

(* Lower number = higher priority.                                         *)
PRIORITY ==
  [t \in EventType |->
    CASE t \in {"SYS_THRESHOLD", "BUILD_LOG"} -> 0
      [] t \in {"TASK_REQUEST", "FS_CHANGE", "USER_ARRIVAL"} -> 1
      [] t = "CALENDAR_UPDATE" -> 2
      [] t = "MONITOR_STATUS" -> 3]

Handlers == {"orchestrator", "proactive"}

(* What each handler's owner subscribes to when it is wired to the bus.    *)
Subscriptions ==
  [h \in Handlers |->
    IF h = "orchestrator"
      THEN {"TASK_REQUEST", "SYS_THRESHOLD", "FS_CHANGE", "MONITOR_STATUS"}
      ELSE {"SYS_THRESHOLD", "FS_CHANGE", "BUILD_LOG", "USER_ARRIVAL"}]

VARIABLES
  log,        \* types of the events emitted so far, by sequence number
  queue,      \* _queue: the events not yet taken
  handlers,   \* _handlers: who is subscribed to a type
  running,    \* _running
  loop,       \* where the dispatch loop is
  awaiting,   \* handlers the gather still waits for
  recent,     \* _recent, oldest first
  taken,      \* history: the events taken, in order
  audience,   \* history: to whom each of them was dispatched
  asOf,       \* history: how many had been taken when an event was emitted
  got         \* history: what each handler finished, in order

vars == <<log, queue, handlers, running, loop, awaiting, recent,
          taken, audience, asOf, got>>
history == <<taken, audience>>

Current == taken[Len(taken)]

Handled(h) == {got[h][k] : k \in DOMAIN got[h]}

(* Mutant of Before: insertion order alone decides.                        *)
Before_Fifo(a, b) == a < b

(* The order of the tuples (priority, _seq, event).                        *)
Before(a, b) ==
  \/ PRIORITY[log[a]] < PRIORITY[log[b]]
  \/ PRIORITY[log[a]] = PRIORITY[log[b]] /\ a < b

(* append() on a deque with a maxlen.                                      *)
Remember(e) ==
  IF Len(recent) < RecentLen THEN Append(recent, e) ELSE Append(Tail(recent), e)

Init ==
  /\ log = <<>> /\ queue = {} /\ asOf = <<>>
  /\ handlers = [t \in EventType |-> {}]
  /\ running = FALSE /\ loop = "new" /\ awaiting = {}
  /\ recent = <<>> /\ taken = <<>> /\ audience = <<>>
  /\ got = [h \in Handlers |-> <<>>]

(* Each subscriber is wired to the bus once.                               *)
Subscribe(h) ==
  /\ \A t \in Subscriptions[h] : h \notin handlers[t]
  /\ handlers' = [t \in EventType |->
       IF t \in Subscriptions[h] THEN handlers[t] \cup {h} ELSE handlers[t]]
  /\ UNCHANGED <<log, queue, running, loop, awaiting, recent, history, asOf, got>>

Put(t) ==
  /\ Len(log) < MaxEvents
  /\ log' = Append(log, t)
  /\ asOf' = Append(asOf, Len(taken))
  /\ queue' = queue \cup {Len(log) + 1}

(* emit() and emit_nowait(), by a monitor or a request handler.            *)
Emit(t) ==
  /\ Put(t)
  /\ UNCHANGED <<handlers, running, loop, awaiting, recent, history, got>>

Start ==
  /\ loop = "new"
  /\ running' = TRUE /\ loop' = "idle"
  /\ UNCHANGED <<log, queue, handlers, awaiting, recent, history, asOf, got>>

Stop ==
  /\ running /\ running' = FALSE
  /\ UNCHANGED <<log, queue, handlers, loop, awaiting, recent, history, asOf, got>>

(* The loop goes back to its while condition.                              *)
Top == loop' = IF running THEN "idle" ELSE "off"

(* Nothing came within the second; while running, the wait just resumes.   *)
Timeout ==
  /\ loop = "idle" /\ ~running
  /\ Top
  /\ UNCHANGED <<log, queue, handlers, running, awaiting, recent, history, asOf, got>>

(* Mutant of Take: the event is left on the queue.                         *)
Take_Peek(e) ==
  /\ loop = "idle" /\ e \in queue
  /\ \A o \in queue \ {e} : Before(e, o)
  /\ recent' = Remember(e)
  /\ taken' = Append(taken, e)
  /\ Len(taken) < MaxEvents
  /\ LET to == handlers[log[e]]
     IN  /\ audience' = [x \in DOMAIN audience \cup {e} |->
                           IF x = e THEN to ELSE audience[x]]
         /\ awaiting' = to
         /\ IF to = {} THEN Top ELSE loop' = "gathering"
  /\ UNCHANGED <<log, queue, handlers, running, asOf, got>>

(* queue.get() up to the gather.  Without a handler the loop does not      *)
(* suspend before its condition.                                           *)
Take(e) ==
  /\ loop = "idle" /\ e \in queue
  /\ \A o \in queue \ {e} : Before(e, o)
  /\ queue' = queue \ {e}
  /\ recent' = Remember(e)
  /\ taken' = Append(taken, e)
  /\ LET to == handlers[log[e]]
     IN  /\ audience' = [x \in DOMAIN audience \cup {e} |->
                           IF x = e THEN to ELSE audience[x]]
         /\ awaiting' = to
         /\ IF to = {} THEN Top ELSE loop' = "gathering"
  /\ UNCHANGED <<log, handlers, running, asOf, got>>

(* Which handlings inject a task: an alert or a build error.               *)
Injects(h, t) == h = "proactive" /\ t \in {"SYS_THRESHOLD", "BUILD_LOG"}

(* Mutant of HandlerEnds: without return_exceptions, a handler that raises *)
(* ends the loop.                                                          *)
HandlerEnds_Raises(h) ==
  /\ loop = "gathering" /\ h \in awaiting
  /\ awaiting' = awaiting \ {h}
  /\ got' = [got EXCEPT ![h] = Append(@, Current)]
  /\ \/ Injects(h, log[Current]) /\ Put("TASK_REQUEST") /\ UNCHANGED loop
     \/ loop' \in {loop, "off"} /\ UNCHANGED <<log, asOf, queue>>
  /\ UNCHANGED <<handlers, running, recent, history>>

(* One handler of the gather returns or raises, having submitted a task or *)
(* not: return_exceptions makes the two ends alike.                        *)
HandlerEnds(h) ==
  /\ loop = "gathering" /\ h \in awaiting
  /\ awaiting' = awaiting \ {h}
  /\ got' = [got EXCEPT ![h] = Append(@, Current)]
  /\ \/ Injects(h, log[Current]) /\ Put("TASK_REQUEST")
     \/ UNCHANGED <<log, asOf, queue>>
  /\ UNCHANGED <<handlers, running, loop, recent, history>>

(* gather() has all results; task_done().                                  *)
Gathered ==
  /\ loop = "gathering" /\ awaiting = {}
  /\ Top
  /\ UNCHANGED <<log, queue, handlers, running, awaiting, recent, history, asOf, got>>

(* Shutdown cancels the loop's task, and the handlers with it.             *)
Cancel ==
  /\ loop \in {"idle", "gathering"} /\ ~running
  /\ loop' = "off" /\ awaiting' = {}
  /\ UNCHANGED <<log, queue, handlers, running, recent, history, asOf, got>>

Dispatch == (\E e \in queue : Take(e)) \/ Gathered \/ Timeout

Next ==
  \/ \E h \in Handlers : Subscribe(h) \/ HandlerEnds(h)
  \/ \E t \in Types : Emit(t)
  \/ \E e \in queue : Take(e)
  \/ Start \/ Stop \/ Timeout \/ Gathered \/ Cancel

(* The event loop runs a ready task.  The handlers end: each puts on the   *)
(* unbounded queue, creates a task, or waits for one thread's database     *)
(* write.                                                                  *)
Spec ==
  /\ Init /\ [][Next]_vars
  /\ WF_vars(Dispatch)
  /\ \A h \in Handlers : WF_vars(HandlerEnds(h))

-----------------------------------------------------------------------------
(* The type of the state; the context kept for the planner is bounded.     *)
TypeOK ==
  /\ log \in Seq(EventType)
  /\ queue \in SUBSET (1..Len(log))
  /\ handlers \in [EventType -> SUBSET Handlers]
  /\ running \in BOOLEAN /\ loop \in {"new", "idle", "gathering", "off"}
  /\ awaiting \in SUBSET Handlers
  /\ recent \in Seq(1..Len(log)) /\ Len(recent) <= RecentLen
  /\ taken \in Seq(1..Len(log))
  /\ audience \in [{taken[i] : i \in 1..Len(taken)} -> SUBSET Handlers]
  /\ asOf \in Seq(Nat) /\ Len(asOf) = Len(log)
  /\ got \in [Handlers -> Seq(1..Len(log))]

(* No event is lost, and none is dispatched twice: what was emitted is     *)
(* still queued or was taken, at one place of the order.                   *)
NoneLost ==
  /\ queue = (1..Len(log)) \ {taken[i] : i \in 1..Len(taken)}
  /\ \A i, j \in 1..Len(taken) : taken[i] = taken[j] => i = j

(* Alerts overtake routine events: of two events where the first was taken *)
(* when the second was already waiting, the first is the more urgent, or   *)
(* as urgent and older.                                                    *)
UrgentFirst ==
  \A i, j \in 1..Len(taken) :
    (i < j /\ asOf[taken[j]] < i) =>
      LET p == PRIORITY[log[taken[i]]]  q == PRIORITY[log[taken[j]]]
      IN  p < q \/ (p = q /\ taken[i] < taken[j])

(* Events are handled one after the other: when a handler finishes an      *)
(* event, every handler of every event taken before has finished.          *)
OneAtATime ==
  \A i, j \in 1..Len(taken) :
    (i < j /\ \E h \in Handlers : taken[j] \in Handled(h)) =>
      \A h \in audience[taken[i]] : taken[i] \in Handled(h)

(* The context given to the planner is the last events taken, in order.    *)
RecentIsLatest ==
  recent = SubSeq(taken, IF Len(taken) > RecentLen THEN Len(taken) - RecentLen + 1 ELSE 1,
                  Len(taken))

(* Unless the bus is stopped, an event is eventually handled by everyone   *)
(* it is for; alerts that keep coming could delay it, their number is      *)
(* bounded here.                                                           *)
EventuallyHandled ==
  \A e \in 1..MaxEvents :
    (running /\ e \in DOMAIN log) ~>
      \/ ~running
      \/ /\ e \in DOMAIN audience
         /\ \A h \in audience[e] : e \in Handled(h)

(* The bus implements the mailbox.                                         *)
Box == INSTANCE Mailbox WITH
  sent <- Len(log), address <- audience,
  got <- [h \in Handlers |-> Handled(h)]

(* Every event is addressed once, to the subscribers of the moment, and    *)
(* each of them handles it at most once.                                   *)
ImplementsMailbox == Box!Spec
=============================================================================
