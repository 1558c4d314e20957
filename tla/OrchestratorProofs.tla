------------------------- MODULE OrchestratorProofs -------------------------
(***************************************************************************)
(* Theorems about Orchestrator, for any calls, sessions and limits.        *)
(***************************************************************************)
EXTENDS Orchestrator, TLAPS

(* In the tool loop a round is open, so that it may still be counted.      *)
RoundOpen ==
  \A c \in Calls : pc[c] \in {"announced", "asking", "tool"} => rounds[c] < MaxToolCalls

(* Retrying leaves room for another attempt.                               *)
AttemptOpen ==
  \A c \in Calls : pc[c] = "backoff" => attempt[c] < MaxRetries

(* process() makes a new event, so that a call starts with it unset.       *)
FreshEvent ==
  \A c \in Calls : pc[c] = "idle" => ~stop[c]

IInv ==
  TypeOK /\ RoundOpen /\ AttemptOpen /\ FreshEvent /\ OutcomeRecorded /\ RegistryLive

LEMMA InitIInv == Init => IInv
  BY OrchestratorAssumption
  DEF Init, IInv, TypeOK, RoundOpen, AttemptOpen, FreshEvent, OutcomeRecorded, RegistryLive,
      Row, TaskStatus, Active, Terminal, Absent, PC, Running

(* A call that ends, with a terminal status, keeps the invariant.          *)
LEMMA ReturnKeepsIInv ==
  ASSUME IInv, NEW c \in Calls, NEW status \in Terminal,
         NEW why \in {"answered", "interrupted", "raised", "lost"},
         Return(c, status, why)
  PROVE  IInv'
  <1>1. TypeOK'
    BY DEF Return, Unregister, UpdateStatus, execVars, IInv, TypeOK, Row, TaskStatus, PC
  <1>2. RoundOpen' /\ AttemptOpen' /\ FreshEvent'
    BY DEF Return, execVars, IInv, TypeOK, RoundOpen, AttemptOpen, FreshEvent
  <1>3. OutcomeRecorded'
    BY DEF Return, UpdateStatus, IInv, TypeOK, OutcomeRecorded, Active, Terminal, Running
  <1>4. RegistryLive'
    BY OrchestratorAssumption
    DEF Return, Unregister, IInv, TypeOK, RegistryLive, Running
  <1>. QED  BY <1>1, <1>2, <1>3, <1>4 DEF IInv

LEMMA InterruptedKeepsIInv ==
  ASSUME IInv, NEW c \in Calls, Interrupted(c)
  PROVE  IInv'
  <1>1. Closed(rows[c]) \in Terminal
    BY DEF Closed, Terminal
  <1>. QED  BY <1>1, ReturnKeepsIInv DEF Interrupted

LEMMA NextToolCallKeepsIInv ==
  ASSUME IInv, NEW c \in Calls, NEW n \in 0..MaxBatch, NextToolCall(c, n),
         pc[c] \in Running, rounds[c] < MaxToolCalls
  PROVE  IInv'
  <1>0. Closed(rows[c]) \in Terminal
    BY DEF Closed, Terminal
  <1>1. CASE Interrupted(c)
    BY <1>1, InterruptedKeepsIInv
  <1>2. CASE Return(c, Closed(rows[c]), "answered")
    BY <1>0, <1>2, ReturnKeepsIInv
  <1>3. ASSUME n > 0,
               left' = [left EXCEPT ![c] = n - 1], Goto(c, "announced"), UNCHANGED rounds
        PROVE  IInv'
    BY <1>3, OrchestratorAssumption
    DEF Goto, IInv, TypeOK, RoundOpen, AttemptOpen, FreshEvent, OutcomeRecorded, RegistryLive,
        Row, TaskStatus, Active, Terminal, Absent, PC, Running
  <1>4. ASSUME n = 0, rounds' = [rounds EXCEPT ![c] = @ + 1],
               left' = [left EXCEPT ![c] = 0], Goto(c, "thinking")
        PROVE  IInv'
    BY <1>4, OrchestratorAssumption
    DEF Goto, IInv, TypeOK, RoundOpen, AttemptOpen, FreshEvent, OutcomeRecorded, RegistryLive,
        Row, TaskStatus, Active, Terminal, Absent, PC, Running
  <1>. QED  BY <1>1, <1>2, <1>3, <1>4 DEF NextToolCall

(* A step that only moves one call to another place where it runs, leaving *)
(* the row, the registry and the bounded counters as they are.             *)
LEMMA StepKeepsIInv ==
  ASSUME IInv, NEW c \in Calls, Step(c)
  PROVE  IInv'
  <1>. USE OrchestratorAssumption
  <1>0. /\ Closed(rows[c]) \in Terminal
        /\ "failed" \in Terminal /\ "cancelled" \in Terminal
    BY DEF Closed, Terminal
  <1>1. CASE Prepared(c) \/ FinalAnswer(c) \/ Answered(c)
    <2>1. CASE Interrupted(c)
      BY <2>1, InterruptedKeepsIInv
    <2>2. CASE Return(c, Closed(rows[c]), "answered")
      BY <1>0, <2>2, ReturnKeepsIInv
    <2>3. ASSUME NEW where \in {"thinking", "answering"}, Goto(c, where), UNCHANGED execVars,
                 pc[c] \in Running
          PROVE  IInv'
      BY <2>3
      DEF Goto, execVars, IInv, TypeOK, RoundOpen, AttemptOpen, FreshEvent, OutcomeRecorded,
          RegistryLive, Active, PC, Running
    <2>. QED  BY <1>1, <2>1, <2>2, <2>3 DEF Prepared, FinalAnswer, Answered, Running
  <1>2. CASE ToolCalls(c)
    <2>. PICK n \in 0..MaxBatch : NextToolCall(c, n)
      BY <1>2 DEF ToolCalls
    <2>. QED  BY <1>2, NextToolCallKeepsIInv DEF ToolCalls, Running
  <1>3. CASE Approve(c)
    BY <1>3
    DEF Approve, Goto, execVars, IInv, TypeOK, RoundOpen, AttemptOpen, FreshEvent, OutcomeRecorded,
        RegistryLive, Active, PC, Running
  <1>. DEFINE InRound == pc[c] \in {"announced", "asking", "tool"}
  <1>4. ASSUME InRound, Continue(c) PROVE IInv'
    <2>1. left[c] \in 0..MaxBatch /\ rounds[c] < MaxToolCalls /\ pc[c] \in Running
      BY <1>4 DEF IInv, TypeOK, RoundOpen, Running
    <2>. QED  BY <1>4, <2>1, NextToolCallKeepsIInv DEF Continue
  <1>5. CASE Deny(c)
    BY <1>4, <1>5 DEF Deny
  <1>11. CASE StartCall(c)
    <2>1. CASE \E where \in {"tool", "asking"} : Goto(c, where) /\ UNCHANGED execVars
      BY <1>11, <2>1
      DEF StartCall, Goto, execVars, IInv, TypeOK, RoundOpen, AttemptOpen, FreshEvent,
          OutcomeRecorded, RegistryLive, Active, PC, Running
    <2>. QED  BY <1>4, <1>11, <2>1 DEF StartCall
  <1>6. CASE ToolEnds(c)
    BY <1>4, <1>6, InterruptedKeepsIInv DEF ToolEnds
  <1>7. ASSUME NEW why \in {"raised", "lost"}, Fail(c, why) PROVE IInv'
    BY <1>0, <1>7, ReturnKeepsIInv DEF Fail
  <1>8. CASE Raise(c)
    BY <1>7, <1>8 DEF Raise
  <1>9. ASSUME NEW class, LoseConnection(c, class) PROVE IInv'
    <2>1. CASE Fail(c, "lost")
      BY <1>7, <2>1
    <2>2. CASE Return(c, "failed", "lost")
      BY <1>0, <2>2, ReturnKeepsIInv
    <2>3. CASE attempt[c] < MaxRetries /\ Goto(c, "backoff") /\ UNCHANGED execVars
      BY <1>9, <2>3
      DEF LoseConnection, Goto, execVars, IInv, TypeOK, RoundOpen, AttemptOpen, FreshEvent,
          OutcomeRecorded, RegistryLive, Active, PC, Running
    <2>. QED  BY <1>9, <2>1, <2>2, <2>3 DEF LoseConnection
  <1>10. CASE Retry(c)
    BY <1>10
    DEF Retry, IInv, TypeOK, RoundOpen, AttemptOpen, FreshEvent, OutcomeRecorded, RegistryLive,
        Active, PC, Running
  <1>. QED
    BY <1>1, <1>2, <1>3, <1>5, <1>6, <1>8, <1>9, <1>10, <1>11 DEF Step

LEMMA ProcessKeepsIInv ==
  ASSUME IInv, NEW c \in Calls, Process(c)
  PROVE  IInv'
  <1>. USE OrchestratorAssumption
  <1>1. TypeOK'
    <2>1. rows' \in [Calls -> Row]
      <3>1. Save(rows, c) \in [Calls -> Row]
        BY DEF Save, IInv, TypeOK, Row, TaskStatus, Active
      <3>. QED  BY <3>1 DEF Process, UpdateStatus, Row, TaskStatus, Active
    <2>2. shared' \in [Calls -> BOOLEAN]
      BY DEF Process, Meet
    <2>3. UNCHANGED <<stop, rounds, left, cause>>
      BY DEF Process, execVars
    <2>4. registry' \in [Sessions -> Calls \cup {NoCall}] /\ pc' \in [Calls -> PC]
      BY DEF Process, IInv, TypeOK, PC, Running
    <2>5. attempt' \in [Calls -> 0..MaxRetries]
      BY DEF Process, IInv, TypeOK
    <2>. QED  BY <2>1, <2>2, <2>3, <2>4, <2>5 DEF IInv, TypeOK
  <1>2. RoundOpen' /\ AttemptOpen' /\ FreshEvent'
    BY DEF Process, execVars, IInv, TypeOK, RoundOpen, AttemptOpen, FreshEvent
  <1>3. OutcomeRecorded'
    <2>1. rows'[c] = "in_progress" /\ \A d \in Calls \ {c} : rows'[d] = rows[d]
      BY DEF Process, Save, UpdateStatus, IInv, TypeOK
    <2>. QED  BY <2>1 DEF Process, IInv, TypeOK, OutcomeRecorded, Active, Running
  <1>4. RegistryLive'
    BY DEF Process, IInv, TypeOK, RegistryLive, Running
  <1>. QED  BY <1>1, <1>2, <1>3, <1>4 DEF IInv

LEMMA DisconnectKeepsIInv ==
  ASSUME IInv, NEW c \in Calls, Disconnect(c)
  PROVE  IInv'
  <1>. USE OrchestratorAssumption
  <1>1. TypeOK'
    BY DEF Disconnect, Unregister, execVars, IInv, TypeOK, PC
  <1>2. RoundOpen' /\ AttemptOpen' /\ FreshEvent' /\ OutcomeRecorded'
    BY DEF Disconnect, execVars, IInv, TypeOK, RoundOpen, AttemptOpen, FreshEvent, OutcomeRecorded, Running
  <1>3. RegistryLive'
    BY DEF Disconnect, Unregister, IInv, TypeOK, RegistryLive, Running
  <1>. QED  BY <1>1, <1>2, <1>3 DEF IInv

LEMMA NextIInv == IInv /\ [Next]_vars => IInv'
  <1>. SUFFICES ASSUME IInv, [Next]_vars PROVE IInv'
    OBVIOUS
  <1>1. ASSUME NEW c \in Calls, Process(c) \/ Step(c) \/ Disconnect(c) PROVE IInv'
    BY <1>1, ProcessKeepsIInv, StepKeepsIInv, DisconnectKeepsIInv
  <1>2. ASSUME NEW s \in Sessions, CancelSession(s) PROVE IInv'
    BY <1>2
    DEF CancelSession, execVars, IInv, TypeOK, RoundOpen, AttemptOpen, FreshEvent,
        OutcomeRecorded, RegistryLive, Running
  <1>3. CASE UNCHANGED vars
    BY <1>3
    DEF vars, IInv, TypeOK, RoundOpen, AttemptOpen, FreshEvent, OutcomeRecorded, RegistryLive
  <1>. QED  BY <1>1, <1>2, <1>3 DEF Next

(* In every execution the variables have their types, an active task row   *)
(* is a request still worked on or abandoned by its client, and a session  *)
(* never holds the event of a request that has ended.                      *)
THEOREM OrchestratorInvariant ==
  Spec => [](TypeOK /\ OutcomeRecorded /\ RegistryLive)
  <1>1. Spec => []IInv
    BY InitIInv, NextIInv, PTL DEF Spec
  <1>2. IInv => TypeOK /\ OutcomeRecorded /\ RegistryLive
    BY DEF IInv
  <1>. QED  BY <1>1, <1>2, PTL

(* A running call that has met no other of its session holds the session's *)
(* entry, and a call is marked as soon as it runs beside another.          *)
AloneInv ==
  /\ \A c \in Calls : shared[c] \in BOOLEAN
  /\ \A c, d \in Calls :
       (c # d /\ SessionOf[c] = SessionOf[d] /\ {pc[c], pc[d]} \subseteq Running) => shared[c]
  /\ AloneIsCancellable

(* A running call can be stopped through its session unless another call   *)
(* of the session ran beside it: overlapping is the only way to lose the   *)
(* event.                                                                  *)
THEOREM AloneCallsAreCancellable == Spec => []AloneIsCancellable
  <1>. USE OrchestratorAssumption
  <1>1. Init => AloneInv
    BY DEF Init, AloneInv, AloneIsCancellable, Running
  <1>2. ASSUME IInv, AloneInv, [Next]_vars PROVE AloneInv'
    <2>1. ASSUME NEW c \in Calls, Unregister(c), NEW where, where \notin Running,
                 pc[c] \in Running, pc' = [pc EXCEPT ![c] = where], UNCHANGED shared
          PROVE  AloneInv'
      BY <1>2, <2>1 DEF Unregister, IInv, TypeOK, AloneInv, AloneIsCancellable
    <2>2. ASSUME NEW c \in Calls, NEW status, NEW why, Return(c, status, why), pc[c] \in Running
          PROVE  AloneInv'
      BY <2>1, <2>2 DEF Return, Running
    <2>3. ASSUME NEW c \in Calls, NEW where, Goto(c, where), pc[c] \in Running PROVE AloneInv'
      BY <1>2, <2>3 DEF Goto, IInv, TypeOK, AloneInv, AloneIsCancellable
    <2>4. ASSUME NEW c \in Calls, NEW n, NextToolCall(c, n), pc[c] \in Running PROVE AloneInv'
      BY <2>2, <2>3, <2>4 DEF NextToolCall, Interrupted
    <2>5. ASSUME NEW c \in Calls, Process(c) PROVE AloneInv'
      <3>1. pc[c] \notin Running /\ pc' = [pc EXCEPT ![c] = "preparing"]
        BY <2>5 DEF Process, Running
      <3>2. \A d \in Calls : shared'[d] = (\/ shared[d]
                                           \/ d \in Companions(c)
                                           \/ d = c /\ Companions(c) # {})
        BY <2>5 DEF Process, Meet
      <3>3. \A d \in Calls : d \in Companions(c) <=> SessionOf[d] = SessionOf[c] /\ pc[d] \in Running
        BY DEF Companions
      <3>4. AloneIsCancellable'
        BY <1>2, <2>5, <3>1, <3>2, <3>3
        DEF Process, IInv, TypeOK, AloneInv, AloneIsCancellable
      <3>. QED
        BY <1>2, <3>1, <3>2, <3>3, <3>4 DEF IInv, TypeOK, AloneInv
    <2>6. ASSUME NEW c \in Calls, Disconnect(c) PROVE AloneInv'
      BY <2>1, <2>6 DEF Disconnect, Running
    <2>7. ASSUME NEW c \in Calls, Step(c) PROVE AloneInv'
      <3>1. pc[c] \in Running
        BY <2>7 DEF Step, Prepared, FinalAnswer, Answered, ToolCalls, StartCall, Approve, Deny,
                    ToolEnds, Raise, LoseConnection, Retry, Running
      <3>2. CASE Prepared(c) \/ FinalAnswer(c) \/ Answered(c) \/ Raise(c)
        BY <2>2, <2>3, <3>1, <3>2 DEF Prepared, FinalAnswer, Answered, Interrupted, Raise, Fail
      <3>3. CASE ToolCalls(c) \/ StartCall(c) \/ Deny(c) \/ ToolEnds(c)
        BY <2>2, <2>3, <2>4, <3>1, <3>3
        DEF ToolCalls, StartCall, Deny, ToolEnds, Continue, Interrupted
      <3>4. CASE Approve(c) \/ \E class \in LostClasses : LoseConnection(c, class)
        BY <2>2, <2>3, <3>1, <3>4 DEF Approve, LoseConnection, Fail
      <3>5. CASE Retry(c)
        BY <1>2, <3>1, <3>5
        DEF Retry, IInv, TypeOK, AloneInv, AloneIsCancellable, Running
      <3>. QED  BY <2>7, <3>2, <3>3, <3>4, <3>5 DEF Step
    <2>8. ASSUME NEW s \in Sessions, CancelSession(s) PROVE AloneInv'
      BY <1>2, <2>8 DEF CancelSession, AloneInv, AloneIsCancellable
    <2>9. CASE UNCHANGED vars
      BY <1>2, <2>9 DEF vars, AloneInv, AloneIsCancellable
    <2>. QED  BY <1>2, <2>5, <2>6, <2>7, <2>8, <2>9 DEF Next
  <1>3. AloneInv => AloneIsCancellable
    BY DEF AloneInv
  <1>4. Spec => []IInv
    BY InitIInv, NextIInv, PTL DEF Spec
  <1>. QED  BY <1>1, <1>2, <1>3, <1>4, PTL DEF Spec

(* Once stopped, a call begins no further round and looks at no further    *)
(* tool call of the model: all it still does is what it had announced, was *)
(* being asked about, or asks as the answer.  process(), cancel_session()  *)
(* and the points of execute() that look at the event.                     *)
THEOREM StopIsFinal == Spec => StopHolds
  <1>. DEFINE Holds(c) ==
         stop[c] /\ pc'[c] # pc[c] /\ pc'[c] \in Running => <<pc[c], pc'[c]>> \in MayFollowStop
  <1>1. ASSUME IInv, [Next]_vars PROVE [\A c \in Calls : Holds(c)]_vars
    <2>. SUFFICES ASSUME Next, NEW c \in Calls PROVE Holds(c)
      BY <1>1
    <2>1. ASSUME NEW d \in Calls, NEW where, pc' = [pc EXCEPT ![d] = where],
                 stop[d] /\ where \in Running => <<pc[d], where>> \in MayFollowStop
          PROVE  Holds(c)
      BY <1>1, <2>1 DEF IInv, TypeOK
    <2>2. ASSUME NEW d \in Calls, NEW status, NEW why, Return(d, status, why) PROVE Holds(c)
      BY <2>1, <2>2 DEF Return, Running
    <2>3. ASSUME NEW d \in Calls, NEW n, NextToolCall(d, n) PROVE Holds(c)
      BY <2>1, <2>2, <2>3 DEF NextToolCall, Interrupted, Goto
    <2>4. ASSUME NEW d \in Calls, Process(d) PROVE Holds(c)
      BY <1>1, <2>1, <2>4 DEF Process, IInv, FreshEvent
    <2>5. ASSUME NEW d \in Calls, Disconnect(d) PROVE Holds(c)
      BY <2>1, <2>5 DEF Disconnect, Running
    <2>6. ASSUME NEW d \in Calls, Step(d) PROVE Holds(c)
      <3>0. ASSUME NEW where, Goto(d, where),
                   stop[d] => <<pc[d], where>> \in MayFollowStop
            PROVE  Holds(c)
        BY <2>1, <3>0 DEF Goto
      <3>1. CASE Prepared(d) \/ FinalAnswer(d) \/ Answered(d)
        BY <2>2, <3>0, <3>1 DEF Prepared, FinalAnswer, Answered, Interrupted, MayFollowStop
      <3>2. CASE ToolCalls(d) \/ StartCall(d) \/ Deny(d) \/ ToolEnds(d)
        BY <2>2, <2>3, <3>0, <3>2
        DEF ToolCalls, StartCall, Deny, ToolEnds, Continue, Interrupted, MayFollowStop
      <3>3. CASE Approve(d)
        BY <3>0, <3>3 DEF Approve, MayFollowStop
      <3>4. CASE Raise(d) \/ \E class \in LostClasses : LoseConnection(d, class)
        BY <2>2, <3>0, <3>4 DEF Raise, LoseConnection, Fail, MayFollowStop
      <3>5. CASE Retry(d)
        BY <2>1, <3>5 DEF Retry, MayFollowStop
      <3>. QED  BY <2>6, <3>1, <3>2, <3>3, <3>4, <3>5 DEF Step
    <2>7. ASSUME NEW s \in Sessions, CancelSession(s) PROVE Holds(c)
      BY <2>7 DEF CancelSession
    <2>. QED  BY <2>4, <2>5, <2>6, <2>7 DEF Next
  <1>2. Spec => []IInv
    BY InitIInv, NextIInv, PTL DEF Spec
  <1>. QED  BY <1>1, <1>2, PTL DEF Spec, StopHolds
=============================================================================
