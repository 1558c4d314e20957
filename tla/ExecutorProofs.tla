--------------------------- MODULE ExecutorProofs ---------------------------
(***************************************************************************)
(* Theorems about Executor, for any tools, calls, risks and limits.        *)
(***************************************************************************)
EXTENDS Executor, FiniteSetTheorems, SequenceTheorems, TLAPS

InRound == pc \in {"calls", "announced", "approval", "tool", "reporting"}

(* The current call has been admitted, and neither started nor denied yet, *)
(* while it is announced or its approval awaited.                          *)
AtCall ==
  /\ pc \in {"announced", "approval", "tool"} => current \in Calls
  /\ pc \in {"announced", "approval"} =>
       /\ current \in seen \ denied
       /\ \A i \in 1..Len(started) : started[i] # current

(* Only an admitted call is started or denied.                             *)
OnlyAdmitted ==
  /\ \A i \in 1..Len(started) : started[i] \in seen
  /\ denied \subseteq seen

(* A round is open, so that it may still be counted.                       *)
RoundOpen == InRound => rounds < MAX_TOOL_CALLS

IInv ==
  /\ TypeOK /\ CallsAnswered /\ RoundOpen
  /\ AtCall /\ OnlyAdmitted /\ NoCallRepeated /\ DeniedStaysDenied

LEMMA BatchIsSeq ==
  ASSUME NEW b \in Batches
  PROVE  b \in Seq(Calls) /\ Len(b) \in 1..MaxBatch
  <1>. USE ExecutorAssumption
  <1>1. PICK n \in 1..MaxBatch : b \in [1..n -> Calls]
    BY DEF Batches
  <1>. QED  BY <1>1

LEMMA InitIInv == Init => IInv
  <1>. SUFFICES ASSUME Init PROVE IInv
    OBVIOUS
  <1>. USE ExecutorAssumption
  <1>1. \A S : <<>> \in Seq(S) /\ Len(<<>>) = 0
    BY EmptySeq
  <1>2. 1..Len(started) = {} /\ Len(batch) = 0
    BY <1>1 DEF Init
  <1>3. TypeOK
    <2>1. /\ batch \in Seq(Calls) /\ Len(batch) <= MaxBatch /\ started \in Seq(Calls)
          /\ current \in Calls \cup {<<>>}
      BY <1>1, <1>2 DEF Init
    <2>2. counts \in [Tools -> 0..(MaxPerTool + 1)]
      BY DEF Init
    <2>3. /\ rounds \in 0..MAX_TOOL_CALLS /\ asked \in 0..(MAX_TOOL_CALLS + 2)
          /\ owed \in 0..MaxBatch /\ untraced \in 0..MaxBatch
      BY DEF Init
    <2>4. /\ pc \in Places
          /\ path \in Paths /\ stop \in BOOLEAN
          /\ seen \in SUBSET Calls /\ denied \in SUBSET Calls
      BY DEF Init, Places
    <2>. QED  BY <2>1, <2>2, <2>3, <2>4 DEF TypeOK
  <1>. QED
    BY <1>2, <1>3 DEF Init, IInv, CallsAnswered, InRound, RoundOpen, AtCall, OnlyAdmitted,
      NoCallRepeated, DeniedStaysDenied

(* Taking the next call of an answer.                                      *)
LEMMA TakenProperties ==
  ASSUME TypeOK, Calling, Taken
  PROVE  /\ Head(batch) \in Calls /\ current' = Head(batch)
         /\ batch' \in Seq(Calls) /\ Len(batch) \in Nat \ {0}
         /\ Len(batch') = Len(batch) - 1
  <1>1. batch \in Seq(Calls) /\ batch # <<>>
    BY DEF TypeOK, Calling
  <1>. QED  BY <1>1, HeadTailProperties, EmptySeq, LenProperties DEF Taken

LEMMA CountTypes ==
  ASSUME TypeOK, NEW c \in Calls, Count(c)
  PROVE  /\ counts' \in [Tools -> 0..(MaxPerTool + 1)]
  BY ExecutorAssumption DEF TypeOK, Count, UpTo

(* Starting a call that was never started.                                 *)
LEMMA StartProperties ==
  ASSUME TypeOK, NoCallRepeated, NEW c \in Calls,
         \A i \in 1..Len(started) : started[i] # c,
         started' = Append(started, c)
  PROVE  /\ started' \in Seq(Calls) /\ Len(started') = Len(started) + 1
         /\ \A i \in 1..Len(started) : started'[i] = started[i]
         /\ started'[Len(started) + 1] = c
         /\ \A i \in 1..Len(started') : i \in 1..Len(started) \/ i = Len(started) + 1
         /\ NoCallRepeated'
  <1>1. started \in Seq(Calls) /\ Len(started) \in Nat
    BY LenProperties DEF TypeOK
  <1>2. /\ started' \in Seq(Calls) /\ Len(started') = Len(started) + 1
        /\ \A i \in 1..Len(started) : started'[i] = started[i]
        /\ started'[Len(started) + 1] = c
    BY <1>1, AppendProperties
  <1>3. \A i \in 1..Len(started') : i \in 1..Len(started) \/ i = Len(started) + 1
    BY <1>1, <1>2
  <1>4. ASSUME NEW i \in 1..Len(started'), NEW j \in 1..Len(started'),
               started'[i] = started'[j]
        PROVE  i = j
    BY <1>2, <1>3, <1>4 DEF NoCallRepeated
  <1>. QED  BY <1>2, <1>3, <1>4 DEF NoCallRepeated

-----------------------------------------------------------------------------
(* The invariant, step by step.                                            *)

(* Steps that touch no call.                                               *)
LEMMA QuietKeepsIInv ==
  ASSUME IInv, UNCHANGED <<path, rounds, batch, current, guards, debts, started, denied>>,
         stop' \in BOOLEAN, asked' \in 0..(MAX_TOOL_CALLS + 2),
         \/ pc' = pc
         \/ pc' = "done"
         \/ pc \in {"top", "model", "streaming"} /\ pc' \in {"top", "model", "streaming"}
  PROVE  IInv'
  <1>1. TypeOK'
    BY DEF IInv, TypeOK, Places, guards, debts
  <1>2. CallsAnswered'
    <2>1. CASE pc' = pc
      BY <2>1 DEF IInv, CallsAnswered, debts
    <2>2. CASE pc' = "done"
      BY <2>2 DEF CallsAnswered
    <2>3. CASE pc \in {"top", "model", "streaming"} /\ pc' \in {"top", "model", "streaming"}
      <3>1. owed = Len(batch) + 0 /\ untraced = Len(batch) + 0
        BY <2>3 DEF IInv, CallsAnswered
      <3>. QED  BY <2>3, <3>1 DEF CallsAnswered, debts
    <2>. QED  BY <2>1, <2>2, <2>3
  <1>4. RoundOpen' /\ AtCall'
    BY DEF IInv, RoundOpen, InRound, AtCall, guards
  <1>3. OnlyAdmitted' /\ NoCallRepeated' /\ DeniedStaysDenied'
    BY DEF IInv, OnlyAdmitted, NoCallRepeated, DeniedStaysDenied, guards
  <1>. QED  BY <1>1, <1>2, <1>3, <1>4 DEF IInv

LEMMA ToolCallsKeepsIInv ==
  ASSUME IInv, ToolCalls
  PROVE  IInv'
  <1>. USE DEF ToolCalls
  <1>1. batch' \in Seq(Calls) /\ Len(batch') \in 1..MaxBatch
    BY BatchIsSeq
  <1>2. TypeOK'
    BY <1>1, ExecutorAssumption DEF IInv, TypeOK, Places, loop, guards
  <1>3. CallsAnswered' /\ RoundOpen' /\ AtCall'
    BY <1>1 DEF IInv, CallsAnswered, RoundOpen, AtCall, loop, guards
  <1>4. OnlyAdmitted' /\ NoCallRepeated' /\ DeniedStaysDenied'
    BY DEF IInv, OnlyAdmitted, NoCallRepeated, DeniedStaysDenied, guards
  <1>. QED  BY <1>2, <1>3, <1>4 DEF IInv

(* A call that is refused: it has its trace and will be reported, or the   *)
(* execution ends.                                                         *)
LEMMA RefusedKeepsIInv ==
  ASSUME IInv, Calling, Taken, Count(Head(batch)),
         UNCHANGED <<stop, loop, seen, owed, started, denied>>,
         untraced' = untraced - 1,
         pc' \in {"reporting", "done"}
  PROVE  IInv'
  <1>. USE TakenProperties DEF IInv
  <1>1. owed = Len(batch) /\ untraced = Len(batch) /\ pc = "calls"
    BY DEF Calling, CallsAnswered
  <1>2. Len(batch) \in 1..MaxBatch /\ MaxBatch \in Nat
    BY ExecutorAssumption DEF TypeOK
  <1>3. TypeOK'
    <2>1. counts' \in [Tools -> 0..(MaxPerTool + 1)]
      BY CountTypes
    <2>2. untraced' \in 0..MaxBatch /\ Len(batch') <= MaxBatch
      BY <1>1, <1>2
    <2>3. pc' \in Places /\ current' \in Calls \cup {<<>>}
      BY DEF Places
    <2>. QED  BY <2>1, <2>2, <2>3 DEF TypeOK, loop
  <1>4. CallsAnswered'
    <2>1. Len(batch') = Len(batch) - 1 /\ owed' = owed
      OBVIOUS
    <2>2. CASE pc' = "reporting"
      <3>1. untraced' = Len(batch') + 0 /\ owed' = untraced' + 1
        BY <1>1, <1>2, <2>1
      <3>. QED  BY <2>2, <3>1 DEF CallsAnswered
    <2>3. CASE pc' = "done"
      BY <2>3 DEF CallsAnswered
    <2>. QED  BY <2>2, <2>3
  <1>5. RoundOpen' /\ AtCall'
    BY <1>1 DEF RoundOpen, InRound, AtCall, loop
  <1>6. OnlyAdmitted' /\ NoCallRepeated' /\ DeniedStaysDenied'
    BY DEF OnlyAdmitted, NoCallRepeated, DeniedStaysDenied
  <1>. QED  BY <1>3, <1>4, <1>5, <1>6

LEMMA AdmitKeepsIInv ==
  ASSUME IInv, Admit
  PROVE  IInv'
  <1>. DEFINE c == Head(batch)
  <1>. USE DEF IInv
  <1>1. /\ Calling /\ Taken /\ Count(c) /\ Admitted(c) /\ seen' = seen \cup {c}
        /\ pc' = "announced" /\ UNCHANGED <<stop, loop, debts, started, denied>>
    BY DEF Admit
  <1>2. /\ c \in Calls /\ current' = c /\ c \notin seen
        /\ batch' \in Seq(Calls) /\ Len(batch) \in Nat \ {0} /\ Len(batch') = Len(batch) - 1
    BY <1>1, TakenProperties DEF Admitted
  <1>3. /\ pc = "calls" /\ owed = Len(batch) /\ untraced = Len(batch)
        /\ Len(batch) <= MaxBatch
    BY <1>1 DEF Calling, CallsAnswered, TypeOK
  <1>4. counts' \in [Tools -> 0..(MaxPerTool + 1)]
    BY <1>1, <1>2, CountTypes
  <1>5. \A i \in 1..Len(started) : started[i] # c
    BY <1>2 DEF OnlyAdmitted
  <1>6. /\ Len(batch') <= MaxBatch /\ seen' \in SUBSET Calls /\ current' \in Calls
        /\ pc' \in Places
    BY <1>1, <1>2, <1>3, ExecutorAssumption DEF TypeOK, Places
  <1>7. TypeOK'
    BY <1>1, <1>2, <1>4, <1>6 DEF TypeOK, loop, debts
  <1>8. CallsAnswered'
    BY <1>1, <1>2, <1>3 DEF CallsAnswered, debts
  <1>9. RoundOpen' /\ AtCall'
    BY <1>1, <1>2, <1>3, <1>5 DEF RoundOpen, InRound, AtCall, OnlyAdmitted, loop
  <1>10. OnlyAdmitted' /\ NoCallRepeated' /\ DeniedStaysDenied'
    BY <1>1 DEF OnlyAdmitted, NoCallRepeated, DeniedStaysDenied
  <1>. QED  BY <1>7, <1>8, <1>9, <1>10

(* The current call, announced or approved, is handed to its tool.         *)
LEMMA StartKeepsIInv ==
  ASSUME IInv, pc \in {"announced", "approval"}, pc' = "tool",
         started' = Append(started, current),
         UNCHANGED <<stop, loop, batch, current, guards, debts, denied>>
  PROVE  IInv'
  <1>. USE DEF IInv
  <1>1. /\ current \in Calls /\ current \in seen \ denied
        /\ \A i \in 1..Len(started) : started[i] # current
    BY DEF AtCall
  <1>2. /\ started' \in Seq(Calls) /\ Len(started') = Len(started) + 1
        /\ \A i \in 1..Len(started) : started'[i] = started[i]
        /\ started'[Len(started) + 1] = current
        /\ \A i \in 1..Len(started') : i \in 1..Len(started) \/ i = Len(started) + 1
        /\ NoCallRepeated'
    BY <1>1, StartProperties
  <1>3. TypeOK'
    BY <1>2 DEF TypeOK, Places, loop, guards, debts
  <1>4. CallsAnswered' /\ RoundOpen' /\ AtCall'
    BY <1>1 DEF CallsAnswered, RoundOpen, InRound, AtCall, loop, guards, debts
  <1>5. OnlyAdmitted' /\ DeniedStaysDenied'
    BY <1>1, <1>2 DEF OnlyAdmitted, DeniedStaysDenied, guards
  <1>. QED  BY <1>2, <1>3, <1>4, <1>5

(* The current call gets its trace: unparsable, denied, finished or cut    *)
(* short.                                                                  *)
LEMMA CallEndsKeepsIInv ==
  ASSUME IInv, pc \in {"announced", "approval", "tool"}, pc' \in {"reporting", "done"},
         untraced' = untraced - 1, denied' \in {denied, denied \cup {current}},
         denied' # denied => pc = "approval",
         UNCHANGED <<stop, loop, batch, current, guards, owed, started>>
  PROVE  IInv'
  <1>. USE DEF IInv
  <1>1. /\ current \in Calls
        /\ owed = Len(batch) + 1 /\ untraced = Len(batch) + 1
    BY DEF AtCall, CallsAnswered
  <1>2. Len(batch) \in Nat /\ owed \in 0..MaxBatch /\ untraced \in 0..MaxBatch
    BY LenProperties DEF TypeOK
  <1>3. owed' \in 0..MaxBatch /\ untraced' \in 0..MaxBatch
    BY <1>1, <1>2, ExecutorAssumption
  <1>4. TypeOK'
    BY <1>1, <1>3 DEF TypeOK, Places, loop, guards
  <1>5. CallsAnswered'
    BY <1>1, <1>2 DEF CallsAnswered
  <1>6. RoundOpen' /\ AtCall'
    BY <1>1 DEF RoundOpen, InRound, AtCall, loop
  <1>7. OnlyAdmitted' /\ NoCallRepeated' /\ DeniedStaysDenied'
    BY DEF AtCall, OnlyAdmitted, NoCallRepeated, DeniedStaysDenied, guards
  <1>. QED  BY <1>4, <1>5, <1>6, <1>7

LEMMA ReportKeepsIInv ==
  ASSUME IInv, Report
  PROVE  IInv'
  <1>. USE DEF IInv, Report
  <1>1. owed = Len(batch) + 1 /\ untraced = Len(batch) /\ Len(batch) \in Nat
    BY LenProperties DEF CallsAnswered, TypeOK
  <1>2. TypeOK'
    BY <1>1, ExecutorAssumption DEF TypeOK, Places, loop, guards
  <1>3. CallsAnswered'
    BY <1>1 DEF CallsAnswered
  <1>4. RoundOpen' /\ AtCall'
    BY DEF RoundOpen, InRound, AtCall, loop
  <1>5. OnlyAdmitted' /\ NoCallRepeated' /\ DeniedStaysDenied'
    BY DEF OnlyAdmitted, NoCallRepeated, DeniedStaysDenied, guards
  <1>. QED  BY <1>2, <1>3, <1>4, <1>5

LEMMA RoundOverKeepsIInv ==
  ASSUME IInv, RoundOver
  PROVE  IInv'
  <1>. USE DEF IInv, RoundOver
  <1>1. rounds' \in 0..MAX_TOOL_CALLS
    BY ExecutorAssumption DEF TypeOK, RoundOpen, InRound
  <1>2. TypeOK'
    BY <1>1 DEF TypeOK, Places, guards, debts
  <1>3. CallsAnswered' /\ RoundOpen' /\ AtCall'
    BY DEF CallsAnswered, RoundOpen, InRound, AtCall, debts
  <1>4. OnlyAdmitted' /\ NoCallRepeated' /\ DeniedStaysDenied'
    BY DEF OnlyAdmitted, NoCallRepeated, DeniedStaysDenied, guards
  <1>. QED  BY <1>2, <1>3, <1>4

LEMMA NextIInv ==
  ASSUME IInv, [Next]_vars
  PROVE  IInv'
  <1>. USE DEF loop
  <1>1. CASE Cancel
    BY <1>1, QuietKeepsIInv DEF Cancel, IInv, TypeOK
  <1>2. CASE Interrupted \/ FinalAnswer \/ StreamEnds \/ Raise
    BY <1>2, QuietKeepsIInv DEF Interrupted, FinalAnswer, StreamEnds, Raise, IInv, TypeOK
  <1>3. CASE AskModel
    <2>1. asked' \in 0..(MAX_TOOL_CALLS + 2)
      BY <1>3, ExecutorAssumption DEF AskModel, UpTo, IInv, TypeOK
    <2>. QED  BY <1>3, <2>1, QuietKeepsIInv DEF AskModel, IInv, TypeOK
  <1>4. CASE ToolCalls
    BY <1>4, ToolCallsKeepsIInv
  <1>5. CASE RecursionBlocked
    BY <1>5, RefusedKeepsIInv DEF RecursionBlocked, Trace
  <1>6. CASE LoopDetected
    BY <1>6, RefusedKeepsIInv DEF LoopDetected, Trace
  <1>7. CASE Admit
    BY <1>7, AdmitKeepsIInv
  <1>8. CASE StartCall
    <2>1. CASE current \in BadCalls /\ Trace /\ UNCHANGED started
      BY <1>8, <2>1, CallEndsKeepsIInv DEF StartCall, Trace
    <2>2. CASE pc' = "approval" /\ UNCHANGED <<untraced, started>>
      <3>. USE <1>8, <2>2 DEF StartCall, IInv
      <3>1. TypeOK' /\ CallsAnswered'
        BY DEF TypeOK, Places, CallsAnswered, loop, guards
      <3>2. RoundOpen' /\ AtCall'
        BY DEF RoundOpen, InRound, AtCall, loop, guards
      <3>3. OnlyAdmitted' /\ NoCallRepeated' /\ DeniedStaysDenied'
        BY DEF OnlyAdmitted, NoCallRepeated, DeniedStaysDenied, guards
      <3>. QED  BY <3>1, <3>2, <3>3
    <2>3. CASE pc' = "tool" /\ started' = Append(started, current) /\ UNCHANGED untraced
      BY <1>8, <2>3, StartKeepsIInv DEF StartCall, debts
    <2>. QED  BY <1>8, <2>1, <2>2, <2>3 DEF StartCall
  <1>9. CASE Approve
    BY <1>9, StartKeepsIInv DEF Approve
  <1>10. CASE Deny \/ ToolEnds \/ ToolCancelled
    BY <1>10, CallEndsKeepsIInv DEF Deny, ToolEnds, ToolCancelled, Trace
  <1>11. CASE Report
    BY <1>11, ReportKeepsIInv
  <1>12. CASE RoundOver
    BY <1>12, RoundOverKeepsIInv
  <1>13. CASE UNCHANGED vars
    BY <1>13, QuietKeepsIInv DEF vars, guards, debts, IInv, TypeOK
  <1>. QED
    BY <1>1, <1>2, <1>3, <1>4, <1>5, <1>6, <1>7, <1>8, <1>9, <1>10, <1>11, <1>12, <1>13
    DEF Next, Step

(* Both tool loops, for any calls, tools and limits: the model is asked    *)
(* nothing while a call of its is unanswered, no call is run twice, and a  *)
(* denied one is not run at all.                                           *)
THEOREM ExecutorInvariant ==
  Spec => [](TypeOK /\ CallsAnswered /\ NoCallRepeated /\ DeniedStaysDenied)
  <1>1. IInv => TypeOK /\ CallsAnswered /\ NoCallRepeated /\ DeniedStaysDenied
    BY DEF IInv
  <1>. QED  BY <1>1, InitIInv, NextIInv, PTL DEF Spec

(* In both loops every call of an answer has its message before the model  *)
(* is asked again, also one that is refused, denied, repeated or stopped.  *)
THEOREM EveryCallAnswered == Spec => []CallsAnswered
  BY ExecutorInvariant, PTL

-----------------------------------------------------------------------------
(* The requests to the model are counted by the rounds, in both loops.     *)

AskedInRounds ==
  /\ pc = "top" => asked = rounds
  /\ InRound \/ pc = "model" => asked = rounds + 1
  /\ ModelCallsBounded

LEMMA NextAskedInRounds ==
  ASSUME IInv, AskedInRounds, [Next]_vars
  PROVE  AskedInRounds'
  <1>0. /\ rounds \in 0..MAX_TOOL_CALLS /\ MAX_TOOL_CALLS \in Nat
        /\ asked \in 0..(MAX_TOOL_CALLS + 2) /\ (InRound => rounds < MAX_TOOL_CALLS)
    BY ExecutorAssumption DEF IInv, TypeOK, RoundOpen
  <1>. USE <1>0 DEF AskedInRounds, InRound, ModelCallsBounded, loop
  <1>1. CASE Cancel \/ Interrupted \/ FinalAnswer \/ StreamEnds \/ Raise
    BY <1>1 DEF Cancel, Interrupted, FinalAnswer, StreamEnds, Raise
  <1>2. CASE AskModel
    BY <1>2 DEF AskModel, UpTo
  <1>3. CASE ToolCalls
    BY <1>3 DEF ToolCalls
  <1>4. CASE RecursionBlocked \/ LoopDetected \/ Admit
    BY <1>4 DEF RecursionBlocked, LoopDetected, Admit, Calling, Trace
  <1>5. CASE StartCall \/ Approve \/ Deny \/ ToolEnds \/ ToolCancelled \/ Report
    BY <1>5 DEF StartCall, Approve, Deny, ToolEnds, ToolCancelled, Report, Trace
  <1>6. CASE RoundOver
    BY <1>6 DEF RoundOver
  <1>7. CASE UNCHANGED vars
    BY <1>7 DEF vars
  <1>. QED  BY <1>1, <1>2, <1>3, <1>4, <1>5, <1>6, <1>7 DEF Next, Step

(* In either loop, whatever the model answers, it is asked for tools at    *)
(* most once more than there may be rounds, for any limit.                 *)
THEOREM AsksBounded == Spec => []ModelCallsBounded
  <1>1. Init => AskedInRounds
    BY ExecutorAssumption DEF Init, AskedInRounds, InRound, ModelCallsBounded
  <1>2. AskedInRounds => ModelCallsBounded
    BY DEF AskedInRounds
  <1>. QED  BY <1>1, <1>2, InitIInv, NextIInv, NextAskedInRounds, PTL DEF Spec

-----------------------------------------------------------------------------
(* The recursion limit: a tool was started at most as often as call_counts *)
(* says, a call that is announced or waits for its approval included.      *)

RunsOf(t) == {i \in 1..Len(started) : ToolOf[started[i]] = t}

Waiting == pc \in {"announced", "approval"}

Due(t) == IF Waiting /\ ToolOf[current] = t THEN 1 ELSE 0

RunsCounted ==
  \A t \in Tools : /\ Cardinality(RunsOf(t)) + Due(t) <= counts[t]
                   /\ Cardinality(RunsOf(t)) + Due(t) <= MaxPerTool

LEMMA RunsOfFinite ==
  ASSUME TypeOK, NEW t
  PROVE  IsFiniteSet(RunsOf(t)) /\ Cardinality(RunsOf(t)) \in Nat
  <1>1. Len(started) \in Nat
    BY LenProperties DEF TypeOK
  <1>2. IsFiniteSet(1..Len(started))
    BY <1>1, FS_Interval
  <1>3. IsFiniteSet(RunsOf(t))
    BY <1>2, FS_Subset DEF RunsOf
  <1>. QED  BY <1>3, FS_CardinalityType

LEMMA RunsOfStarted ==
  ASSUME TypeOK, NEW c \in Calls, started' = Append(started, c), NEW t
  PROVE  Cardinality(RunsOf(t))' =
           Cardinality(RunsOf(t)) + (IF ToolOf[c] = t THEN 1 ELSE 0)
  <1>1. started \in Seq(Calls) /\ Len(started) \in Nat
    BY LenProperties DEF TypeOK
  <1>2. /\ Len(started') = Len(started) + 1 /\ started'[Len(started) + 1] = c
        /\ \A i \in 1..Len(started) : started'[i] = started[i]
    BY <1>1, AppendProperties
  <1>3. CASE ToolOf[c] = t
    <2>1. RunsOf(t)' = RunsOf(t) \cup {Len(started) + 1}
      BY <1>1, <1>2, <1>3 DEF RunsOf
    <2>2. Len(started) + 1 \notin RunsOf(t)
      BY <1>1 DEF RunsOf
    <2>. QED  BY <1>3, <2>1, <2>2, RunsOfFinite, FS_AddElement
  <1>4. CASE ToolOf[c] # t
    <2>1. RunsOf(t)' = RunsOf(t)
      BY <1>1, <1>2, <1>4 DEF RunsOf
    <2>. QED  BY <1>4, <2>1, RunsOfFinite
  <1>. QED  BY <1>3, <1>4

(* Counting a call leaves room for it, unless it is blocked.               *)
LEMMA CountedRuns ==
  ASSUME TypeOK, RunsCounted, ~Waiting, NEW c \in Calls, Count(c), NEW t \in Tools
  PROVE  /\ Cardinality(RunsOf(t)) <= counts'[t]
         /\ Cardinality(RunsOf(t)) <= MaxPerTool
         /\ ToolOf[c] = t /\ ~Blocked(c) =>
              /\ Cardinality(RunsOf(t)) + 1 <= counts'[t]
              /\ Cardinality(RunsOf(t)) + 1 <= MaxPerTool
  <1>1. /\ counts[t] \in 0..(MaxPerTool + 1) /\ MaxPerTool \in Nat /\ ToolOf[c] \in Tools
        /\ Cardinality(RunsOf(t)) \in Nat
    BY ExecutorAssumption, RunsOfFinite DEF TypeOK
  <1>2. Cardinality(RunsOf(t)) <= counts[t] /\ Cardinality(RunsOf(t)) <= MaxPerTool
    BY <1>1 DEF RunsCounted, Due
  <1>3. counts'[t] = IF ToolOf[c] = t THEN UpTo(counts[t] + 1, MaxPerTool + 1) ELSE counts[t]
    BY DEF Count, TypeOK
  <1>. QED  BY <1>1, <1>2, <1>3 DEF UpTo, Blocked

LEMMA NextRunsCounted ==
  ASSUME IInv, RunsCounted, [Next]_vars
  PROVE  RunsCounted'
  <1>. USE ExecutorAssumption DEF IInv
  <1>0. \A t \in Tools : Cardinality(RunsOf(t)) \in Nat /\ Due(t) \in 0..1
    BY RunsOfFinite DEF Due
  <1>1. ASSUME UNCHANGED <<started, counts, current>>, Waiting' => Waiting
        PROVE  RunsCounted'
    <2>1. \A t \in Tools : RunsOf(t)' = RunsOf(t) /\ Due(t)' \in {0, Due(t)}
      BY <1>1 DEF RunsOf, Due
    <2>2. \A t \in Tools : counts[t] \in 0..(MaxPerTool + 1)
      BY DEF TypeOK
    <2>. QED  BY <1>0, <1>1, <2>1, <2>2 DEF RunsCounted
  <1>2. CASE Cancel \/ Interrupted \/ AskModel \/ FinalAnswer \/ ToolCalls \/ StreamEnds
             \/ Raise \/ Deny \/ ToolEnds \/ ToolCancelled \/ Report \/ RoundOver
    BY <1>1, <1>2
    DEF Cancel, Interrupted, AskModel, FinalAnswer, ToolCalls, StreamEnds, Raise, Deny,
        ToolEnds, ToolCancelled, Report, RoundOver, Trace, Waiting, guards
  <1>3. CASE UNCHANGED vars
    BY <1>1, <1>3 DEF vars, guards, Waiting
  <1>4. CASE RecursionBlocked \/ LoopDetected
    <2>1. /\ Calling /\ Taken /\ Count(Head(batch)) /\ started' = started
          /\ ~Waiting' /\ ~Waiting
      BY <1>4 DEF RecursionBlocked, LoopDetected, Calling, Trace, Waiting
    <2>2. Head(batch) \in Calls
      BY <2>1, TakenProperties
    <2>3. \A t \in Tools : RunsOf(t)' = RunsOf(t) /\ Due(t)' = 0
      BY <2>1 DEF RunsOf, Due
    <2>. QED  BY <1>0, <2>1, <2>2, <2>3, CountedRuns DEF RunsCounted
  <1>5. CASE Admit
    <2>. DEFINE c == Head(batch)
    <2>1. /\ Calling /\ Taken /\ Count(c) /\ ~Blocked(c) /\ started' = started
          /\ c \in Calls /\ current' = c /\ ~Waiting /\ Waiting'
      BY <1>5, TakenProperties DEF Admit, Admitted, Calling, Waiting
    <2>. HIDE DEF c
    <2>2. \A t \in Tools :
            RunsOf(t)' = RunsOf(t) /\ Due(t)' = IF ToolOf[c] = t THEN 1 ELSE 0
      BY <2>1 DEF RunsOf, Due
    <2>. QED  BY <1>0, <2>1, <2>2, CountedRuns DEF RunsCounted
  <1>6. ASSUME Waiting, pc' = "tool", started' = Append(started, current),
               UNCHANGED <<counts, current>>
        PROVE  RunsCounted'
    <2>1. current \in Calls /\ ~Waiting'
      BY <1>6 DEF AtCall, Waiting
    <2>2. \A t \in Tools : Cardinality(RunsOf(t))' =
                             Cardinality(RunsOf(t)) + (IF ToolOf[current] = t THEN 1 ELSE 0)
      BY <1>6, <2>1, RunsOfStarted
    <2>3. \A t \in Tools : Due(t)' = 0 /\ Due(t) = IF ToolOf[current] = t THEN 1 ELSE 0
      BY <1>6, <2>1 DEF Due
    <2>4. counts' = counts /\ \A t \in Tools : counts[t] \in 0..(MaxPerTool + 1)
      BY <1>6 DEF TypeOK
    <2>. QED  BY <1>0, <2>2, <2>3, <2>4 DEF RunsCounted
  <1>7. CASE StartCall
    <2>1. CASE UNCHANGED started
      BY <1>1, <1>7, <2>1 DEF StartCall, Trace, Waiting, guards
    <2>2. CASE pc' = "tool" /\ started' = Append(started, current)
      BY <1>6, <1>7, <2>2 DEF StartCall, Waiting, guards
    <2>. QED  BY <1>7, <2>1, <2>2 DEF StartCall
  <1>8. CASE Approve
    BY <1>6, <1>8 DEF Approve, Waiting, guards
  <1>. QED  BY <1>2, <1>3, <1>4, <1>5, <1>7, <1>8 DEF Next, Step

(* No tool is started more often than the recursion limit allows, in any   *)
(* execution of either loop.                                               *)
THEOREM RecursionLimited == Spec => []RunsLimited
  <1>1. Init => RunsCounted
    <2>. SUFFICES ASSUME Init, NEW t \in Tools
                  PROVE  /\ Cardinality(RunsOf(t)) + Due(t) <= counts[t]
                         /\ Cardinality(RunsOf(t)) + Due(t) <= MaxPerTool
      BY DEF RunsCounted
    <2>1. Len(<<>>) = 0
      BY EmptySeq
    <2>2. RunsOf(t) = {}
      BY <2>1 DEF Init, RunsOf
    <2>3. Cardinality(RunsOf(t)) = 0
      BY <2>2, FS_EmptySet
    <2>. QED  BY <2>3, ExecutorAssumption DEF Init, Due, Waiting
  <1>2. IInv /\ RunsCounted => RunsLimited
    <2>. SUFFICES ASSUME IInv, RunsCounted, NEW t \in Tools
                  PROVE  Cardinality(RunsOf(t)) <= MaxPerTool
      BY DEF RunsLimited, RunsOf
    <2>1. Cardinality(RunsOf(t)) \in Nat /\ Due(t) \in 0..1 /\ MaxPerTool \in Nat
      BY RunsOfFinite, ExecutorAssumption DEF IInv, Due
    <2>. QED  BY <2>1 DEF RunsCounted
  <1>. QED  BY <1>1, <1>2, InitIInv, NextIInv, NextRunsCounted, PTL DEF Spec
=============================================================================
