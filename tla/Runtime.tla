------------------------------ MODULE Runtime -------------------------------
(***************************************************************************)
(* The execution runtime (app/core/runtime): an append-only ledger, the    *)
(* reducer that derives the state from it, the kernel that gates the state *)
(* changes, the policy, the validation of what the model proposes and the  *)
(* execution of side effects with retries and compensation.                *)
(*                                                                         *)
(* The loop that calls these parts is the one their docstrings ask for     *)
(* (fsm.py 165-174).  It is driven by the ledger alone: what it does next  *)
(* follows from the last event, so that a restart resumes it.  A user      *)
(* answers authorization requests, a second reader replays the ledger in   *)
(* increments, and the process may die between any two steps.              *)
(***************************************************************************)
EXTENDS Naturals, Sequences, FiniteSets, SequencesExt

CONSTANTS
  Offered,     \* action types the model proposes
  Tiers,       \* tiers of the user of a run
  RetryLimit,  \* retry_limit of a side effect
  MaxEvents,   \* bound: events in the ledger
  MaxCrashes,  \* bound: crashes
  NoProposal

ASSUME RuntimeAssumption == RetryLimit \in Nat

VARIABLES
  ledger,    \* the committed events; position i holds sequence_id i - 1
  tier,      \* tier of the task
  exec,      \* the running execute_with_idempotency
  effects,   \* effects[k]: how often the effect of key k took place
  doubt,     \* doubt[k]: how often the effect of k took place with nobody to know
  clock,     \* Lamport clock of the loop
  uiClock,   \* Lamport clock of the process in which the user answers
  failed,    \* the loop died of an InvariantViolationError
  reader,    \* snapshot a second reader keeps by incremental replay
  crashes

vars == <<ledger, tier, exec, effects, doubt, clock, uiClock, failed, reader, crashes>>

-----------------------------------------------------------------------------
(* Policy: the capability graph and the decision.                          *)

All == {"admin", "family", "friends", "guests"}

Capability(risk, tiers) == [risk |-> risk, tiers |-> tiers]

CapabilityGraph ==
  [READ_FILE             |-> Capability("LOW", {"admin", "family"}),
   WRITE_FILE            |-> Capability("MEDIUM", {"admin"}),
   DELETE_FILE           |-> Capability("HIGH", {"admin"}),
   RUN_SHELL             |-> Capability("HIGH", {"admin"}),
   WEB_SEARCH            |-> Capability("LOW", All),
   HTTP_GET              |-> Capability("MEDIUM", {"admin", "family"}),
   HTTP_POST             |-> Capability("HIGH", {"admin"}),
   STORE_MEMORY          |-> Capability("LOW", All),
   RETRIEVE_MEMORY       |-> Capability("LOW", All),
   COMPLETE_TASK         |-> Capability("LOW", All \cup {"strangers"}),
   REQUEST_CLARIFICATION |-> Capability("LOW", All \cup {"strangers"})]

LegalActions(t) ==
  {a \in DOMAIN CapabilityGraph :
     t \in CapabilityGraph[a].tiers /\ CapabilityGraph[a].risk # "CRITICAL"}

(* Mutant of EvaluatePolicy: medium risk is approved at once.              *)
EvaluatePolicy_MediumFree(action, t, state) ==
  CASE action \notin DOMAIN CapabilityGraph -> "DENIED"
    [] OTHER -> IF CapabilityGraph[action].risk = "HIGH"
                  THEN "REQUIRES_AUTHORIZATION" ELSE "APPROVED"

(* Any of the first four rules denies; only then the risk decides.         *)
EvaluatePolicy(action, t, state) ==
  IF \/ action \notin DOMAIN CapabilityGraph
     \/ t \notin CapabilityGraph[action].tiers
     \/ CapabilityGraph[action].risk = "CRITICAL"
     \/ state \notin {"COGNITION_PROPOSING", "POLICY_EVALUATION"}
  THEN "DENIED"
  ELSE IF CapabilityGraph[action].risk \in {"HIGH", "MEDIUM"}
         THEN "REQUIRES_AUTHORIZATION" ELSE "APPROVED"

-----------------------------------------------------------------------------
(* The reducer.                                                            *)

Snapshot0 ==
  [state |-> "IDLE", proposal |-> NoProposal, effects |-> <<>>, pending |-> FALSE,
   observed |-> FALSE, seq |-> 0, lamport |-> 0, count |-> 0]

SetStatus(effs, key, status) ==
  [i \in DOMAIN effs |->
     IF effs[i].key = key THEN [effs[i] EXCEPT !.status = status] ELSE effs[i]]

Payload(s, e) ==
  CASE e.type = "TASK_CREATED" -> [s EXCEPT !.state = "IDLE"]
    [] e.type = "FSM_TRANSITIONED" -> [s EXCEPT !.state = e.payload]
    [] e.type = "COGNITION_PROPOSED" -> [s EXCEPT !.proposal = e.payload]
    [] e.type = "POLICY_EVALUATED" ->
         IF e.payload = "DENIED" THEN [s EXCEPT !.proposal = NoProposal] ELSE s
    [] e.type = "AUTHORIZATION_REQUESTED" -> [s EXCEPT !.pending = TRUE]
    [] e.type = "AUTHORIZATION_RESOLVED" -> [s EXCEPT !.pending = FALSE]
    [] e.type = "SIDE_EFFECT_REGISTERED" ->
         [s EXCEPT !.effects = Append(@, [key |-> e.payload, status |-> "PENDING"])]
    [] e.type = "SIDE_EFFECT_COMMITTED" ->
         [s EXCEPT !.effects = SetStatus(@, e.payload, "COMMITTED")]
    [] e.type = "SIDE_EFFECT_ROLLED_BACK" ->
         [s EXCEPT !.effects = SetStatus(@, e.payload, "ROLLED_BACK")]
    [] e.type = "OBSERVATION_RECORDED" ->
         [s EXCEPT !.observed = TRUE, !.proposal = NoProposal]
    [] e.type = "SYSTEM_HALTED" -> [s EXCEPT !.state = "HALTED"]

(* _apply: an event at a position of the ledger, applied to a snapshot.    *)
Apply(s, e) ==
  [Payload(s, e) EXCEPT !.seq = e.seq, !.lamport = e.clock, !.count = s.count + 1]

(* reduce: the events applied one after the other.                         *)
Reduce(s, events) ==
  LET after[i \in 0..Len(events)] ==
        IF i = 0 THEN s ELSE Apply(after[i - 1], events[i])
  IN  after[Len(events)]

Snapshot == Reduce(Snapshot0, ledger)

(* Mutant of ReadSince: the event at the given position is read again.     *)
ReadSince_Inclusive(seq) == SubSeq(ledger, seq + 1, Len(ledger))

(* read_since: the events strictly after a sequence_id.                    *)
ReadSince(seq) == SubSeq(ledger, seq + 2, Len(ledger))

-----------------------------------------------------------------------------
(* The kernel.                                                             *)

ValidTransitions ==
  [IDLE                  |-> {"COGNITION_PROPOSING", "HALTED"},
   COGNITION_PROPOSING   |-> {"POLICY_EVALUATION", "HALTED"},
   POLICY_EVALUATION     |-> {"EXECUTING", "PENDING_AUTHORIZATION", "COGNITION_PROPOSING",
                              "HALTED"},
   PENDING_AUTHORIZATION |-> {"EXECUTING", "COGNITION_PROPOSING", "HALTED"},
   EXECUTING             |-> {"OBSERVATION_ROUTING", "HALTED"},
   OBSERVATION_ROUTING   |-> {"COGNITION_PROPOSING", "IDLE", "HALTED"},
   HALTED                |-> {}]

Keyed(type, k) == {i \in DOMAIN ledger : ledger[i].type = type /\ ledger[i].payload = k}

CommittedKeys == {k \in Offered : Keyed("SIDE_EFFECT_COMMITTED", k) # {}}

Requests == {i \in DOMAIN ledger : ledger[i].type = "AUTHORIZATION_REQUESTED"}

Resolutions(i) ==
  {j \in DOMAIN ledger : ledger[j].type = "AUTHORIZATION_RESOLVED" /\ ledger[j].payload.request = i}

(* The two invariants over the whole ledger that gate every transition.    *)
LedgerSound ==
  /\ \A k \in Offered : Cardinality(Keyed("SIDE_EFFECT_COMMITTED", k)) <= 1
  /\ \A i \in Requests : Cardinality(Resolutions(i)) <= 1

(* validate_transition.                                                    *)
ValidTransition(s, to) == to \in ValidTransitions[s.state] /\ LedgerSound

(* validate_post_transition: the three structural invariants.              *)
StructurallySound(s) ==
  /\ s.state = "EXECUTING" =>
       Cardinality({i \in DOMAIN s.effects : s.effects[i].status = "PENDING"}) <= 1
  /\ s.state \in {"IDLE", "HALTED"} => s.proposal = NoProposal
  /\ s.pending => s.state = "PENDING_AUTHORIZATION"

-----------------------------------------------------------------------------
(* The loop.                                                               *)

(* The payload of an event on which nothing depends.                       *)
None == "none"

NotExecuting == [phase |-> "none", attempt |-> 0]

Init ==
  /\ ledger = <<>> /\ tier \in Tiers
  /\ exec = NotExecuting
  /\ effects = [k \in Offered |-> 0] /\ doubt = [k \in Offered |-> 0]
  /\ clock = 0 /\ uiClock = 0 /\ failed = FALSE
  /\ reader = Snapshot0 /\ crashes = 0

(* append: the tip is read and the row written under one lock.  The        *)
(* payload is the one field of it that anything depends on.                *)
Post(type, payload, lamport) ==
  /\ Len(ledger) < MaxEvents
  /\ ledger' = Append(ledger, [seq |-> Len(ledger), clock |-> lamport,
                               type |-> type, payload |-> payload])

(* An event of the loop: tick() before it is sent.                         *)
Record(type, payload) == Post(type, payload, clock + 1) /\ clock' = clock + 1

Running == ~failed /\ Snapshot.state # "HALTED"

Tip(type) == Running /\ ledger # <<>> /\ Last(ledger).type = type

Entered(state) == Tip("FSM_TRANSITIONED") /\ Last(ledger).payload = state

(* validate, append, reduce, validate again: the order the kernel asks for *)
Enter(to) ==
  /\ ValidTransition(Snapshot, to)
  /\ Record("FSM_TRANSITIONED", to)
  /\ failed' = ~StructurallySound(Reduce(Snapshot0, ledger'))

Transition(to) == Enter(to) /\ UNCHANGED <<tier, exec, effects, doubt, uiClock, reader, crashes>>

Note(type, payload) ==
  /\ Record(type, payload)
  /\ UNCHANGED <<tier, exec, effects, doubt, uiClock, failed, reader, crashes>>

CreateTask ==
  /\ Running /\ (ledger = <<>> \/ Entered("IDLE"))
  /\ Note("TASK_CREATED", None)

StartCognition == Tip("TASK_CREATED") /\ Transition("COGNITION_PROPOSING")

(* build_cognition_input: what the model is shown of the state.            *)
CognitionInput(s, t) ==
  [state |-> s.state, legal |-> LegalActions(t), authorizationPending |-> s.pending,
   terminal |-> s.state = "HALTED",
   steps |-> Cardinality({i \in DOMAIN s.effects : s.effects[i].status = "PENDING"})]

ValidProposal(action, input) ==
  action \in DOMAIN CapabilityGraph /\ action \in input.legal

(* request_proposal; an invalid proposal raises, and the model is asked    *)
(* again.                                                                  *)
Propose ==
  /\ Entered("COGNITION_PROPOSING")
  /\ \E action \in Offered :
       /\ ValidProposal(action, CognitionInput(Snapshot, tier))
       /\ Note("COGNITION_PROPOSED", action)

StartPolicy == Tip("COGNITION_PROPOSED") /\ Transition("POLICY_EVALUATION")

Evaluate ==
  /\ Entered("POLICY_EVALUATION")
  /\ LET s == Snapshot
     IN  Note("POLICY_EVALUATED", EvaluatePolicy(s.proposal, tier, s.state))

Decided ==
  /\ Tip("POLICY_EVALUATED")
  /\ Transition(CASE Last(ledger).payload = "APPROVED" -> "EXECUTING"
                  [] Last(ledger).payload = "DENIED" -> "COGNITION_PROPOSING"
                  [] OTHER -> "PENDING_AUTHORIZATION")

RequestAuthorization ==
  /\ Entered("PENDING_AUTHORIZATION")
  /\ Note("AUTHORIZATION_REQUESTED", Snapshot.proposal)

(* The other process: update() on the request, tick() for the answer.  The *)
(* resolver writes one resolution of a request (module AuthResolver).      *)
Resolve(resolution) ==
  \E i \in Requests :
    /\ Resolutions(i) = {}
    /\ LET sent == (IF uiClock > ledger[i].clock THEN uiClock ELSE ledger[i].clock) + 2
       IN  /\ Post("AUTHORIZATION_RESOLVED", [request |-> i, resolution |-> resolution], sent)
           /\ uiClock' = sent
    /\ UNCHANGED <<tier, exec, effects, doubt, clock, failed, reader, crashes>>

(* The loop receives the resolution: update(), then tick().                *)
Resolved ==
  /\ Tip("AUTHORIZATION_RESOLVED")
  /\ LET e  == Last(ledger)
         to == CASE e.payload.resolution = "APPROVED" -> "EXECUTING"
                 [] e.payload.resolution = "REJECTED" -> "COGNITION_PROPOSING"
                 [] OTHER -> "HALTED"
         synced == (IF clock > e.clock THEN clock ELSE e.clock) + 1
     IN  /\ ValidTransition(Snapshot, to)
         /\ Post("FSM_TRANSITIONED", to, synced + 1)
         /\ clock' = synced + 1
         /\ failed' = ~StructurallySound(Reduce(Snapshot0, ledger'))
  /\ UNCHANGED <<tier, exec, effects, doubt, uiClock, reader, crashes>>

Register ==
  /\ Entered("EXECUTING")
  /\ Note("SIDE_EFFECT_REGISTERED", Snapshot.proposal)

-----------------------------------------------------------------------------
(* execute_with_idempotency, awaiting at every attempt.                    *)

Key == Last(ledger).payload

Phase(p) == Tip("SIDE_EFFECT_REGISTERED") /\ exec.phase = p

(* Mutant of Execute: the committed keys are not looked at.                *)
Execute_Unchecked ==
  /\ Phase("none")
  /\ exec' = [phase |-> "attempt", attempt |-> 0]
  /\ UNCHANGED <<ledger, tier, effects, doubt, clock, uiClock, failed, reader, crashes>>

(* The check against the committed keys; AlreadyCommittedError is a no-op  *)
(* for the caller.                                                         *)
Execute ==
  /\ Phase("none")
  /\ exec' = [phase |-> IF Key \in CommittedKeys THEN "skip" ELSE "attempt", attempt |-> 0]
  /\ UNCHANGED <<ledger, tier, effects, doubt, clock, uiClock, failed, reader, crashes>>

AttemptSucceeds ==
  /\ Phase("attempt")
  /\ exec' = [exec EXCEPT !.phase = "receipt"]
  /\ effects' = [effects EXCEPT ![Key] = @ + 1]
  /\ UNCHANGED <<ledger, tier, doubt, clock, uiClock, failed, reader, crashes>>

(* The next attempt after the backoff, or the compensation.                *)
TryAgain ==
  exec' = IF exec.attempt < RetryLimit
            THEN [exec EXCEPT !.attempt = @ + 1]
            ELSE [exec EXCEPT !.phase = "compensate"]

AttemptFails ==
  /\ Phase("attempt") /\ TryAgain
  /\ UNCHANGED <<ledger, tier, effects, doubt, clock, uiClock, failed, reader, crashes>>

(* Mutant of AttemptRaises: the failed attempt is not counted.             *)
AttemptRaises_Uncounted ==
  /\ Phase("attempt")
  /\ effects' = [effects EXCEPT ![Key] = @ + 1]
  /\ doubt' = [doubt EXCEPT ![Key] = @ + 1]
  /\ UNCHANGED <<exec, ledger, tier, clock, uiClock, failed, reader, crashes>>

(* The function raises after its effect took place: any exception counts   *)
(* as a failure, and the next attempt repeats the effect.                  *)
AttemptRaises ==
  /\ Phase("attempt") /\ TryAgain
  /\ effects' = [effects EXCEPT ![Key] = @ + 1]
  /\ doubt' = [doubt EXCEPT ![Key] = @ + 1]
  /\ UNCHANGED <<ledger, tier, clock, uiClock, failed, reader, crashes>>

Settle(type, payload) ==
  /\ Record(type, payload) /\ exec' = NotExecuting
  /\ UNCHANGED <<tier, effects, doubt, uiClock, failed, reader, crashes>>

Commit == Phase("receipt") /\ Settle("SIDE_EFFECT_COMMITTED", Key)

CompensationSucceeds ==
  Phase("compensate") /\ Settle("SIDE_EFFECT_ROLLED_BACK", Key)

(* "The FSM transitions to HALTED."                                        *)
CompensationFails ==
  /\ Phase("compensate") /\ Enter("HALTED") /\ exec' = NotExecuting
  /\ UNCHANGED <<tier, effects, doubt, uiClock, reader, crashes>>

ObserveNoOp == Phase("skip") /\ Settle("OBSERVATION_RECORDED", None)

Observe ==
  /\ Tip("SIDE_EFFECT_COMMITTED") \/ Tip("SIDE_EFFECT_ROLLED_BACK")
  /\ Note("OBSERVATION_RECORDED", None)

Route == Tip("OBSERVATION_RECORDED") /\ Transition("OBSERVATION_ROUTING")

NextStep ==
  /\ Entered("OBSERVATION_ROUTING")
  /\ \E to \in {"COGNITION_PROPOSING", "IDLE"} : Transition(to)

(* An emergency, after every answer has been received.                     *)
Halt ==
  /\ Running /\ exec.phase = "none" /\ ledger # <<>>
  /\ Last(ledger).type # "AUTHORIZATION_RESOLVED"
  /\ Transition("HALTED")

-----------------------------------------------------------------------------
(* The process dies and starts again: everything but the ledger is gone,   *)
(* and the clock continues from the snapshot's.                            *)
Restart ==
  /\ exec' = NotExecuting /\ clock' = Snapshot.lamport
  /\ UNCHANGED <<ledger, tier, effects, uiClock, failed, reader>>

Crash ==
  /\ crashes < MaxCrashes /\ crashes' = crashes + 1
  /\ doubt' = IF exec.phase = "receipt" THEN [doubt EXCEPT ![Key] = @ + 1] ELSE doubt
  /\ Restart

(* The second reader: the whole log once, then increments.                 *)
ReadAll ==
  /\ reader.count = 0 /\ ledger # <<>>
  /\ reader' = Snapshot
  /\ UNCHANGED <<ledger, tier, exec, effects, doubt, clock, uiClock, failed, crashes>>

CatchUp ==
  /\ reader.count > 0 /\ reader.count < Len(ledger)
  /\ reader' = Reduce(reader, ReadSince(reader.seq))
  /\ UNCHANGED <<ledger, tier, exec, effects, doubt, clock, uiClock, failed, crashes>>

Loop ==
  \/ StartCognition \/ Propose \/ StartPolicy \/ Evaluate \/ Decided
  \/ RequestAuthorization \/ Resolved \/ Register
  \/ Execute \/ AttemptSucceeds \/ AttemptFails \/ AttemptRaises \/ Commit
  \/ CompensationSucceeds \/ CompensationFails \/ ObserveNoOp
  \/ Observe \/ Route \/ NextStep

Next ==
  \/ CreateTask \/ Loop \/ Halt \/ Crash \/ ReadAll \/ CatchUp
  \/ \E r \in {"APPROVED", "REJECTED", "TIMED_OUT"} : Resolve(r)

Spec == Init /\ [][Next]_vars

-----------------------------------------------------------------------------
(* No action of medium or high risk is carried out unless the user has     *)
(* approved a request for that action, after the proposal it answers, and  *)
(* none at all that the tier may not use (policy.py 134, fsm.py 27).       *)
AuthorizedFirst ==
  \A i \in DOMAIN ledger : ledger[i].type = "SIDE_EFFECT_REGISTERED" =>
    LET a == ledger[i].payload
    IN  /\ a \in LegalActions(tier)
        /\ CapabilityGraph[a].risk \in {"MEDIUM", "HIGH"} =>
             \E r, j \in 1..(i - 1) :
               /\ ledger[r].type = "AUTHORIZATION_REQUESTED" /\ ledger[r].payload = a
               /\ ledger[j].type = "AUTHORIZATION_RESOLVED" /\ ledger[j].payload.request = r
               /\ ledger[j].payload.resolution = "APPROVED"
               /\ \A m \in r..i : ledger[m].type # "COGNITION_PROPOSED"

(* The variables of Effects that are not variables here.                   *)
Records == [k \in Offered |-> Cardinality(Keyed("SIDE_EFFECT_COMMITTED", k))]

Unrecorded == {k \in Offered : exec.phase = "receipt" /\ Key = k}

(* However often the process dies or an attempt raises, also after its     *)
(* effect, the runtime keeps the promise of module Effects: an effect that *)
(* was committed never takes place again, and none is committed that did   *)
(* not (idempotency.py 95: "full idempotency, retry, and compensation").   *)
Promise == INSTANCE Effects WITH
  Keys <- Offered, done <- effects, records <- Records, lost <- doubt,
  unrecorded <- Unrecorded

ImplementsEffects == Promise!Spec

(* How often an effect may take place in all: once for each of the         *)
(* RetryLimit + 1 attempts of each registration, and all over again after  *)
(* each crash; and a key is committed once at most (idempotency.py 104:    *)
(* the retry schedule).                                                    *)
RepeatsBounded ==
  \A k \in Offered :
    /\ Cardinality(Keyed("SIDE_EFFECT_COMMITTED", k)) <= 1
    /\ effects[k] <= (RetryLimit + 1)
                       * (Cardinality(Keyed("SIDE_EFFECT_REGISTERED", k)) + crashes)

(* A reader that replays increments on its checkpoint has the snapshot of  *)
(* the prefix it has read, and the Lamport clocks order the events of both *)
(* processes as the ledger does (ledger.py 353, transport.py 41).          *)
ReplayAgrees ==
  /\ reader.count > 0 => reader = Reduce(Snapshot0, SubSeq(ledger, 1, reader.seq + 1))
  /\ \A i \in 2..Len(ledger) : ledger[i - 1].clock < ledger[i].clock

=============================================================================
