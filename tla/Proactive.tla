----------------------------- MODULE Proactive ------------------------------
(***************************************************************************)
(* The proactive engine (app/services/proactive.py): the loop that decides *)
(* once a minute whether to say something, the welcome of a user who comes *)
(* back, the pages that listen, the limits, and the credit a message gets  *)
(* when the user reacts to it.                                             *)
(*                                                                         *)
(* Every handler runs to its next await on one event loop.  The only await *)
(* that suspends is the answer of the model (_generate), so the loop and   *)
(* the welcome are each cut in two there.  What the preferences, the load, *)
(* the dice and the model say is chosen by the environment.  Time is       *)
(* counted in ticks; an age is the number of ticks since an event, Never   *)
(* when there was none.                                                    *)
(***************************************************************************)
EXTENDS Naturals, FiniteSets

CONSTANTS
  Pages,          \* pages that may listen to the events of the engine
  Limits,         \* settings the user may choose: [cooldown, idle, perHour]
  Recent,         \* a user or a message is recent up to this age
  AlertCooldown,  \* SYS_ALERT_COOLDOWN_MINUTES
  MaxMessages,    \* bound: messages sent
  MaxTicks        \* bound: ticks

VARIABLES
  clients,   \* _clients
  limits,    \* COOLDOWN_MINUTES, IDLE_CHECK_MINUTES, MAX_PER_HOUR
  hour,      \* the hour of the wall clock, modulo 2
  bucket,    \* _hour_bucket
  age,       \* ages of _last_sent, _user_last_active and _last_sys_alert
  count,     \* _sent_count
  last,      \* _last_message_id, 0 for None
  loop,      \* the main loop: its phase and the message it is making
  visits,    \* USER_ARRIVAL events on the bus
  visitor,   \* on_user_arrival: "none" or "generating"
  sent,      \* number of messages sent, the id of the latest
  loopAge,   \* history: age of the latest message of the loop
  credited,  \* history: the latest message credited, and how many were
  ticks

time == <<hour, ticks>>
user == <<limits, visits, credited>>
vars == <<clients, user, time, bucket, age, count, last, loop, visitor, sent, loopAge>>

Never == MaxTicks + 1

Older(a) == IF a = Never THEN a ELSE a + 1

Asleep == [phase |-> "asleep", topic |-> "time", age |-> 0, cooldown |-> 0]

Init ==
  /\ clients = {} /\ limits \in Limits
  /\ hour = 0 /\ bucket = 0 /\ count = 0
  /\ age = [sent |-> Never, active |-> Never, alert |-> Never]
  /\ last = 0 /\ loop = [Asleep EXCEPT !.phase = "booting"]
  /\ visits = 0 /\ visitor = "none"
  /\ sent = 0 /\ loopAge = Never /\ credited = [id |-> 0, number |-> 0] /\ ticks = 0

-----------------------------------------------------------------------------
(* Pages: the SSE endpoint registers its queue and unregisters it when the *)
(* page is gone.                                                           *)
Register(p) ==
  /\ p \notin clients /\ clients' = clients \cup {p}
  /\ UNCHANGED <<user, time, bucket, age, count, last, loop, visitor, sent, loopAge>>

Unregister(p) ==
  /\ p \in clients /\ clients' = clients \ {p}
  /\ UNCHANGED <<user, time, bucket, age, count, last, loop, visitor, sent, loopAge>>

(* _broadcast puts a message into the queue of every page, and stamps and  *)
(* counts it; without a page it does nothing.                              *)
Heard == clients # {}

Broadcast ==
  IF Heard THEN sent < MaxMessages /\ sent' = sent + 1 /\ last' = sent + 1
           ELSE UNCHANGED <<sent, last>>

-----------------------------------------------------------------------------
(* notify_user_active, at every chat request: an arrival after a long      *)
(* silence, and the credit of a message that was just sent.                *)

Credit == credited' = [id |-> last, number |-> credited.number + 1]

CreditLast ==
  IF last # 0 /\ age.sent <= Recent
    THEN Credit /\ last' = 0
    ELSE UNCHANGED <<last, credited>>

NotifyUserActive ==
  /\ age' = [age EXCEPT !.active = 0]
  /\ visits' = IF age.active # Never /\ age.active > limits.idle THEN visits + 1 ELSE visits
  /\ CreditLast
  /\ UNCHANGED <<clients, limits, time, bucket, count, loop, visitor, sent, loopAge>>

(* PATCH /api/monitors/proactive/settings: the module's globals, at once.  *)
UpdateSettings ==
  /\ limits' \in Limits \ {limits}
  /\ UNCHANGED <<clients, visits, credited, time, bucket, age, count, last, loop, visitor,
                 sent, loopAge>>

-----------------------------------------------------------------------------
(* on_user_arrival, called for a USER_ARRIVAL event: no limit but the      *)
(* user's own preferences.                                                 *)
Welcome(liked) ==
  /\ visits > 0 /\ visitor = "none" /\ visits' = visits - 1
  /\ visitor' = IF Heard /\ liked THEN "generating" ELSE "none"
  /\ UNCHANGED <<clients, limits, credited, time, bucket, age, count, last, loop, sent,
                 loopAge>>

Welcomed(text) ==
  /\ visitor = "generating" /\ visitor' = "none"
  /\ IF text THEN Broadcast ELSE UNCHANGED <<sent, last>>
  /\ IF text /\ Heard
       THEN age' = [age EXCEPT !.sent = 0] /\ count' = count + 1
       ELSE UNCHANGED <<age, count>>
  /\ UNCHANGED <<clients, user, time, bucket, loop, loopAge>>

-----------------------------------------------------------------------------
(* The main loop.                                                          *)

Generate(topic) ==
  loop' = [phase |-> "generating", topic |-> topic, age |-> 0, cooldown |-> limits.cooldown]

(* _handle_boot: silent when the user was faster, or a task is active.     *)
Boot(activeTasks) ==
  /\ loop.phase = "booting"
  /\ loop' = IF age.active # Never \/ activeTasks
               THEN Asleep ELSE [Asleep EXCEPT !.phase = "announcing"]
  /\ UNCHANGED <<clients, user, time, bucket, age, count, last, visitor, sent, loopAge>>

(* The announcement is stamped and counted by _handle_boot once more, also *)
(* when no page was there.                                                 *)
Booted(text) ==
  /\ loop.phase = "announcing" /\ loop' = Asleep
  /\ IF text
       THEN /\ Broadcast /\ age' = [age EXCEPT !.sent = 0]
            /\ count' = count + (IF Heard THEN 2 ELSE 1)
            /\ loopAge' = IF Heard THEN 0 ELSE loopAge
       ELSE UNCHANGED <<sent, last, age, count, loopAge>>
  /\ UNCHANGED <<clients, user, time, bucket, visitor>>

(* Mutant of CanSendRoutine: only the hour and the user are looked at.     *)
CanSendRoutine_Warm(inHour) ==
  /\ inHour < limits.perHour
  /\ age.active # Never => age.active >= Recent

(* _can_send_routine, after the count has been brought up to the hour.     *)
CanSendRoutine(inHour) ==
  /\ inHour < limits.perHour
  /\ age.sent # Never => age.sent >= limits.cooldown
  /\ age.active # Never => age.active >= Recent

Topic(intent) ==
  IF age.active # Never /\ age.active > limits.idle THEN "idle" ELSE intent

Awake == loop.phase = "asleep" /\ Heard

(* _evaluate_and_act under a system overload.                              *)
EvaluateOverload ==
  /\ Awake /\ (age.alert # Never => age.alert >= AlertCooldown)
  /\ Generate("alert")
  /\ UNCHANGED <<clients, user, time, bucket, age, count, last, visitor, sent, loopAge>>

(* The routine decision: the gate, then the preferences and the dice.      *)
EvaluateRoutine(intent) ==
  /\ Awake
  /\ LET inHour == IF hour # bucket THEN 0 ELSE count
     IN  /\ bucket' = hour /\ count' = inHour
         /\ \/ UNCHANGED loop
            \/ CanSendRoutine(inHour) /\ Generate(Topic(intent))
  /\ UNCHANGED <<clients, user, time, age, last, visitor, sent, loopAge>>

(* The answer of the model; an alert starts its cooldown at the time of    *)
(* the decision, also when the last page left meanwhile.                   *)
Generated(text) ==
  /\ loop.phase = "generating" /\ loop' = Asleep
  /\ IF text
       THEN /\ Broadcast
            /\ age' = [age EXCEPT !.sent = IF Heard THEN 0 ELSE @,
                                  !.alert = IF loop.topic = "alert" THEN loop.age ELSE @]
            /\ count' = IF Heard THEN count + 1 ELSE count
            /\ loopAge' = IF Heard THEN 0 ELSE loopAge
       ELSE UNCHANGED <<sent, last, age, count, loopAge>>
  /\ UNCHANGED <<clients, user, time, bucket, visitor>>

Tick ==
  /\ ticks < MaxTicks /\ ticks' = ticks + 1 /\ hour' \in {0, 1}
  /\ age' = [e \in DOMAIN age |-> Older(age[e])]
  /\ loopAge' = Older(loopAge)
  /\ loop' = IF loop.phase = "generating" THEN [loop EXCEPT !.age = @ + 1] ELSE loop
  /\ UNCHANGED <<clients, user, bucket, count, last, visitor, sent>>

Next ==
  \/ \E p \in Pages : Register(p) \/ Unregister(p)
  \/ NotifyUserActive
  \/ UpdateSettings
  \/ \E liked \in BOOLEAN : Welcome(liked)
  \/ \E text \in BOOLEAN : Welcomed(text) \/ Booted(text) \/ Generated(text)
  \/ \E active \in BOOLEAN : Boot(active)
  \/ EvaluateOverload
  \/ \E intent \in {"coding", "time"} : EvaluateRoutine(intent)
  \/ Tick

Spec == Init /\ [][Next]_vars

-----------------------------------------------------------------------------
(* A routine message reaches a page no sooner than the cooldown that held  *)
(* when it was decided after the loop's own latest message, an alert or    *)
(* the announcement of the boot included: the wait for the model between   *)
(* the decision and the message does not shorten it, nor do the settings.  *)
RoutineSpaced ==
  [][(loop.phase = "generating" /\ loop'.phase = "asleep" /\ sent' > sent
        /\ loop.topic # "alert" /\ loopAge # Never) => loopAge >= loop.cooldown]_vars

(* A reaction of the user is credited to the latest message, whoever sent  *)
(* it, and no message is credited twice (notify_user_active).              *)
CreditedOnce == [][credited' # credited => credited'.id = sent /\ credited.id < sent]_vars
=============================================================================
