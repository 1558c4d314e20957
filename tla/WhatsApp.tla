------------------------------ MODULE WhatsApp ------------------------------
(* The WhatsApp bridge (deploy/docker/whatsapp-bridge.js) and the webhooks *)
(* it calls (api/v1/whatsapp.py).  The bridge keeps one connection, which  *)
(* it opens again after a delay when it is closed, and posts each message  *)
(* to the gateway; the gateway accepts it, answers in the background and   *)
(* sends the answer through the bridge.  WhatsApp delivers a message again *)
(* that was not acknowledged when a connection or the bridge ended, and    *)
(* neither side looks at its id.                                           *)
EXTENDS Naturals, SequencesExt, FiniteSets

CONSTANTS
  Texts, Voices,          \* messages of a contact
  Mentions, GroupVoices,  \* messages of a group
  MaxAttempts,            \* maxRetries of postWithRetry
  MaxBuffer,              \* GROUP_BUFFER_SIZE
  MaxSockets,             \* bound on sockets, connects and timers
  MaxDeliveries           \* bound on the deliveries of a message

VARIABLES
  bridge,     \* "off", "waiting" for the API, "on"
  api,        \* the gateway accepts connections
  timers, connecting, sockets,   \* pending timers, connects under way, open sockets
  loggedOut,  \* ghost: the user disconnected the phone at some time
  delivered,  \* ghost: per message how often WhatsApp delivered it
  handlers,   \* per message the handlers at work: where each is, and its attempts
  buffer,     \* the latest messages of the group
  job,        \* per message how many background tasks that answer it are where
  gpuVoice,   \* the message for which gpu_voice_lock is held
  posted,     \* per message how often the gateway accepted it
  replies     \* per message the answers that reached WhatsApp

whatsapp == <<bridge, api, timers, connecting, sockets, loggedOut, delivered, handlers, buffer,
              job, gpuVoice, posted, replies>>

Msgs == Texts \cup Voices \cup Mentions \cup GroupVoices

Spoken == Voices \cup GroupVoices

Idle == [queued |-> 0, running |-> 0, reply |-> 0]

Init ==
  /\ bridge = "off" /\ api = FALSE
  /\ timers = 0 /\ connecting = 0 /\ sockets = 0
  /\ loggedOut = FALSE
  /\ delivered = [m \in Msgs |-> 0]
  /\ handlers = [m \in Msgs |-> << >>]
  /\ buffer = << >>
  /\ job = [m \in Msgs |-> Idle]
  /\ gpuVoice = {}
  /\ posted = [m \in Msgs |-> 0]
  /\ replies = [m \in Msgs |-> 0]

inbox == <<delivered, handlers, buffer>>
gateway == <<job, gpuVoice, posted, replies>>
network == <<timers, connecting, sockets>>

-----------------------------------------------------------------------------
(* The bridge listens, waits for the gateway, then connects; without a     *)
(* gateway in time its start is rejected.                                  *)
StartBridge ==
  /\ bridge = "off" /\ bridge' = "waiting"
  /\ UNCHANGED <<api, network, loggedOut, inbox, gateway>>

ApiReady ==
  /\ bridge = "waiting" /\ api
  /\ bridge' = "on" /\ connecting' = 1
  /\ UNCHANGED <<api, timers, sockets, loggedOut, inbox, gateway>>

(* Also the end of a wait for the gateway or of a connect that is rejected, *)
(* which nothing catches.                                                  *)
BridgeEnds ==
  /\ bridge # "off" /\ bridge' = "off"
  /\ timers' = 0 /\ connecting' = 0 /\ sockets' = 0
  /\ handlers' = [m \in Msgs |-> << >>]
  /\ buffer' = << >>
  /\ UNCHANGED <<api, loggedOut, delivered, gateway>>

(* connectToWhatsApp: a socket after two awaits.                           *)
Connected ==
  /\ connecting > 0
  /\ connecting' = connecting - 1 /\ sockets' = sockets + 1
  /\ UNCHANGED <<bridge, api, timers, loggedOut, inbox, gateway>>

(* connection.update: a connection that closes is opened again later, but  *)
(* not if WhatsApp says that the phone has logged the bridge out.          *)
Closed ==
  /\ sockets > 0
  /\ sockets' = sockets - 1 /\ timers' \in {timers, timers + 1}
  /\ UNCHANGED <<bridge, api, connecting, loggedOut, inbox, gateway>>

TimerFires ==
  /\ timers > 0
  /\ timers' = timers - 1 /\ connecting' = connecting + 1
  /\ UNCHANGED <<bridge, api, sockets, loggedOut, inbox, gateway>>

(* /logout ends the connection, if it can, and starts a timer of its own:  *)
(* the timer of a reconnect that is pending is not stopped.                *)
Logout ==
  /\ bridge = "on" /\ timers + connecting + sockets < MaxSockets
  /\ sockets' \in {sockets, IF sockets > 0 THEN sockets - 1 ELSE 0}
  /\ timers' = timers + 1
  /\ loggedOut' = TRUE
  /\ UNCHANGED <<bridge, api, connecting, inbox, gateway>>

-----------------------------------------------------------------------------
At(step, n) == [step |-> step, attempt |-> n]

Done(m, i) == handlers' = [handlers EXCEPT ![m] = RemoveAt(@, i)]

(* messages.upsert on an open socket, whatever was delivered before.  Of   *)
(* the messages of one event the first is handled, the others are not.     *)
Upsert(m) ==
  /\ sockets > 0 /\ delivered[m] < MaxDeliveries
  /\ delivered' = [delivered EXCEPT ![m] = @ + 1]
  /\ handlers' = [handlers EXCEPT ![m] = Append(@, At("read", 1))]
  /\ UNCHANGED <<bridge, api, network, loggedOut, buffer, gateway>>

(* After the read receipt a message of the group goes into its buffer.     *)
Receipt(m, i) ==
  /\ handlers[m][i].step = "read"
  /\ handlers' = [handlers EXCEPT ![m][i] = At("post", 1)]
  /\ buffer' = IF m \in Mentions \cup GroupVoices
               THEN IF Len(buffer) < MaxBuffer THEN Append(buffer, m)
                    ELSE Append(Tail(buffer), m)
               ELSE buffer
  /\ UNCHANGED <<bridge, api, network, loggedOut, delivered, gateway>>

(* postWithRetry: a refused connection is tried again after a pause, any   *)
(* other error ends it.                                                    *)
Refused(m, i) ==
  /\ handlers[m][i].step = "post" /\ ~api
  /\ IF handlers[m][i].attempt < MaxAttempts
     THEN handlers' = [handlers EXCEPT ![m][i] = At("post", @.attempt + 1)]
     ELSE Done(m, i)
  /\ UNCHANGED <<bridge, api, network, loggedOut, delivered, buffer, gateway>>

Accepted(m) ==
  /\ posted' = [posted EXCEPT ![m] = @ + 1]
  /\ job' = [job EXCEPT ![m].queued = @ + 1]

Post_Again(m, i) ==    \* mutant: any error is tried again
  /\ handlers[m][i].step = "post" /\ api
  /\ Accepted(m)
  /\ \/ Done(m, i)
     \/ /\ handlers[m][i].attempt < MaxAttempts
        /\ handlers' = [handlers EXCEPT ![m][i] = At("post", @.attempt + 1)]
  /\ UNCHANGED <<bridge, api, network, loggedOut, delivered, buffer, gpuVoice, replies>>

(* The gateway takes the message.  If the connection breaks before the     *)
(* bridge is told, the handler gives up all the same.                      *)
Post(m, i) ==
  /\ handlers[m][i].step = "post" /\ api
  /\ Accepted(m)
  /\ Done(m, i)
  /\ UNCHANGED <<bridge, api, network, loggedOut, delivered, buffer, gpuVoice, replies>>

(* The download of a voice note, or the post, fails; or the text is empty  *)
(* or, in a group, does not name the assistant.                            *)
PostFails(m, i) ==
  /\ handlers[m][i].step = "post"
  /\ Done(m, i)
  /\ UNCHANGED <<bridge, api, network, loggedOut, delivered, buffer, gateway>>

-----------------------------------------------------------------------------
(* process_and_reply and its three siblings.  Voice waits for its lock and *)
(* keeps it until the answer is spoken.                                    *)
Begin(m) ==
  /\ job[m].queued > 0
  /\ m \in Spoken => gpuVoice = {}
  /\ job' = [job EXCEPT ![m].queued = @ - 1, ![m].running = @ + 1]
  /\ gpuVoice' = IF m \in Spoken THEN {m} ELSE gpuVoice
  /\ UNCHANGED <<bridge, api, network, loggedOut, inbox, posted, replies>>

(* The model answers, or there is nothing to say: an error, an empty text, *)
(* a voice note of the group without a mention.                            *)
Answered(m) ==
  /\ job[m].running > 0
  /\ job' \in {[job EXCEPT ![m].running = @ - 1, ![m].reply = @ + 1],
               [job EXCEPT ![m].running = @ - 1]}
  /\ gpuVoice' = gpuVoice \ {m}
  /\ UNCHANGED <<bridge, api, network, loggedOut, inbox, posted, replies>>

(* The answer is sent once, and lost when the bridge has no connection.    *)
Reply(m) ==
  /\ job[m].reply > 0
  /\ job' = [job EXCEPT ![m].reply = @ - 1]
  /\ replies' = IF sockets > 0 THEN [replies EXCEPT ![m] = @ + 1] ELSE replies
  /\ UNCHANGED <<bridge, api, network, loggedOut, inbox, gpuVoice, posted>>

GatewayStarts ==
  /\ ~api /\ api' = TRUE
  /\ UNCHANGED <<bridge, network, loggedOut, inbox, gateway>>

GatewayEnds ==
  /\ api /\ api' = FALSE
  /\ job' = [m \in Msgs |-> Idle]
  /\ gpuVoice' = {}
  /\ UNCHANGED <<bridge, network, loggedOut, inbox, posted, replies>>

Next ==
  \/ StartBridge \/ ApiReady \/ BridgeEnds \/ Connected \/ Closed \/ TimerFires \/ Logout
  \/ \E m \in Msgs : \/ Upsert(m)
                     \/ \E i \in DOMAIN handlers[m] :
                          Receipt(m, i) \/ Refused(m, i) \/ Post(m, i) \/ PostFails(m, i)
                     \/ Begin(m) \/ Answered(m) \/ Reply(m)
  \/ GatewayStarts \/ GatewayEnds

Spec == Init /\ [][Next]_whatsapp

-----------------------------------------------------------------------------
(* Unless the phone was disconnected by /logout at some time, the bridge   *)
(* never has two connections, now or to come.  Over refusals, connections  *)
(* that break before the bridge is told, restarts of either side and       *)
(* messages that are delivered again, each delivery is processed at most   *)
(* once, and what is processed is answered at most once.                   *)
OncePerDelivery ==
  /\ loggedOut \/ timers + connecting + sockets <= 1
  /\ \A m \in Msgs : replies[m] <= posted[m] /\ posted[m] <= delivered[m]
=============================================================================
