----------------------------- MODULE Household ------------------------------
(* What the assistant keeps for its users, for model checking: messages,   *)
(* facts, episodes, the register of users, the index of files, the tokens  *)
(* of Spotify, and the WhatsApp bridge.  The parts share no variable: each *)
(* is explored on its own, while the others rest.                          *)
EXTENDS Naturals

CONSTANTS
  Sizes, MaxChars, Keep, MaxContext, MaxFiles,            \* of Conversation
  Users, Devices, Tiers, Reload,                          \* of Users
  Topics, FactValues, ListTopics, GatewayThreads, ToolProcesses,    \* of Facts
  Texts, Voices, Mentions, GroupVoices, MaxAttempts, MaxBuffer,               \* of WhatsApp
  Chunks, Outer, Workers, Boot, MaxQueue, MaxBatch,              \* of Indexer
  MaxAge, MonitorAge,                                     \* of Episodes
  Flows, PoolWorkers, Containers,                         \* of Spotify
  MaxDays, MaxSaid, MaxFacts, MaxRewrites, MaxStarts, MaxRows, MaxNights,
  MaxTokens, MaxSockets, MaxDeliveries                    \* bounds of the exploration

ASSUME HouseholdAssumption ==
  /\ Sizes \subseteq Nat /\ MaxDays \in Nat \ {0} /\ MaxFiles \in Nat \ {0}
  /\ Users \cap Devices = {} /\ Reload \in Nat
  /\ GatewayThreads \cap ToolProcesses = {}
  /\ {"gateway", "free"} \cap (GatewayThreads \cup ToolProcesses) = {}
  /\ "torn" \notin FactValues
  /\ Boot \notin Workers /\ Workers # {} /\ MaxQueue \in Nat \ {0}
  /\ MaxAge \in Nat /\ MonitorAge \in Nat
  /\ Flows \cap (PoolWorkers \cup Containers) = {} /\ "gateway" \notin PoolWorkers \cup Containers
  /\ MaxTokens \in Nat

VARIABLES
  room,
  sessionFile, today, pruned, said, gaps,
  registry, readable, cache, uptime, sinceLoad, sinceEdit, lidMap, syncing, turn, hidden, asked,
  dirs, history, left,
  json, md, edit, editAt, lock, truth, mixed, factEdits,
  bridgeAt, api, timers, connecting, sockets, loggedOut, delivered, handlers, groupBuffer, job,
  gpuVoice, posted, replies,
  source, row, chunks, vector, eventQueue, debounced, booting, phase, stat, seenChunks, batch,
  purge, erase, starts, calm, torn, recreated,
  rows, ever, erased, daytime, night, digest, digested, nights,
  saved, copy, accepted, fresh, issued, pkce, spotifyAt, held, connected, tokensMuddled

conversation == <<sessionFile, today, pruned, said, gaps>>
users == <<registry, readable, cache, uptime, sinceLoad, sinceEdit, lidMap, syncing, turn, hidden,
           asked, dirs, history, left>>
facts == <<json, md, edit, editAt, lock, truth, mixed, factEdits>>
whatsapp == <<bridgeAt, api, timers, connecting, sockets, loggedOut, delivered, handlers,
              groupBuffer, job, gpuVoice, posted, replies>>
indexer == <<source, row, chunks, vector, eventQueue, debounced, booting, phase, stat, seenChunks,
             batch, purge, erase, starts, calm, torn, recreated>>
episodes == <<rows, ever, erased, daytime, night, digest, digested, nights>>
spotify == <<saved, copy, accepted, fresh, issued, pkce, spotifyAt, held, connected,
             tokensMuddled>>
household == <<room, conversation, users, facts, whatsapp, indexer, episodes, spotify>>

Talk == INSTANCE Conversation
  WITH file <- sessionFile, sent <- said, MaxMessages <- MaxSaid

People == INSTANCE Users

Facts == INSTANCE Facts
  WITH Values <- FactValues, Lists <- ListTopics, Gateway <- GatewayThreads, Tools <- ToolProcesses,
       MaxEdits <- MaxFacts, at <- editAt, edits <- factEdits

Bridge == INSTANCE WhatsApp
  WITH bridge <- bridgeAt, buffer <- groupBuffer

Index == INSTANCE Indexer
  WITH MaxEdits <- MaxRewrites, disk <- source, queue <- eventQueue, pc <- phase, seen <- seenChunks

Memory == INSTANCE Episodes
  WITH job <- night, now <- daytime, MaxDays <- MaxNights

Music == INSTANCE Spotify
  WITH at <- spotifyAt, muddled <- tokensMuddled, Workers <- PoolWorkers

HouseholdInit ==
  /\ room \in {"conversation", "users", "facts", "whatsapp", "indexer", "episodes", "spotify"}
  /\ Talk!Init /\ People!Init /\ Facts!Init /\ Bridge!Init /\ Index!Init /\ Memory!Init
  /\ Music!Init
  /\ room # "users" => uptime = 0 /\ registry = People!Strangers
  /\ room # "indexer" => source.there = FALSE

HouseholdNext ==
  \/ /\ room = "conversation" /\ Talk!Next
     /\ UNCHANGED <<room, users, facts, whatsapp, indexer, episodes, spotify>>
  \/ /\ room = "users" /\ People!Next
     /\ UNCHANGED <<room, conversation, facts, whatsapp, indexer, episodes, spotify>>
  \/ /\ room = "facts" /\ Facts!Next
     /\ UNCHANGED <<room, conversation, users, whatsapp, indexer, episodes, spotify>>
  \/ /\ room = "whatsapp" /\ Bridge!Next
     /\ UNCHANGED <<room, conversation, users, facts, indexer, episodes, spotify>>
  \/ /\ room = "indexer" /\ Index!Next
     /\ UNCHANGED <<room, conversation, users, facts, whatsapp, episodes, spotify>>
  \/ /\ room = "episodes" /\ Memory!Next
     /\ UNCHANGED <<room, conversation, users, facts, whatsapp, indexer, spotify>>
  \/ /\ room = "spotify" /\ Music!Next
     /\ UNCHANGED <<room, conversation, users, facts, whatsapp, indexer, episodes>>

HouseholdSpec == HouseholdInit /\ [][HouseholdNext]_household

-----------------------------------------------------------------------------
(* A session's file holds its latest messages, without a hole but for what *)
(* a failed write lost (compactor.py and manager.py).                      *)
HistoryHasNoHole == Talk!HistoryHasNoHole

(* A request is served in the tier that the register gives its user        *)
(* (user_registry.py, security.py).                                        *)
TierIsCurrent == People!TierIsCurrent

(* The history of a user is in one place (api/v1/admin.py).                *)
HistoryTogether == People!HistoryTogether

(* memory.json and MEMORY.md agree with what was acknowledged (updater.py, *)
(* api/v1/memory.py).                                                      *)
FactsAgree == Facts!FactsAgree

(* A WhatsApp message is answered once for each delivery                   *)
(* (whatsapp-bridge.js).                                                   *)
OncePerDelivery == Bridge!OncePerDelivery

(* Of the index of files: every entry is known to the state database, and  *)
(* once settled they are of a text with the file's raw hash (indexer.py).  *)
IndexIsTrue == Index!EntriesTracked /\ Index!IndexIsTrue

(* Only age and the user make the store of episodes forget (episodes.py).  *)
Remembered == Memory!Remembered

(* The tokens that are stored are the ones that Spotify accepts            *)
(* (spotify_auth.py, spotify.py, credentials.py).                          *)
TokensKept == Music!TokensKept
=============================================================================
