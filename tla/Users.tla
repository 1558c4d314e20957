------------------------------- MODULE Users -------------------------------
(* Users and their tiers (user_registry.py, api/v1/admin.py, security.py): *)
(* users.yaml, the copy that the gateway keeps for RELOAD_INTERVAL, the    *)
(* admin's endpoints, edits of the file by hand, and the directory of each *)
(* tier in which the conversations of a user are kept.  The endpoints do   *)
(* not wait, a request of a user does: its tier is chosen when it starts,  *)
(* its question is written some awaits later and its answer at the end.    *)
(* WhatsApp names a sender by its number or by a hidden id (a LID), which  *)
(* the gateway looks up in a copy of the bridge's map.                     *)
EXTENDS Naturals

CONSTANTS
  Users, Devices,
  Tiers,    \* the tiers below admin: admins are served in a workspace of their own
  Reload    \* RELOAD_INTERVAL in ticks of the clock

Fallback == "strangers"

VARIABLES
  registry,   \* users.yaml: the tier of a user or device, Fallback if it is not listed
  readable,   \* users.yaml can be parsed
  cache,      \* _data and _browser_ids
  uptime,     \* ticks since the host started, Reload for any more
  sinceLoad,  \* ticks since _loaded_at, in the same way
  sinceEdit,  \* ticks since the file was last changed by hand
  lidMap,     \* _lid_map: the users whose hidden id the gateway can look up
  syncing,    \* _sync_with_bridge is under way
  turn,       \* the tier under which a request runs, "none" without one
  hidden,     \* the users whose request came by a hidden id
  asked,      \* the requests whose question has been written
  dirs,       \* per user the tiers that have a directory for its number
  history,    \* per user the tiers whose directory holds messages
  left        \* ghost: per user the tiers in which messages were left behind

register == <<registry, readable, sinceEdit, uptime>>
copies == <<cache, sinceLoad, lidMap, syncing>>
requests == <<turn, hidden, asked>>
folders == <<dirs, history, left>>
users == <<register, copies, requests, folders>>

Everyone == Users \cup Devices

Strangers == [u \in Everyone |-> Fallback]

Lowest(n) == IF n < Reload THEN n ELSE Reload

Init ==
  /\ registry \in [Everyone -> Tiers \cup {Fallback}]
  /\ readable = TRUE
  /\ cache = Strangers
  /\ uptime \in {0, Reload}
  /\ sinceLoad = uptime           \* _loaded_at is 0, when the host started
  /\ sinceEdit = Reload
  /\ lidMap = {} /\ syncing = FALSE
  /\ turn = [u \in Users |-> "none"] /\ hidden = {} /\ asked = {}
  /\ dirs = [u \in Users |-> {}]
  /\ history = [u \in Users |-> {}]
  /\ left = [u \in Users |-> {}]

(* What _load and _read_registry find: nothing in a file that cannot be    *)
(* parsed.                                                                 *)
Read == IF readable THEN registry ELSE Strangers

(* _ensure_loaded, with which every look into the register begins.         *)
Loaded == IF sinceLoad < Reload THEN cache ELSE Read

EnsureLoaded ==
  /\ cache' = Loaded
  /\ sinceLoad' = IF sinceLoad < Reload THEN sinceLoad ELSE 0

(* resolve_device, at each request of a device, for which it is Loaded[d]. *)
ResolveDevice ==
  /\ EnsureLoaded
  /\ UNCHANGED <<register, lidMap, syncing, requests, folders>>

(* A request starts with resolve, which falls back to strangers: for a     *)
(* number that is not listed, and for a hidden id that is not in the copy  *)
(* of the bridge's map.  It has the copy renewed when that is 300 seconds  *)
(* old, which this request does not wait for.                              *)
Resolve(u, byLid) ==
  LET t == IF byLid /\ u \notin lidMap THEN Fallback ELSE Loaded[u]
  IN /\ turn[u] = "none"
     /\ EnsureLoaded
     /\ syncing' \in {syncing, TRUE}
     /\ turn' = [turn EXCEPT ![u] = t]
     /\ hidden' = IF byLid THEN hidden \cup {u} ELSE hidden
     /\ UNCHANGED <<register, lidMap, asked, folders>>

(* _sync_with_bridge: the map that the bridge has by now, or a failure.    *)
SyncEnds ==
  /\ syncing
  /\ syncing' = FALSE
  /\ lidMap' \in SUBSET Users
  /\ UNCHANGED <<register, cache, sinceLoad, requests, folders>>

(* append_to_memory in the directory of the request's tier, which it makes *)
(* if it is not there (any more).                                          *)
Append(u) ==
  /\ dirs' = [dirs EXCEPT ![u] = @ \cup {turn[u]}]
  /\ history' = [history EXCEPT ![u] = @ \cup {turn[u]}]
  /\ left' = [left EXCEPT ![u] = @ \cup ({turn[u]} \ {registry[u]})]

Question(u) ==
  /\ turn[u] # "none" /\ u \notin asked \cup hidden
  /\ asked' = asked \cup {u}
  /\ Append(u)
  /\ UNCHANGED <<register, copies, turn, hidden>>

Over(u) ==
  /\ turn' = [turn EXCEPT ![u] = "none"]
  /\ hidden' = hidden \ {u}
  /\ asked' = asked \ {u}
  /\ UNCHANGED <<register, copies>>

Answer(u) ==
  /\ turn[u] # "none" /\ u \in asked
  /\ Append(u)
  /\ Over(u)

(* The end of a request without an answer to write: a voice note that      *)
(* cannot be transcribed, a request that is stopped; and that of any with  *)
(* a hidden id, whose directory is another one, not followed here.         *)
Ends(u) ==
  /\ turn[u] # "none"
  /\ Over(u)
  /\ UNCHANGED folders

(* _write_registry and _loaded_at = 0: the next resolve reads the file, if *)
(* the host has been up for RELOAD_INTERVAL.                               *)
Write_KeepCache(u, t) ==    \* mutant: the copy is not dropped
  /\ registry' = [Read EXCEPT ![u] = t]
  /\ readable' = TRUE
  /\ UNCHANGED <<sinceLoad, cache, lidMap, syncing, uptime, sinceEdit, requests>>

Write(u, t) ==
  /\ registry' = [Read EXCEPT ![u] = t]
  /\ readable' = TRUE
  /\ sinceLoad' = uptime
  /\ UNCHANGED <<cache, lidMap, syncing, uptime, sinceEdit, requests>>

(* Others that an unreadable register makes a write forget.                *)
Lost(u) == {v \in Users \ {u} : Read[v] # registry[v]}

(* Of the users in S, messages stay where the new register does not have   *)
(* them; of the others, those that were left behind before.                *)
LeavesBehind(S) ==
  left' = [v \in Users |->
             history'[v] \cap (left[v] \cup IF v \in S THEN history[v] \ {registry'[v]} ELSE {})]

(* Nothing is moved for a stranger that is registered, ...                 *)
RegisterUser(u) ==
  \E t \in Tiers :
    /\ Read[u] = Fallback
    /\ Write(u, t)
    /\ UNCHANGED <<dirs, history>>
    /\ LeavesBehind({u} \cup Lost(u))

(* ... nor for a user that becomes a stranger.                             *)
UnregisterUser(u) ==
  /\ Read[u] # Fallback
  /\ Write(u, Fallback)
  /\ UNCHANGED <<dirs, history>>
  /\ LeavesBehind({u})

Moved_Onto(u, old, t) ==    \* mutant: the test of the new directory is turned round
  old \notin {t, Fallback} /\ old \in dirs[u] /\ t \in dirs[u]

Moved(u, old, t) ==
  old \notin {t, Fallback} /\ old \in dirs[u] /\ t \notin dirs[u]

(* The directory moves with a user that was listed, unless it has one in   *)
(* the new tier.  The directory of the admin tier is not the workspace in  *)
(* which admins are served.                                                *)
ChangeUserTier(u) ==
  \E t \in Tiers :
    LET old == Read[u]
        keeps == old = Fallback \/ t \in dirs[u]    \* nothing to move, or nowhere to
        relocated(S) == IF old \in S THEN (S \ {old}) \cup {t} ELSE S
    IN /\ Write(u, t)
       /\ IF Moved(u, old, t)
          THEN /\ dirs' = [dirs EXCEPT ![u] = relocated(@)]
               /\ history' = [history EXCEPT ![u] = relocated(@)]
          ELSE UNCHANGED <<dirs, history>>
       /\ LeavesBehind(Lost(u) \cup {v \in {u} : keeps})

RegisterDevice(d) ==
  \E t \in Tiers :
    /\ Write(d, t)
    /\ UNCHANGED <<dirs, history>>
    /\ LeavesBehind(Lost(d))

RemoveDevice(d) ==
  /\ Read[d] # Fallback
  /\ Write(d, Fallback)
  /\ UNCHANGED folders

ClearUserHistory(u) ==
  \E t \in dirs[u] :
    /\ history' = [history EXCEPT ![u] = @ \ {t}]
    /\ left' = [left EXCEPT ![u] = @ \ {t}]
    /\ UNCHANGED <<register, copies, requests, dirs>>

(* The admin edits users.yaml, perhaps with a mistake in it.               *)
EditByHand ==
  \E u \in Everyone, t \in Tiers \cup {Fallback}, ok \in BOOLEAN :
    /\ registry' = [registry EXCEPT ![u] = t]
    /\ readable' = ok
    /\ sinceEdit' = 0
    /\ UNCHANGED <<uptime, copies, requests, dirs, history>>
    /\ LeavesBehind(Users \cap {u})

Tick ==
  /\ uptime' = Lowest(uptime + 1)
  /\ sinceLoad' = Lowest(sinceLoad + 1)
  /\ sinceEdit' = Lowest(sinceEdit + 1)
  /\ UNCHANGED <<registry, readable, cache, lidMap, syncing, requests, folders>>

Restart ==
  /\ cache' = Strangers /\ sinceLoad' = uptime
  /\ lidMap' = {} /\ syncing' = FALSE
  /\ turn' = [u \in Users |-> "none"] /\ hidden' = {} /\ asked' = {}
  /\ UNCHANGED <<register, folders>>

Next ==
  \/ \E u \in Users, byLid \in BOOLEAN : Resolve(u, byLid)
  \/ \E u \in Users : Question(u) \/ Answer(u) \/ Ends(u)
  \/ ResolveDevice
  \/ \E u \in Users : RegisterUser(u) \/ UnregisterUser(u) \/ ChangeUserTier(u)
                      \/ ClearUserHistory(u)
  \/ \E d \in Devices : RegisterDevice(d) \/ RemoveDevice(d)
  \/ SyncEnds \/ EditByHand \/ Tick \/ Restart

Spec == Init /\ [][Next]_users

-----------------------------------------------------------------------------
(* A request is served in the tier that the admin gave last, whatever the  *)
(* gateway has cached, unless the file was edited by hand within           *)
(* RELOAD_INTERVAL or cannot be read, or the host has just started.  A     *)
(* sender with a hidden id that the gateway has not fetched is a stranger: *)
(* it gets less than its due, never the tier of another.                   *)
TierIsCurrent ==
  [][readable /\ sinceEdit = Reload /\ uptime = Reload =>
       /\ \A d \in Devices : Loaded[d] = registry[d]
       /\ \A u \in Users :
            turn[u] = "none" /\ turn'[u] # "none" =>
              \/ turn'[u] = registry[u]
              \/ turn'[u] = Fallback /\ u \in hidden' \ lidMap]_users

(* The history of a user is in its tier, over any number of moves by the   *)
(* admin, but for what was left behind: by a registration, the end of one  *)
(* or an edit by hand, which move nothing; by a move of a stranger or onto *)
(* a directory that is there; by a write over a register that could not be *)
(* read; and by a request that ran under another tier than the user's.     *)
HistoryTogether ==
  \A u \in Users : history[u] \subseteq {registry[u]} \cup left[u]
=============================================================================
