------------------------------ MODULE Spotify -------------------------------
(* The tokens of Spotify (api/v1/spotify_auth.py, skills/music/spotify.py, *)
(* core/credentials.py): the gateway obtains them by a PKCE flow and       *)
(* forgets them, the tool uses and refreshes them.  A tool runs in a       *)
(* worker of the pool, which keeps its copy of credentials.json for life,  *)
(* or in a container, which reads it anew and cannot write it.             *)
EXTENDS Naturals

CONSTANTS
  Flows,                 \* states of PKCE flows
  Workers, Containers,   \* processes that run the tool
  MaxTokens              \* bound: tokens that Spotify issues

VARIABLES
  saved,      \* the tokens in credentials.json
  copy,       \* per process its copy of them, or Unread
  accepted,   \* external: the refresh token that Spotify accepts
  fresh,      \* access tokens that have not expired
  issued,     \* tokens so far
  pkce,       \* _pkce_store: "none", "pending" or "expired"
  at,         \* what each flow and tool awaits
  held,       \* the credentials that it read before
  connected,  \* ghost: the user was told that Spotify is connected
  muddled     \* ghost: see TokensKept

spotify == <<saved, copy, accepted, fresh, issued, pkce, at, held, connected, muddled>>

Tools == Workers \cup Containers

Processes == {"gateway"} \cup Tools

NoTokens == [access |-> 0, refresh |-> 0]

Unread == [access |-> 0, refresh |-> MaxTokens + 1]

Init ==
  /\ saved = NoTokens
  /\ copy = [p \in Processes |-> Unread]
  /\ accepted = 0 /\ fresh = {} /\ issued = 0
  /\ pkce = [f \in Flows |-> "none"]
  /\ at = [a \in Flows \cup Tools |-> "idle"]
  /\ held = [a \in Flows \cup Tools |-> NoTokens]
  /\ connected = FALSE /\ muddled = FALSE

(* CredentialsManager: a process reads the file once.                      *)
Cached(p) == IF p \in Containers \/ copy[p] = Unread THEN saved ELSE copy[p]

Reads(p) == copy' = [copy EXCEPT ![p] = Cached(p)]

(* Its copy goes to the file with what it changed.                         *)
Saves(p, tokens) ==
  /\ saved' = tokens
  /\ copy' = [copy EXCEPT ![p] = tokens]

Others(a) == \E b \in Flows \cup Tools : b # a /\ at[b] # "idle"

Moves(a, to) == at' = [at EXCEPT ![a] = to]

Holds(a, tokens) == held' = [held EXCEPT ![a] = tokens]

Ends(a) == Moves(a, "idle") /\ Holds(a, NoTokens)

-----------------------------------------------------------------------------
(* /auth: a new flow; the expired ones are purged.                         *)
Auth(f) ==
  /\ pkce[f] = "none" /\ at[f] = "idle"
  /\ pkce' = [g \in Flows |-> IF g = f THEN "pending"
                              ELSE IF pkce[g] = "expired" THEN "none" ELSE pkce[g]]
  /\ UNCHANGED <<saved, copy, accepted, fresh, issued, at, held, connected, muddled>>

(* Ten minutes pass.                                                       *)
TimeOut(f) ==
  /\ pkce[f] = "pending"
  /\ pkce' = [pkce EXCEPT ![f] = "expired"]
  /\ UNCHANGED <<saved, copy, accepted, fresh, issued, at, held, connected, muddled>>

(* /callback takes the flow out of the store, so that it is used once; the *)
(* credentials are read before the exchange and saved after it.            *)
Callback(f) ==
  /\ pkce[f] \in {"pending", "expired"}
  /\ pkce' = [pkce EXCEPT ![f] = "none"]
  /\ IF pkce[f] = "expired"
     THEN UNCHANGED <<copy, at, held, muddled>>
     ELSE /\ Reads("gateway")
          /\ Holds(f, Cached("gateway"))
          /\ Moves(f, "exchanging")
          /\ muddled' = (muddled \/ Others(f))
  /\ UNCHANGED <<saved, accepted, fresh, issued, connected>>

(* Spotify's first tokens for a grant.                                     *)
Exchanged(f) ==
  /\ at[f] = "exchanging" /\ issued < MaxTokens
  /\ issued' = issued + 1
  /\ accepted' = issued' /\ fresh' = fresh \cup {issued'}
  /\ Saves("gateway", [held[f] EXCEPT !.access = issued', !.refresh = issued'])
  /\ connected' = TRUE
  /\ Ends(f)
  /\ UNCHANGED <<pkce, muddled>>

ExchangeFails(f) ==
  /\ at[f] = "exchanging"
  /\ Ends(f)
  /\ UNCHANGED <<saved, copy, accepted, fresh, issued, pkce, connected, muddled>>

(* /disconnect keeps the client's id and secret; so does the form in which *)
(* they are entered, and the tokens go either way.                         *)
Disconnect ==
  /\ Saves("gateway", NoTokens)
  /\ connected' = FALSE
  /\ muddled' = (muddled \/ \E a \in Flows \cup Tools : at[a] # "idle")
  /\ UNCHANGED <<accepted, fresh, issued, pkce, at, held>>

(* The credentials of another service are saved, and the tokens that the   *)
(* gateway has a copy of with them.                                        *)
OtherService ==
  /\ Saves("gateway", Cached("gateway"))
  /\ muddled' = (muddled \/ Cached("gateway") # saved)
  /\ UNCHANGED <<accepted, fresh, issued, pkce, at, held, connected>>

GatewayRestarts ==
  /\ copy' = [copy EXCEPT !["gateway"] = Unread]
  /\ pkce' = [f \in Flows |-> "none"]
  /\ at' = [a \in Flows \cup Tools |-> IF a \in Flows THEN "idle" ELSE at[a]]
  /\ held' = [a \in Flows \cup Tools |-> IF a \in Flows THEN NoTokens ELSE held[a]]
  /\ UNCHANGED <<saved, accepted, fresh, issued, connected, muddled>>

-----------------------------------------------------------------------------
(* _get_valid_token: an expired token is refreshed before the request.     *)
GetValidToken(t) ==
  /\ at[t] = "idle" /\ Cached(t).refresh # 0
  /\ Reads(t)
  /\ IF Cached(t).access \in fresh
     THEN Moves(t, "asking") /\ UNCHANGED held
     ELSE Moves(t, "refreshing") /\ Holds(t, Cached(t))
  /\ muddled' = (muddled \/ Others(t) \/ Cached(t) # saved)
  /\ UNCHANGED <<saved, accepted, fresh, issued, pkce, connected>>

Refreshing == {"refreshing", "refreshing again"}

(* The tokens are saved and the request is made; a tool in a container     *)
(* cannot save, and its call ends there.                                   *)
Kept(t, tokens) ==
  IF t \in Containers
  THEN Ends(t) /\ UNCHANGED <<saved, copy>>
  ELSE /\ Saves(t, tokens)
       /\ Holds(t, NoTokens)
       /\ Moves(t, IF at[t] = "refreshing" THEN "asking" ELSE "asking later")

(* _refresh_access_token; Spotify may replace the refresh token too.       *)
Refreshed_KeepOld(t) ==    \* mutant: the new refresh token is not saved
  /\ at[t] \in Refreshing /\ held[t].refresh = accepted /\ issued < MaxTokens
  /\ issued' = issued + 1 /\ fresh' = fresh \cup {issued'}
  /\ \E rotated \in BOOLEAN :
       /\ accepted' = IF rotated THEN issued' ELSE accepted
       /\ Kept(t, [access |-> issued', refresh |-> accepted])
       /\ muddled' = (muddled \/ (rotated /\ t \in Containers))
  /\ UNCHANGED <<pkce, connected>>

Refreshed(t) ==
  /\ at[t] \in Refreshing /\ held[t].refresh = accepted /\ issued < MaxTokens
  /\ issued' = issued + 1 /\ fresh' = fresh \cup {issued'}
  /\ \E rotated \in BOOLEAN :
       /\ accepted' = IF rotated THEN issued' ELSE accepted
       /\ Kept(t, [access |-> issued', refresh |-> accepted'])
       /\ muddled' = (muddled \/ (rotated /\ t \in Containers))
  /\ UNCHANGED <<pkce, connected>>

(* The refresh fails; or Spotify did it and the answer is lost, or the     *)
(* tool's time is up before it is saved.                                   *)
RefreshFails(t) ==
  /\ at[t] \in Refreshing
  /\ Ends(t)
  /\ \/ UNCHANGED <<accepted, issued, muddled>>
     \/ /\ held[t].refresh = accepted /\ issued < MaxTokens
        /\ issued' = issued + 1 /\ accepted' = issued' /\ muddled' = TRUE
  /\ UNCHANGED <<saved, copy, fresh, pkce, connected>>

(* request: a 401 to the first attempt refreshes the token, to a later one *)
(* ends the call; a 429 makes the next attempt a later one.                *)
Unauthorized(t) ==
  /\ at[t] = "asking"
  /\ Reads(t)
  /\ Holds(t, Cached(t))
  /\ Moves(t, "refreshing again")
  /\ muddled' = (muddled \/ Cached(t) # saved)
  /\ UNCHANGED <<saved, accepted, fresh, issued, pkce, connected>>

RateLimited(t) ==
  /\ at[t] = "asking"
  /\ Moves(t, "asking later")
  /\ UNCHANGED <<saved, copy, accepted, fresh, issued, pkce, held, connected, muddled>>

Answered(t) ==
  /\ at[t] \in {"asking", "asking later"}
  /\ Ends(t)
  /\ UNCHANGED <<saved, copy, accepted, fresh, issued, pkce, connected, muddled>>

(* A worker ends with its gateway, a container with its call.              *)
WorkerEnds(t) ==
  /\ at[t] = "idle" /\ copy[t] # Unread
  /\ copy' = [copy EXCEPT ![t] = Unread]
  /\ UNCHANGED <<saved, accepted, fresh, issued, pkce, at, held, connected, muddled>>

(* An hour passes.                                                         *)
Expires ==
  /\ fresh # {} /\ fresh' = {}
  /\ UNCHANGED <<saved, copy, accepted, issued, pkce, at, held, connected, muddled>>

Next ==
  \/ \E f \in Flows : Auth(f) \/ TimeOut(f) \/ Callback(f) \/ Exchanged(f) \/ ExchangeFails(f)
  \/ Disconnect \/ OtherService \/ GatewayRestarts \/ Expires
  \/ \E t \in Tools : \/ GetValidToken(t) \/ Refreshed(t) \/ RefreshFails(t)
                      \/ Unauthorized(t) \/ RateLimited(t) \/ Answered(t) \/ WorkerEnds(t)

-----------------------------------------------------------------------------
(* While connected the stored refresh token is the one Spotify accepts,    *)
(* and after /disconnect none is stored, over refreshes that replace it,   *)
(* failed flows and restarts - as long as flow, refresh and disconnection  *)
(* do not overlap, no copy older than the file is used or saved, and no    *)
(* replaced token is lost on its way or with its container.                *)
TokensKept ==
  ~muddled => IF connected THEN saved.refresh = accepted ELSE saved = NoTokens
=============================================================================
