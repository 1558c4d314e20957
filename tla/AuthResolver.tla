---------------------------- MODULE AuthResolver ----------------------------
(***************************************************************************)
(* AuthorizationResolver (app/core/runtime/transport.py) and the protocol  *)
(* its docstrings ask of the callers: try_resolve, then the write of       *)
(* AUTHORIZATION_RESOLVED to the ledger, then confirm_resolved, or         *)
(* abort_resolution when the write failed.  An attempt is one resolver (a  *)
(* user, the timeout enforcer) that runs the protocol, perhaps again and   *)
(* again, in one of the processes that share the ledger.                   *)
(*                                                                         *)
(* None of try_resolve, confirm_resolved and abort_resolution suspends     *)
(* while it holds the asyncio lock, so each is one step.                   *)
(***************************************************************************)
EXTENDS Naturals, Sequences, FiniteSets

CONSTANTS
  Procs, Attempts, Requests,
  ProcOf,      \* the process an attempt runs in
  TTL,         \* ttl_seconds
  MaxTime,     \* bound: the ledger's event time
  MaxLedger,   \* bound: events in the ledger
  NoRequest

ASSUME AuthResolverAssumption ==
  /\ ProcOf \in [Attempts -> Procs]
  /\ TTL \in Nat /\ MaxTime \in Nat /\ MaxLedger \in Nat
  /\ NoRequest \notin Requests

EventType == {"AUTHORIZATION_REQUESTED", "AUTHORIZATION_RESOLVED", "OTHER"}
Event == [type : EventType, request : Requests \cup {NoRequest}, time : 0..MaxTime,
          by : Procs]

VARIABLES
  ledger,     \* the committed events, each with the process that wrote it
  now,        \* the clock append() takes the event time from
  up,         \* processes that are running
  resolved,   \* _resolved of each process
  inFlight,   \* _in_flight of each process
  pc,         \* where each attempt is
  request,    \* the request it resolves
  tip         \* current_tip_seq it passes, read before the call

vars == <<ledger, now, up, resolved, inFlight, pc, request, tip>>
caches == <<resolved, inFlight>>
attempts == <<pc, request, tip>>

Resolutions(r) ==
  {i \in 1..Len(ledger) : ledger[i].type = "AUTHORIZATION_RESOLVED" /\ ledger[i].request = r}

Asked(r) ==
  {i \in 1..Len(ledger) : ledger[i].type = "AUTHORIZATION_REQUESTED" /\ ledger[i].request = r}

AppendEvent(p, type, r) ==
  /\ Len(ledger) < MaxLedger
  /\ ledger' = Append(ledger, [type |-> type, request |-> r, time |-> now, by |-> p])

Init ==
  /\ ledger = <<>> /\ now = 0
  /\ up = Procs
  /\ resolved = [p \in Procs |-> {}] /\ inFlight = [p \in Procs |-> {}]
  /\ pc = [a \in Attempts |-> "idle"]
  /\ request = [a \in Attempts |-> NoRequest]
  /\ tip = [a \in Attempts |-> 0]

-----------------------------------------------------------------------------
(* The ledger's other writers and the clock.                               *)

Ask(p, r) ==
  /\ p \in up /\ Asked(r) = {}
  /\ AppendEvent(p, "AUTHORIZATION_REQUESTED", r)
  /\ UNCHANGED <<now, up, caches, attempts>>

Other(p) ==
  /\ p \in up /\ AppendEvent(p, "OTHER", NoRequest)
  /\ UNCHANGED <<now, up, caches, attempts>>

Tick ==
  /\ now < MaxTime /\ now' = now + 1
  /\ UNCHANGED <<ledger, up, caches, attempts>>

-----------------------------------------------------------------------------
(* One attempt.                                                            *)

(* The caller reads the tip it will pass.                                  *)
Begin(a, r) ==
  /\ ProcOf[a] \in up /\ pc[a] = "idle" /\ Asked(r) # {}
  /\ pc' = [pc EXCEPT ![a] = "called"]
  /\ request' = [request EXCEPT ![a] = r]
  /\ tip' = [tip EXCEPT ![a] = Len(ledger)]
  /\ UNCHANGED <<ledger, now, up, caches>>

Expired(r, t) == \E i \in Asked(r) : ledger[t].time - ledger[i].time > TTL

(* Mutant of TryResolve: without the guard against concurrent attempts.    *)
TryResolve_NoInFlight(a) ==
  /\ ProcOf[a] \in up /\ pc[a] = "called"
  /\ LET p == ProcOf[a]  r == request[a]
     IN  \/ /\ r \notin resolved[p] /\ Resolutions(r) = {} /\ ~Expired(r, tip[a])
            /\ inFlight' = [inFlight EXCEPT ![p] = @ \cup {r}]
            /\ pc' = [pc EXCEPT ![a] = "gated"]
            /\ UNCHANGED resolved
         \/ /\ r \in resolved[p] \/ Resolutions(r) # {} \/ Expired(r, tip[a])
            /\ pc' = [pc EXCEPT ![a] = "idle"]
            /\ UNCHANGED caches
  /\ UNCHANGED <<ledger, now, up, request, tip>>

(* try_resolve: the cache, the attempts in flight, the ledger and the TTL, *)
(* in this order.  A drop returns False, and the caller is done.           *)
TryResolve(a) ==
  /\ ProcOf[a] \in up /\ pc[a] = "called"
  /\ LET p == ProcOf[a]  r == request[a]
     IN  \/ /\ r \in resolved[p] \cup inFlight[p]
            /\ pc' = [pc EXCEPT ![a] = "idle"]
            /\ UNCHANGED caches
         \/ /\ r \notin resolved[p] \cup inFlight[p] /\ Resolutions(r) # {}
            /\ resolved' = [resolved EXCEPT ![p] = @ \cup {r}]
            /\ pc' = [pc EXCEPT ![a] = "idle"]
            /\ UNCHANGED inFlight
         \/ /\ r \notin resolved[p] \cup inFlight[p] /\ Resolutions(r) = {}
            /\ Expired(r, tip[a])
            /\ pc' = [pc EXCEPT ![a] = "idle"]
            /\ UNCHANGED caches
         \/ /\ r \notin resolved[p] \cup inFlight[p] /\ Resolutions(r) = {}
            /\ ~Expired(r, tip[a])
            /\ inFlight' = [inFlight EXCEPT ![p] = @ \cup {r}]
            /\ pc' = [pc EXCEPT ![a] = "gated"]
            /\ UNCHANGED resolved
  /\ UNCHANGED <<ledger, now, up, request, tip>>

(* Mutant of Write: a failed write is taken for a success.                 *)
Write_Swallowed(a) ==
  /\ ProcOf[a] \in up /\ pc[a] = "gated"
  /\ AppendEvent(ProcOf[a], "AUTHORIZATION_RESOLVED", request[a]) \/ UNCHANGED ledger
  /\ pc' = [pc EXCEPT ![a] = "written"]
  /\ UNCHANGED <<now, up, caches, request, tip>>

(* The ledger's append computes the sequence number inside its lock and    *)
(* its transaction: it appends at the tip or fails.                        *)
Write(a) ==
  /\ ProcOf[a] \in up /\ pc[a] = "gated"
  /\ \/ /\ AppendEvent(ProcOf[a], "AUTHORIZATION_RESOLVED", request[a])
        /\ pc' = [pc EXCEPT ![a] = "written"]
     \/ /\ pc' = [pc EXCEPT ![a] = "failed"] /\ UNCHANGED ledger
  /\ UNCHANGED <<now, up, caches, request, tip>>

ConfirmResolved(a) ==
  /\ ProcOf[a] \in up /\ pc[a] = "written"
  /\ inFlight' = [inFlight EXCEPT ![ProcOf[a]] = @ \ {request[a]}]
  /\ resolved' = [resolved EXCEPT ![ProcOf[a]] = @ \cup {request[a]}]
  /\ pc' = [pc EXCEPT ![a] = "idle"]
  /\ UNCHANGED <<ledger, now, up, request, tip>>

(* Mutant of AbortResolution: the slot is not released.                    *)
AbortResolution_Keep(a) ==
  /\ ProcOf[a] \in up /\ pc[a] = "failed"
  /\ pc' = [pc EXCEPT ![a] = "idle"]
  /\ UNCHANGED <<ledger, now, up, caches, request, tip>>

AbortResolution(a) ==
  /\ ProcOf[a] \in up /\ pc[a] = "failed"
  /\ inFlight' = [inFlight EXCEPT ![ProcOf[a]] = @ \ {request[a]}]
  /\ pc' = [pc EXCEPT ![a] = "idle"]
  /\ UNCHANGED <<ledger, now, up, resolved, request, tip>>

-----------------------------------------------------------------------------
(* A process dies at any point; its sets and its attempts are gone.        *)
Crash(p) ==
  /\ p \in up /\ up' = up \ {p}
  /\ resolved' = [resolved EXCEPT ![p] = {}]
  /\ inFlight' = [inFlight EXCEPT ![p] = {}]
  /\ pc' = [a \in Attempts |-> IF ProcOf[a] = p THEN "idle" ELSE pc[a]]
  /\ UNCHANGED <<ledger, now, request, tip>>

(* rebuild_from_ledger before the first attempt.                           *)
Restart(p) ==
  /\ p \in Procs \ up /\ up' = up \cup {p}
  /\ resolved' = [resolved EXCEPT ![p] = {r \in Requests : Resolutions(r) # {}}]
  /\ UNCHANGED <<ledger, now, inFlight, attempts>>

Step(a) == TryResolve(a) \/ Write(a) \/ ConfirmResolved(a) \/ AbortResolution(a)

Next ==
  \/ \E p \in Procs : Other(p) \/ \E r \in Requests : Ask(p, r)
  \/ Tick
  \/ \E a \in Attempts : (\E r \in Requests : Begin(a, r)) \/ Step(a)
  \/ \E p \in Procs : Crash(p) \/ Restart(p)

(* An attempt that has begun runs to its end, and a dead process is        *)
(* started again.                                                          *)
Spec ==
  /\ Init /\ [][Next]_vars
  /\ \A a \in Attempts : WF_vars(Step(a))
  /\ \A p \in Procs : WF_vars(Restart(p))

-----------------------------------------------------------------------------
(* The type of the state.                                                  *)
TypeOK ==
  /\ ledger \in Seq(Event) /\ Len(ledger) <= MaxLedger
  /\ now \in 0..MaxTime /\ up \in SUBSET Procs
  /\ resolved \in [Procs -> SUBSET Requests] /\ inFlight \in [Procs -> SUBSET Requests]
  /\ pc \in [Attempts -> {"idle", "called", "gated", "written", "failed"}]
  /\ request \in [Attempts -> Requests \cup {NoRequest}]
  /\ tip \in [Attempts -> 0..MaxLedger]

(* Exactly once, as far as the resolver sees: however often it is stopped  *)
(* and started again, a process never writes a second resolution of a      *)
(* request.  (Another process may: the ledger check and the write are two  *)
(* steps, and the sets between them are the process's own.)                *)
ResolvedOnce ==
  \A r \in Requests : \A i, j \in Resolutions(r) : ledger[i].by = ledger[j].by => i = j

(* A request the cache drops really is resolved in the ledger: no attempt  *)
(* is dropped for a resolution that was never written.                     *)
CacheIsTrue == \A p \in Procs : \A r \in resolved[p] : Resolutions(r) # {}

(* A reserved slot always has the one attempt that will release it, so a   *)
(* failed write leaves the request open to a retry.                        *)
SlotHasOwner ==
  \A p \in Procs : \A r \in inFlight[p] :
    \E a \in Attempts :
      ProcOf[a] = p /\ request[a] = r /\ pc[a] \in {"gated", "written", "failed"}

(* No slot is held forever, whatever fails or dies.                        *)
SlotReleased ==
  \A p \in Procs, r \in Requests : r \in inFlight[p] ~> r \notin inFlight[p]
=============================================================================
