-------------------------------- MODULE Dag --------------------------------
(***************************************************************************)
(* What the execution of a plan promises, without waves, gates or retries: *)
(* a step begins only when every step it depends on has ended, begins at   *)
(* most once and ends at most once, and a new plan is adopted only when    *)
(* nothing of the old one is still running.                                *)
(***************************************************************************)
EXTENDS Naturals

CONSTANT Plans   \* dependencies of the steps, for every plan there can be

VARIABLES
  deps,    \* the plan in force
  begun,   \* its steps that have begun
  ended    \* those of them that have ended

dagVars == <<deps, begun, ended>>

Init == deps \in Plans /\ begun = {} /\ ended = {}

(* The plan is replaced.                                                   *)
Adopt ==
  /\ begun = ended
  /\ deps' \in Plans /\ begun' = {} /\ ended' = {}

(* Some steps that are ready begin together.                               *)
Begin ==
  \E S \in SUBSET (DOMAIN deps \ begun) :
    /\ \A s \in S : deps[s] \subseteq ended
    /\ begun' = begun \cup S
    /\ UNCHANGED <<deps, ended>>

End ==
  \E s \in begun \ ended : ended' = ended \cup {s} /\ UNCHANGED <<deps, begun>>

(* Whoever waits for the plan goes away, and what runs is cancelled.       *)
Abandon == ended' = begun /\ UNCHANGED <<deps, begun>>

Next == Adopt \/ Begin \/ End \/ Abandon

Spec == Init /\ [][Next]_dagVars
=============================================================================
