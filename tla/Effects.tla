------------------------------- MODULE Effects -------------------------------
(***************************************************************************)
(* What a runtime promises about side effects that carry a key: once the   *)
(* effect of a key is on record it never takes place again, and it is on   *)
(* record only if it took place.  The record is written after the effect,  *)
(* so a process that dies in between forgets it, and an attempt that fails *)
(* after its effect never knows of it: each of these is one more time, and *)
(* nothing else is.  Effects of several keys may be under way at once.     *)
(***************************************************************************)
EXTENDS Naturals

CONSTANT Keys

VARIABLES
  done,        \* how often the effect of each key took place
  records,     \* how often it was put on record
  lost,        \* how often it was forgotten, or never noticed
  unrecorded   \* the keys whose effect took place and has no record yet

vars == <<done, records, lost, unrecorded>>

Zero == [k \in Keys |-> 0]

Init == done = Zero /\ records = Zero /\ lost = Zero /\ unrecorded = {}

TakePlace(k) ==
  /\ records[k] = 0 /\ k \notin unrecorded
  /\ done' = [done EXCEPT ![k] = @ + 1]
  /\ unrecorded' = unrecorded \cup {k}
  /\ UNCHANGED <<records, lost>>

TakePlaceUnnoticed(k) ==
  /\ records[k] = 0 /\ k \notin unrecorded
  /\ done' = [done EXCEPT ![k] = @ + 1]
  /\ lost' = [lost EXCEPT ![k] = @ + 1]
  /\ UNCHANGED <<records, unrecorded>>

Record(k) ==
  /\ k \in unrecorded
  /\ records' = [records EXCEPT ![k] = @ + 1]
  /\ unrecorded' = unrecorded \ {k}
  /\ UNCHANGED <<done, lost>>

Die ==
  /\ lost' = [k \in Keys |-> IF k \in unrecorded THEN lost[k] + 1 ELSE lost[k]]
  /\ unrecorded' = {}
  /\ UNCHANGED <<done, records>>

Next == Die \/ \E k \in Keys : TakePlace(k) \/ TakePlaceUnnoticed(k) \/ Record(k)

Spec == Init /\ [][Next]_vars

-----------------------------------------------------------------------------
(* Every time an effect took place is accounted for: it is on record, it   *)
(* is about to be, or it is lost; and one of the first two at most.        *)
Accounted ==
  \A k \in Keys :
    \/ k \in unrecorded /\ records[k] = 0 /\ done[k] = lost[k] + 1
    \/ k \notin unrecorded /\ records[k] \in {0, 1} /\ done[k] = lost[k] + records[k]
=============================================================================
