------------------------------- MODULE Mailbox -------------------------------
(***************************************************************************)
(* What an event bus promises its publishers: an event that was sent is    *)
(* addressed, once, to whoever is subscribed at that moment, and each of   *)
(* them receives it at most once.  Nothing is said of the order.  Events   *)
(* are named by the number under which they were sent.                     *)
(***************************************************************************)
EXTENDS Naturals

CONSTANT Handlers

VARIABLES
  sent,      \* how many events were sent
  address,   \* whom each event that left the box is for
  got        \* what each handler has received

vars == <<sent, address, got>>

Init ==
  /\ sent = 0
  /\ address = <<>>
  /\ got = [h \in Handlers |-> {}]

Send == sent' = sent + 1 /\ UNCHANGED <<address, got>>

Address ==
  /\ \E e \in 1..sent, to \in SUBSET Handlers :
       /\ e \notin DOMAIN address
       /\ address' = [x \in DOMAIN address \cup {e} |-> IF x = e THEN to ELSE address[x]]
  /\ UNCHANGED <<sent, got>>

(* A handler may send while it handles an event.                           *)
Receive(h) ==
  /\ \E e \in DOMAIN address :
       /\ h \in address[e] /\ e \notin got[h]
       /\ got' = [got EXCEPT ![h] = @ \cup {e}]
  /\ sent' \in {sent, sent + 1}
  /\ UNCHANGED address

Next == Send \/ Address \/ \E h \in Handlers : Receive(h)

Spec == Init /\ [][Next]_vars
=============================================================================
