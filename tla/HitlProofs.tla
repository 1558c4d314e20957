----------------------------- MODULE HitlProofs -----------------------------
(***************************************************************************)
(* Theorems about Hitl, for any number of calls and of answers.            *)
(***************************************************************************)
EXTENDS Hitl, FiniteSetTheorems, SequenceTheorems, TLAPS

(* A call is numbered before its approval is asked for.                    *)
CallNumbered == pc \in {"announced", "waiting"} => call \in Calls

IInv == TypeOK /\ CallNumbered /\ EntryOfWaiting

LEMMA InitIInv == Init => IInv
  <1>. SUFFICES ASSUME Init PROVE IInv
    OBVIOUS
  <1>1. <<>> \in Seq(Calls)
    BY EmptySeq
  <1>2. TypeOK
    <2>1. /\ post \in [Clients -> [at : {"none", "sent", "auditing", "missing", "done"},
                                   approved : Decision]]
          /\ entry \in [call : 0..MaxCalls, approved : Decision]
      BY HitlAssumption DEF Init, NoPost, NoEntry, NoCall, Decision
    <2>2. /\ shown \in [Clients -> 0..MaxCalls] /\ status \in Decision \cup {"error"}
          /\ decided \in [Calls -> SUBSET (Clients \X Decision)]
          /\ outcome \in [Calls -> Decision]
      BY HitlAssumption DEF Init, NoCall, Decision
    <2>3. /\ wire \in Seq(Calls) /\ call \in 0..MaxCalls
          /\ posts \in 0..MaxPosts /\ consents \in [Calls -> 0..posts]
      BY <1>1, HitlAssumption DEF Init, NoCall
    <2>4. /\ pc \in {"working", "announced", "waiting", "ended"}
          /\ buttons \in BOOLEAN /\ hiding \in BOOLEAN /\ late \in BOOLEAN
          /\ present \in SUBSET Clients
      BY DEF Init
    <2>. QED  BY <2>1, <2>2, <2>3, <2>4 DEF TypeOK
  <1>. QED  BY <1>2 DEF Init, IInv, CallNumbered, EntryOfWaiting

(* The executor goes on after a decision.                                  *)
LEMMA DecidedKeepsIInv ==
  ASSUME IInv, pc = "waiting", NEW granted \in BOOLEAN, Decided(granted), late' \in BOOLEAN
  PROVE  IInv'
  <1>. USE DEF IInv, Decided
  <1>1. call \in Calls
    BY DEF CallNumbered
  <1>2. outcome' \in [Calls -> Decision]
    BY <1>1 DEF TypeOK, Decision
  <1>3. entry' \in [call : 0..MaxCalls, approved : Decision]
    BY HitlAssumption DEF NoEntry, NoCall, Decision
  <1>4. TypeOK'
    BY <1>2, <1>3 DEF TypeOK, page, users
  <1>. QED  BY <1>4 DEF CallNumbered, EntryOfWaiting

LEMMA AnnounceKeepsIInv ==
  ASSUME IInv, Announce
  PROVE  IInv'
  <1>. USE DEF IInv, Announce
  <1>1. call + 1 \in Calls
    BY HitlAssumption DEF TypeOK, Calls
  <1>2. wire' \in Seq(Calls)
    BY <1>1, AppendProperties DEF TypeOK
  <1>3. TypeOK'
    BY <1>1, <1>2, HitlAssumption DEF TypeOK, Calls, page, users
  <1>. QED  BY <1>1, <1>3 DEF CallNumbered, EntryOfWaiting

LEMMA WaitKeepsIInv ==
  ASSUME IInv, Wait
  PROVE  IInv'
  <1>. USE DEF IInv, Wait
  <1>1. entry' \in [call : 0..MaxCalls, approved : Decision]
    BY DEF TypeOK, Decision
  <1>2. TypeOK'
    BY <1>1 DEF TypeOK, page, users
  <1>. QED  BY <1>2 DEF CallNumbered, EntryOfWaiting

(* The steps of the clients leave the executor and the registry alone.     *)
LEMMA ClientKeepsIInv ==
  ASSUME IInv, NEW k \in Clients,
         \/ Show(k) \/ Snapshot(k) \/ Respond(k) \/ Lookup(k)
         \/ \E d \in {"approved", "rejected"} : Decide(k, d)
  PROVE  IInv'
  <1>. USE HitlAssumption DEF IInv
  <1>1. UNCHANGED <<pc, call, entry, outcome, present, late>>
    BY DEF Show, Snapshot, Respond, Lookup, Decide, executor
  <1>2. CASE Show(k)
    <2>1. wire \in Seq(Calls) /\ wire # <<>> /\ Len(wire) \in Nat
      BY <1>2, LenProperties DEF Show, TypeOK
    <2>2. Head(wire) \in Calls
      BY <2>1, HeadTailProperties
    <2>3. wire' \in Seq(Calls)
      <3>1. PICK n \in 1..Len(wire) : wire' = SubSeq(wire, n + 1, Len(wire))
        BY <1>2 DEF Show
      <3>2. \A i \in (n + 1)..Len(wire) : wire[i] \in Calls
        BY <2>1, ElementOfSeq
      <3>. QED  BY <2>1, <3>1, <3>2, SubSeqProperties
    <2>4. shown' \in [Clients -> 0..MaxCalls] /\ status' \in Decision \cup {"error"}
      <3>1. shown \in [Clients -> 0..MaxCalls] /\ Head(wire) \in 0..MaxCalls
        BY <2>2 DEF TypeOK, Calls
      <3>. QED  BY <1>2, <3>1 DEF Show, Decision
    <2>. QED
      BY <1>1, <1>2, <2>3, <2>4
      DEF Show, TypeOK, users, CallNumbered, EntryOfWaiting
  <1>3. CASE Snapshot(k)
    <2>1. shown' \in [Clients -> 0..MaxCalls]
      BY <1>3 DEF Snapshot, TypeOK
    <2>. QED
      BY <1>1, <1>3, <2>1
      DEF Snapshot, TypeOK, page, users, CallNumbered, EntryOfWaiting
  <1>4. CASE Respond(k)
    <2>1. /\ shown' \in [Clients -> 0..MaxCalls] /\ status' \in Decision \cup {"error"}
          /\ buttons' \in BOOLEAN /\ hiding' \in BOOLEAN
      <3>1. CASE k = "device"
        <4>1. UNCHANGED page /\ shown' = [shown EXCEPT ![k] = NoCall]
          BY <1>4, <3>1 DEF Respond
        <4>2. NoCall \in 0..MaxCalls
          BY DEF NoCall
        <4>. QED  BY <4>1, <4>2 DEF TypeOK, page
      <3>2. CASE k = "page" /\ post[k].at = "done"
        <4>1. status' = post[k].approved /\ hiding' = TRUE /\ UNCHANGED <<shown, buttons>>
          BY <1>4, <3>2 DEF Respond
        <4>2. post[k].approved \in Decision
          BY DEF TypeOK
        <4>. QED  BY <4>1, <4>2 DEF TypeOK
      <3>3. CASE k = "page" /\ post[k].at = "missing"
        <4>1. status' = "error" /\ buttons' = TRUE /\ UNCHANGED <<shown, hiding>>
          BY <1>4, <3>3 DEF Respond
        <4>. QED  BY <4>1 DEF TypeOK
      <3>. QED  BY <1>4, <3>1, <3>2, <3>3 DEF Respond
    <2>2. post' \in [Clients -> [at : {"none", "sent", "auditing", "missing", "done"},
                                 approved : Decision]]
      BY <1>4 DEF Respond, TypeOK, NoPost, Decision
    <2>. QED
      BY <1>1, <1>4, <2>1, <2>2
      DEF Respond, TypeOK, users, CallNumbered, EntryOfWaiting
  <1>5. CASE Lookup(k)
    <2>1. post' \in [Clients -> [at : {"none", "sent", "auditing", "missing", "done"},
                                 approved : Decision]]
      BY <1>5 DEF Lookup, TypeOK
    <2>. QED
      BY <1>1, <1>5, <2>1
      DEF Lookup, TypeOK, page, users, CallNumbered, EntryOfWaiting
  <1>6. ASSUME NEW d \in {"approved", "rejected"}, Decide(k, d) PROVE IInv'
    <2>1. post' \in [Clients -> [at : {"none", "sent", "auditing", "missing", "done"},
                                 approved : Decision]]
      BY <1>6 DEF Decide, TypeOK, Decision
    <2>2. shown[k] \in Calls
      BY <1>6 DEF Decide, TypeOK, Calls, NoCall
    <2>3. decided' \in [Calls -> SUBSET (Clients \X Decision)]
      BY <1>6, <2>2 DEF Decide, TypeOK, Decision
    <2>4. posts' \in 0..MaxPosts /\ consents' \in [Calls -> 0..posts'] /\ buttons' \in BOOLEAN
      <3>1. /\ posts \in 0..MaxPosts /\ posts < MaxPosts /\ MaxPosts \in Nat
            /\ \A c \in Calls : consents[c] \in 0..posts
        BY <1>6 DEF Decide, TypeOK
      <3>2. /\ posts' = posts + 1
            /\ consents' = [c \in Calls |-> IF d = "approved" /\ shown[k] <= c
                                            THEN consents[c] + 1 ELSE consents[c]]
        BY <1>6 DEF Decide
      <3>3. buttons' \in BOOLEAN
        BY <1>6 DEF Decide, TypeOK
      <3>. QED  BY <3>1, <3>2, <3>3
    <2>. QED
      BY <1>1, <1>6, <2>1, <2>3, <2>4
      DEF Decide, TypeOK, CallNumbered, EntryOfWaiting
  <1>. QED  BY <1>2, <1>3, <1>4, <1>5, <1>6

LEMMA ResolveKeepsIInv ==
  ASSUME IInv, NEW k \in Clients, Resolve(k)
  PROVE  IInv'
  <1>. USE DEF IInv, Resolve
  <1>1. post[k].approved \in Decision
    BY DEF TypeOK
  <1>2. /\ entry' \in [call : 0..MaxCalls, approved : Decision]
        /\ entry'.call = entry.call /\ (entry = NoEntry => entry' = NoEntry)
    BY <1>1 DEF TypeOK
  <1>3. post' \in [Clients -> [at : {"none", "sent", "auditing", "missing", "done"},
                               approved : Decision]]
    BY DEF TypeOK
  <1>4. TypeOK'
    BY <1>2, <1>3 DEF TypeOK, executor, page, users
  <1>. QED  BY <1>2, <1>4 DEF CallNumbered, EntryOfWaiting, executor

LEMMA NextIInv ==
  ASSUME IInv, [Next]_vars
  PROVE  IInv'
  <1>1. CASE Announce
    BY <1>1, AnnounceKeepsIInv
  <1>2. CASE Wait
    BY <1>2, WaitKeepsIInv
  <1>3. CASE Wake
    BY <1>3, DecidedKeepsIInv DEF Wake, IInv, TypeOK
  <1>4. CASE TimeOut
    BY <1>4, DecidedKeepsIInv DEF TimeOut
  <1>5. CASE Finish
    BY <1>5 DEF Finish, IInv, TypeOK, CallNumbered, EntryOfWaiting, page, users
  <1>10. CASE Hide
    <2>1. shown' \in [Clients -> 0..MaxCalls]
      <3>1. NoCall \in 0..MaxCalls
        BY HitlAssumption DEF NoCall
      <3>2. shown \in [Clients -> 0..MaxCalls]
        BY DEF IInv, TypeOK
      <3>3. shown' = [shown EXCEPT !["page"] = NoCall]
        BY <1>10 DEF Hide
      <3>4. shown' = [j \in Clients |-> IF j = "page" THEN NoCall ELSE shown[j]]
        BY <3>2, <3>3
      <3>. QED  BY <3>1, <3>2, <3>4
    <2>. QED
      BY <1>10, <2>1
      DEF Hide, IInv, TypeOK, CallNumbered, EntryOfWaiting, users, executor
  <1>6. ASSUME NEW k \in Clients,
               \/ Show(k) \/ Snapshot(k) \/ Respond(k) \/ Lookup(k)
               \/ \E d \in {"approved", "rejected"} : Decide(k, d)
        PROVE  IInv'
    BY <1>6, ClientKeepsIInv
  <1>7. ASSUME NEW k \in Clients, Resolve(k) PROVE IInv'
    BY <1>7, ResolveKeepsIInv
  <1>8. CASE UNCHANGED vars
    BY <1>8 DEF vars, IInv, TypeOK, CallNumbered, EntryOfWaiting
  <1>9. present \subseteq Clients
    BY DEF IInv, TypeOK
  <1>. QED  BY <1>1, <1>2, <1>3, <1>4, <1>5, <1>6, <1>7, <1>8, <1>9, <1>10 DEF Next

(* The registry holds the approval of the call the executor waits for, and *)
(* nothing while it does not wait, for any number of calls and answers.    *)
THEOREM RegistryOfWaiting == Spec => [](TypeOK /\ EntryOfWaiting)
  <1>1. IInv => TypeOK /\ EntryOfWaiting
    BY DEF IInv
  <1>. QED  BY <1>1, InitIInv, NextIInv, PTL DEF Spec

-----------------------------------------------------------------------------
(* Every consent is in one place: on its way to the endpoint, in the       *)
(* registry, or used by a call.                                            *)

OnTheWay == {k \in Clients : post[k].at \in {"sent", "auditing"} /\ post[k].approved = "approved"}

Stored == IF entry.approved = "approved" THEN 1 ELSE 0

(* All approvals sent so far.                                              *)
Total == consents[MaxCalls]

ConsentsCounted == Cardinality(Ran) + Stored + Cardinality(OnTheWay) <= Total

LEMMA TotalIsNumber == IInv => Total \in Nat /\ MaxCalls \in Calls
  BY HitlAssumption DEF IInv, TypeOK, Total, Calls

LEMMA SetsAreFinite ==
  /\ IsFiniteSet(Ran) /\ Cardinality(Ran) \in Nat
  /\ IsFiniteSet(OnTheWay) /\ Cardinality(OnTheWay) \in Nat
  <1>1. IsFiniteSet(Calls)
    BY HitlAssumption, FS_Interval DEF Calls
  <1>2. IsFiniteSet({"page", "device"})
    <2>1. IsFiniteSet({"page"})
      BY FS_Singleton
    <2>2. IsFiniteSet({"page"} \cup {"device"})
      BY <2>1, FS_AddElement
    <2>3. {"page", "device"} = {"page"} \cup {"device"}
      OBVIOUS
    <2>. QED  BY <2>2, <2>3
  <1>3. Ran \in SUBSET Calls /\ OnTheWay \in SUBSET {"page", "device"}
    BY HitlAssumption DEF Ran, OnTheWay
  <1>4. IsFiniteSet(Ran) /\ IsFiniteSet(OnTheWay)
    BY <1>1, <1>2, <1>3, FS_Subset
  <1>. QED  BY <1>4, FS_CardinalityType

(* A decision uses the consent stored in the registry, or none.            *)
LEMMA DecidedKeepsConsents ==
  ASSUME IInv, ConsentsCounted, pc = "waiting",
         NEW granted \in BOOLEAN, Decided(granted),
         granted => entry.approved = "approved"
  PROVE  ConsentsCounted'
  <1>1. Stored' = 0 /\ OnTheWay' = OnTheWay /\ Total' = Total
    BY DEF Decided, Stored, NoEntry, OnTheWay, users, Total
  <1>2. call \in Calls /\ Total \in Nat
    BY TotalIsNumber DEF IInv, CallNumbered, TypeOK
  <1>3. \A c \in Calls :
          outcome'[c] = IF c = call THEN (IF granted THEN "approved" ELSE "rejected")
                                    ELSE outcome[c]
    BY DEF Decided, IInv, TypeOK
  <1>4. CASE granted
    <2>1. Ran' = Ran \cup {call}
      BY <1>2, <1>3, <1>4 DEF Ran
    <2>2. /\ Cardinality(Ran') \in Nat
          /\ Cardinality(Ran') <= Cardinality(Ran) + 1
      <3>1. IsFiniteSet(Ran) /\ Cardinality(Ran) \in Nat
        BY SetsAreFinite
      <3>2. Cardinality(Ran \cup {call}) = Cardinality(Ran)
              \/ Cardinality(Ran \cup {call}) = Cardinality(Ran) + 1
        BY <3>1, FS_AddElement
      <3>3. Cardinality(Ran') = Cardinality(Ran \cup {call})
        BY <2>1
      <3>. QED  BY <3>1, <3>2, <3>3
    <2>4. Stored = 1
      BY <1>4 DEF Stored
    <2>. QED  BY <1>1, <1>2, <2>2, <2>4, SetsAreFinite DEF ConsentsCounted
  <1>5. CASE ~granted
    <2>1. Ran' \in SUBSET Ran
      BY <1>3, <1>5 DEF Ran
    <2>2. Cardinality(Ran') <= Cardinality(Ran) /\ Cardinality(Ran') \in Nat
      BY <2>1, SetsAreFinite, FS_Subset, FS_CardinalityType
    <2>3. Stored \in {0, 1}
      BY DEF Stored
    <2>. QED  BY <1>1, <1>2, <2>2, <2>3, SetsAreFinite DEF ConsentsCounted
  <1>. QED  BY <1>4, <1>5

(* Asking the endpoint consents once; an answer in transit is stored once, *)
(* or dropped.                                                             *)
LEMMA PostKeepsConsents ==
  ASSUME IInv, ConsentsCounted, UNCHANGED outcome, NEW k \in Clients,
         \/ Lookup(k) \/ Resolve(k) \/ Respond(k)
         \/ \E d \in {"approved", "rejected"} : Decide(k, d)
  PROVE  ConsentsCounted'
  <1>. USE SetsAreFinite DEF IInv
  <1>0. /\ Ran' = Ran /\ Total \in Nat /\ Stored \in {0, 1}
        /\ post[k].at \in {"none", "sent", "auditing", "missing", "done"}
    BY TotalIsNumber DEF Ran, TypeOK, Stored
  <1>1. CASE Lookup(k) \/ Respond(k)
    <2>1. entry' = entry /\ Total' = Total
      BY <1>1 DEF Lookup, Respond, users, Total
    <2>2. \A j \in Clients : j \in OnTheWay' => j \in OnTheWay
      <3>1. CASE Lookup(k)
        <4>1. post[k].at = "sent"
          BY <3>1 DEF Lookup
        <4>2. \A j \in Clients : post'[j].approved = post[j].approved /\ (j # k => post'[j] = post[j])
          BY <3>1 DEF Lookup, TypeOK
        <4>. QED  BY <4>1, <4>2 DEF OnTheWay
      <3>2. CASE Respond(k)
        <4>1. \A j \in Clients : post'[j] = IF j = k THEN NoPost ELSE post[j]
          BY <3>2 DEF Respond, TypeOK
        <4>. QED  BY <4>1 DEF OnTheWay, NoPost
      <3>. QED  BY <1>1, <3>1, <3>2
    <2>3. OnTheWay' \in SUBSET OnTheWay
      BY <2>2 DEF OnTheWay
    <2>4. Cardinality(OnTheWay') <= Cardinality(OnTheWay) /\ Cardinality(OnTheWay') \in Nat
      BY <2>3, FS_Subset, FS_CardinalityType
    <2>5. Stored' = Stored
      BY <2>1 DEF Stored
    <2>. QED  BY <1>0, <2>1, <2>4, <2>5 DEF ConsentsCounted
  <1>2. CASE Resolve(k)
    <2>1. /\ OnTheWay' = OnTheWay \ {k} /\ Total' = Total
          /\ k \in OnTheWay <=> post[k].approved = "approved"
      BY <1>2 DEF Resolve, OnTheWay, TypeOK, users, Total
    <2>2. /\ Cardinality(OnTheWay') \in Nat
          /\ Cardinality(OnTheWay') = IF k \in OnTheWay THEN Cardinality(OnTheWay) - 1
                                                        ELSE Cardinality(OnTheWay)
      BY <2>1, FS_RemoveElement, FS_CardinalityType
    <2>3. Stored' <= Stored \/ k \in OnTheWay
      BY <1>2, <2>1 DEF Resolve, Stored, TypeOK
    <2>4. Stored' \in {0, 1}
      BY DEF Stored
    <2>. QED  BY <1>0, <2>1, <2>2, <2>3, <2>4 DEF ConsentsCounted
  <1>3. ASSUME NEW d \in {"approved", "rejected"}, Decide(k, d) PROVE ConsentsCounted'
    <2>1. entry' = entry /\ post[k] = NoPost /\ k \notin OnTheWay
      BY <1>3 DEF Decide, OnTheWay, NoPost
    <2>2. Stored' = Stored
      BY <2>1 DEF Stored
    <2>3. CASE d = "approved"
      <3>1. OnTheWay' = OnTheWay \cup {k}
        BY <1>3, <2>3 DEF Decide, OnTheWay, TypeOK
      <3>3. Total' = Total + 1
        <4>1. shown[k] <= MaxCalls /\ MaxCalls \in Calls
          BY TotalIsNumber DEF TypeOK
        <4>. QED  BY <1>3, <2>3, <4>1 DEF Decide, Total
      <3>2. Cardinality(OnTheWay') = Cardinality(OnTheWay) + 1
        BY <2>1, <3>1, FS_AddElement
      <3>. QED  BY <1>0, <2>2, <3>2, <3>3 DEF ConsentsCounted
    <2>4. CASE d = "rejected"
      <3>1. OnTheWay' = OnTheWay /\ Total' = Total
        BY <1>3, <2>1, <2>4, TotalIsNumber DEF Decide, OnTheWay, TypeOK, Total
      <3>. QED  BY <1>0, <2>2, <3>1 DEF ConsentsCounted
    <2>. QED  BY <2>3, <2>4
  <1>. QED  BY <1>1, <1>2, <1>3

LEMMA NextConsentsCounted ==
  ASSUME IInv, ConsentsCounted, [Next]_vars
  PROVE  ConsentsCounted'
  <1>1. CASE Wake
    BY <1>1, DecidedKeepsConsents DEF Wake, IInv, TypeOK
  <1>2. CASE TimeOut
    BY <1>2, DecidedKeepsConsents DEF TimeOut
  <1>3. CASE Announce \/ Finish \/ Hide \/ \E k \in present : Show(k) \/ Snapshot(k)
    BY <1>3
    DEF Announce, Finish, Hide, Show, Snapshot, users, executor, ConsentsCounted, Ran, Stored,
        OnTheWay, Total
  <1>4. CASE Wait
    <2>1. Ran' = Ran /\ OnTheWay' = OnTheWay /\ Total' = Total /\ Stored' = 0
      BY <1>4 DEF Wait, users, Ran, OnTheWay, Stored, Total
    <2>2. Stored \in {0, 1} /\ Total \in Nat
      BY TotalIsNumber DEF Stored
    <2>. QED  BY <2>1, <2>2, SetsAreFinite DEF ConsentsCounted
  <1>5. ASSUME NEW k \in Clients,
               \/ Lookup(k) \/ Resolve(k) \/ Respond(k)
               \/ \E d \in {"approved", "rejected"} : Decide(k, d)
        PROVE  ConsentsCounted'
    <2>1. UNCHANGED outcome
      BY <1>5 DEF Lookup, Resolve, Respond, Decide, executor
    <2>. QED  BY <1>5, <2>1, PostKeepsConsents
  <1>6. CASE UNCHANGED vars
    BY <1>6 DEF vars, ConsentsCounted, Ran, Stored, OnTheWay, Total
  <1>7. present \subseteq Clients
    BY DEF IInv, TypeOK
  <1>. QED  BY <1>1, <1>2, <1>3, <1>4, <1>5, <1>6, <1>7 DEF Next

-----------------------------------------------------------------------------
(* Nobody is shown a call before the executor is at it, so that approvals  *)
(* are about that call or earlier ones.                                    *)

RanUpTo(c) == {b \in Ran : b <= c}

InOrder ==
  /\ \A k \in Clients : shown[k] <= call
  /\ \A i \in 1..Len(wire) : wire[i] <= call
  /\ \A c \in Ran : c <= call
  /\ \A c \in Calls : c >= call => consents[c] = Total
  /\ \A c \in Calls : c < call => Cardinality(RanUpTo(c)) <= consents[c]

LEMMA RanUpToAll ==
  ASSUME IInv, InOrder, NEW c \in Calls, c >= call
  PROVE  RanUpTo(c) = Ran
  <1>1. call \in Nat /\ c \in Nat /\ \A b \in Ran : b \in Nat /\ b <= call
    BY HitlAssumption DEF IInv, TypeOK, Ran, Calls, InOrder
  <1>. QED  BY <1>1 DEF RanUpTo

LEMMA UsedUpTo ==
  ASSUME IInv, ConsentsCounted, InOrder, NEW c \in Calls
  PROVE  Cardinality(RanUpTo(c)) <= consents[c]
  <1>1. CASE c < call
    BY <1>1 DEF InOrder
  <1>2. CASE ~(c < call)
    <2>1. c >= call
      BY <1>2, HitlAssumption DEF IInv, TypeOK, Calls
    <2>2. RanUpTo(c) = Ran /\ consents[c] = Total
      BY <2>1, RanUpToAll DEF InOrder
    <2>3. Stored \in {0, 1} /\ Total \in Nat
      BY TotalIsNumber DEF Stored
    <2>4. Cardinality(Ran) <= Total
      BY <2>3, SetsAreFinite DEF ConsentsCounted
    <2>. QED  BY <2>2, <2>4
  <1>. QED  BY <1>1, <1>2

LEMMA NextInOrder ==
  ASSUME IInv, ConsentsCounted, InOrder, [Next]_vars
  PROVE  InOrder'
  <1>0. /\ call \in Nat /\ Calls \subseteq Nat /\ wire \in Seq(Calls) /\ Len(wire) \in Nat
        /\ shown \in [Clients -> 0..MaxCalls] /\ MaxCalls \in Nat
    BY HitlAssumption DEF IInv, TypeOK, Calls
  <1>1. CASE Announce
    <2>1. /\ call' = call + 1 /\ wire' = Append(wire, call + 1)
          /\ UNCHANGED <<shown, outcome, consents>>
      BY <1>1 DEF Announce, users
    <2>2. \A i \in 1..Len(wire') : wire'[i] <= call'
      <3>1. /\ Len(wire') = Len(wire) + 1 /\ wire'[Len(wire) + 1] = call'
            /\ \A i \in 1..Len(wire) : wire'[i] = wire[i] /\ wire[i] \in Nat /\ wire[i] <= call
        <4>1. call + 1 \in Calls
          BY <1>0, <1>1 DEF Announce, Calls
        <4>2. /\ Len(wire') = Len(wire) + 1 /\ wire'[Len(wire) + 1] = call + 1
              /\ \A i \in 1..Len(wire) : wire'[i] = wire[i]
          BY <1>0, <2>1, <4>1, AppendProperties
        <4>3. \A i \in 1..Len(wire) : wire[i] \in Nat
          BY <1>0, ElementOfSeq
        <4>. QED  BY <2>1, <4>2, <4>3 DEF InOrder
      <3>. QED  BY <1>0, <2>1, <3>1
    <2>3. \A k \in Clients : shown'[k] <= call'
      BY <1>0, <2>1 DEF InOrder
    <2>4. Ran' = Ran /\ Total' = Total /\ \A c \in Calls : RanUpTo(c)' = RanUpTo(c)
      BY <2>1 DEF Ran, Total, RanUpTo
    <2>5. \A c \in Ran' : c <= call'
      BY <1>0, <2>1, <2>4 DEF InOrder, Ran
    <2>6. \A c \in Calls : c >= call' => consents'[c] = Total'
      BY <1>0, <2>1, <2>4 DEF InOrder
    <2>7. \A c \in Calls : c < call' => Cardinality(RanUpTo(c)') <= consents'[c]
      BY <2>1, <2>4, UsedUpTo
    <2>. QED  BY <2>2, <2>3, <2>5, <2>6, <2>7 DEF InOrder
  <1>2. CASE Wake \/ TimeOut
    <2>1. /\ pc = "waiting" /\ \E granted \in BOOLEAN : Decided(granted)
      BY <1>2 DEF Wake, TimeOut
    <2>2. /\ UNCHANGED <<call, wire, shown, consents>> /\ call \in Calls
          /\ \A c \in Calls : c # call => outcome'[c] = outcome[c]
      BY <2>1 DEF Decided, users, IInv, CallNumbered, TypeOK
    <2>3. \A c \in Ran' : c <= call
      <3>1. \A c \in Ran' : c = call \/ c \in Ran
        BY <2>2 DEF Ran
      <3>. QED  BY <1>0, <3>1 DEF InOrder
    <2>4. ASSUME NEW c \in Calls, c < call PROVE RanUpTo(c)' = RanUpTo(c)
      <3>1. \A b \in Calls : b <= c => outcome'[b] = outcome[b]
        BY <1>0, <2>2, <2>4
      <3>. QED  BY <3>1 DEF RanUpTo, Ran
    <2>5. \A c \in Calls : c < call => Cardinality(RanUpTo(c)') <= consents'[c]
      BY <2>2, <2>4 DEF InOrder
    <2>6. Total' = Total
      BY <2>2 DEF Total
    <2>. QED  BY <2>2, <2>3, <2>5, <2>6 DEF InOrder
  <1>3. ASSUME NEW k \in Clients, NEW d \in {"approved", "rejected"}, Decide(k, d)
        PROVE  InOrder'
    <2>1. /\ UNCHANGED <<call, wire, shown, outcome>>
          /\ consents' = [c \in Calls |-> IF d = "approved" /\ shown[k] <= c
                                          THEN consents[c] + 1 ELSE consents[c]]
      BY <1>3 DEF Decide, executor
    <2>2. consents \in [Calls -> Nat] /\ MaxCalls \in Calls
      BY TotalIsNumber, HitlAssumption DEF IInv, TypeOK
    <2>3. shown[k] \in Nat /\ shown[k] <= call
      BY <1>0 DEF InOrder
    <2>4. Ran' = Ran /\ \A c \in Calls : RanUpTo(c)' = RanUpTo(c)
      BY <2>1 DEF Ran, RanUpTo
    <2>5. ASSUME NEW c \in Calls, c >= call PROVE consents'[c] = Total'
      <3>1. shown[k] <= c /\ shown[k] <= MaxCalls /\ consents[c] = Total
        BY <1>0, <2>3, <2>5 DEF InOrder
      <3>. QED  BY <2>1, <2>2, <3>1 DEF Total
    <2>6. ASSUME NEW c \in Calls, c < call PROVE Cardinality(RanUpTo(c)') <= consents'[c]
      <3>1. consents[c] \in Nat /\ consents'[c] \in {consents[c], consents[c] + 1}
        BY <2>1, <2>2
      <3>2. Cardinality(RanUpTo(c)) <= consents[c]
        BY <2>6 DEF InOrder
      <3>3. Cardinality(RanUpTo(c)) \in Nat
        <4>1. RanUpTo(c) \in SUBSET Ran
          BY DEF RanUpTo
        <4>. QED  BY <4>1, SetsAreFinite, FS_Subset, FS_CardinalityType
      <3>. QED  BY <2>4, <3>1, <3>2, <3>3
    <2>. QED  BY <2>1, <2>4, <2>5, <2>6 DEF InOrder
  <1>4. CASE UNCHANGED <<call, outcome, consents>>
             /\ (UNCHANGED wire \/ \E n \in 1..Len(wire) : wire' = SubSeq(wire, n + 1, Len(wire)))
             /\ \A k \in Clients : shown'[k] <= call
    <2>1. Ran' = Ran /\ Total' = Total /\ \A c \in Calls : RanUpTo(c)' = RanUpTo(c)
      BY <1>4 DEF Ran, Total, RanUpTo
    <2>2. \A i \in 1..Len(wire') : wire'[i] <= call
      <3>1. CASE UNCHANGED wire
        BY <3>1 DEF InOrder
      <3>2. ASSUME NEW n \in 1..Len(wire), wire' = SubSeq(wire, n + 1, Len(wire))
            PROVE  \A i \in 1..Len(wire') : wire'[i] <= call
        <4>1. \A i \in (n + 1)..Len(wire) : wire[i] \in Calls
          BY <1>0, ElementOfSeq
        <4>2. \A i \in 1..Len(wire') : i + n \in 1..Len(wire) /\ wire'[i] = wire[i + n]
          BY <1>0, <3>2, <4>1
        <4>. QED  BY <4>2 DEF InOrder
      <3>. QED  BY <1>4, <3>1, <3>2
    <2>. QED  BY <1>4, <2>1, <2>2 DEF InOrder
  <1>5. CASE Wait \/ Finish \/ UNCHANGED vars
    BY <1>4, <1>5 DEF Wait, Finish, vars, users, InOrder
  <1>6. CASE Hide
    <2>1. \A k \in Clients : shown'[k] \in {shown[k], NoCall}
      BY <1>0, <1>6 DEF Hide
    <2>2. \A k \in Clients : shown'[k] <= call
      BY <1>0, <2>1 DEF InOrder, NoCall
    <2>. QED  BY <1>4, <1>6, <2>2 DEF Hide, executor, users
  <1>7. ASSUME NEW k \in Clients, Show(k) PROVE InOrder'
    <2>1. Head(wire) = wire[1] /\ 1 \in 1..Len(wire)
      BY <1>0, <1>7 DEF Show
    <2>2. \A j \in Clients : shown'[j] = IF j = k THEN Head(wire) ELSE shown[j]
      BY <1>0, <1>7 DEF Show
    <2>3. \A j \in Clients : shown'[j] <= call
      BY <2>1, <2>2 DEF InOrder
    <2>. QED  BY <1>4, <1>7, <2>3 DEF Show, executor, users
  <1>8. ASSUME NEW k \in Clients, Snapshot(k) PROVE InOrder'
    <2>1. entry.call = call
      BY <1>8 DEF Snapshot, IInv, EntryOfWaiting
    <2>2. \A j \in Clients : shown'[j] = IF j = k THEN call ELSE shown[j]
      BY <1>0, <1>8, <2>1 DEF Snapshot
    <2>3. \A j \in Clients : shown'[j] <= call
      BY <1>0, <2>2 DEF InOrder
    <2>. QED  BY <1>4, <1>8, <2>3 DEF Snapshot, executor, users
  <1>9. ASSUME NEW k \in Clients, Respond(k) PROVE InOrder'
    <2>1. shown' = shown \/ shown' = [shown EXCEPT ![k] = NoCall]
      <3>1. post[k].at \in {"done", "missing"} /\ k \in {"page", "device"}
        BY <1>9, HitlAssumption DEF Respond
      <3>2. CASE k = "device"
        BY <1>9, <3>2 DEF Respond
      <3>3. CASE k = "page" /\ post[k].at = "done"
        BY <1>9, <3>3 DEF Respond
      <3>4. CASE k = "page" /\ post[k].at = "missing"
        BY <1>9, <3>4 DEF Respond
      <3>. QED  BY <3>1, <3>2, <3>3, <3>4
    <2>2. \A j \in Clients : shown'[j] \in {shown[j], NoCall}
      BY <1>0, <2>1
    <2>3. \A j \in Clients : shown'[j] <= call
      BY <1>0, <2>2 DEF InOrder, NoCall
    <2>. QED  BY <1>4, <1>9, <2>3 DEF Respond, executor, users
  <1>10. ASSUME NEW k \in Clients, Lookup(k) \/ Resolve(k) PROVE InOrder'
    BY <1>4, <1>10 DEF Lookup, Resolve, executor, users, InOrder
  <1>11. present \subseteq Clients
    BY DEF IInv, TypeOK
  <1>. QED
    BY <1>1, <1>2, <1>3, <1>5, <1>6, <1>7, <1>8, <1>9, <1>10, <1>11 DEF Next

(* Each call that ran used up an approval of its own, given for it or for  *)
(* an earlier call (wait_for_decision, resolve), for any number of calls,  *)
(* answers and interleavings of the two clients.                           *)
THEOREM OneRunPerConsent == Spec => []ConsentUsedOnce
  <1>1. Init => ConsentsCounted /\ InOrder
    <2>. SUFFICES ASSUME Init PROVE ConsentsCounted /\ InOrder
      OBVIOUS
    <2>1. /\ Ran = {} /\ OnTheWay = {} /\ Stored = 0
          /\ \A c \in Calls : consents[c] = 0
      BY DEF Init, Ran, OnTheWay, NoPost, Stored, NoEntry
    <2>2. Cardinality(Ran) = 0 /\ Cardinality(OnTheWay) = 0
      BY <2>1, FS_EmptySet
    <2>3. Total = 0
      BY <2>1, HitlAssumption DEF Total, Calls
    <2>4. ConsentsCounted
      BY <2>1, <2>2, <2>3 DEF ConsentsCounted
    <2>5. /\ call = 0 /\ wire = <<>> /\ Len(wire) = 0 /\ \A k \in Clients : shown[k] = 0
      BY DEF Init, NoCall
    <2>6. \A c \in Calls : ~(c < call)
      BY <2>5, HitlAssumption DEF Calls
    <2>7. InOrder
      BY <2>1, <2>3, <2>5, <2>6 DEF InOrder
    <2>. QED  BY <2>4, <2>7
  <1>2. IInv /\ ConsentsCounted /\ InOrder => ConsentUsedOnce
    BY UsedUpTo DEF ConsentUsedOnce, RanUpTo
  <1>. QED
    BY <1>1, <1>2, InitIInv, NextIInv, NextConsentsCounted, NextInOrder, PTL DEF Spec

-----------------------------------------------------------------------------
(* One client that answers in time.                                        *)

(* What the call did and what is stored for it is what the client decided. *)
Right(k) ==
  /\ \A c \in Ran : <<k, "approved">> \in decided[c]
  /\ entry.approved # "none" => <<k, entry.approved>> \in decided[call]

Sent(k) == post[k].at \in {"sent", "auditing"}

(* Nothing has been resolved yet: the executor is at its first call, which *)
(* is the only one the page can have been shown.                           *)
Fresh ==
  /\ call \in {0, 1} /\ (pc = "working" => call = 0)
  /\ entry.approved = "none"
  /\ \A i \in 1..Len(wire) : wire[i] = 1
  /\ wire # <<>> => call = 1
  /\ shown["page"] # NoCall => shown["page"] = 1 /\ call = 1
  /\ post["page"].at # "done"
  /\ Sent("page") => call = 1 /\ ~buttons /\ <<"page", post["page"].approved>> \in decided[1]

(* The endpoint has answered the page, whose buttons stay disabled.        *)
Spent == ~buttons /\ post["page"].at \in {"none", "done"}

(* The device decides about the waiting call, which stays until then.      *)
Pending ==
  /\ post["device"].at # "missing"
  /\ shown["device"] # NoCall /\ post["device"].at # "done" =>
       pc = "waiting" /\ entry.approved = "none" /\ shown["device"] = call
  /\ Sent("device") => /\ shown["device"] # NoCall
                       /\ <<"device", post["device"].approved>> \in decided[call]

OneClient(k) == ~late /\ present = {k}

PromptInv ==
  /\ OneClient("page") => Right("page") /\ (Fresh \/ Spent)
  /\ OneClient("device") => Right("device") /\ Pending

(* A decision is never taken back.                                         *)
LEMMA DecidedGrows ==
  ASSUME IInv, [Next]_vars
  PROVE  \A c \in Calls : decided[c] \subseteq decided'[c]
  <1>1. ASSUME NEW k \in present, NEW d \in {"approved", "rejected"}, Decide(k, d)
        PROVE  \A c \in Calls : decided[c] \subseteq decided'[c]
    <2>1. /\ decided' = [decided EXCEPT ![shown[k]] = @ \cup {<<k, d>>}]
          /\ decided \in [Calls -> SUBSET (Clients \X Decision)]
      BY <1>1 DEF Decide, IInv, TypeOK
    <2>. QED  BY <2>1
  <1>2. CASE UNCHANGED decided
    BY <1>2
  <1>3. UNCHANGED decided \/ \E k \in present, d \in {"approved", "rejected"} : Decide(k, d)
    BY DEF Next, vars, Announce, Wait, Wake, TimeOut, Decided, Finish, Hide, Show, Snapshot,
           Respond, Lookup, Resolve, users
  <1>. QED  BY <1>1, <1>2, <1>3

(* A call runs when its entry says approved, and the entry says what the   *)
(* client's request says, which is about the waiting call.                 *)
LEMMA NextRight ==
  ASSUME IInv, [Next]_vars, NEW k \in Clients, OneClient(k), OneClient(k)', Right(k),
         Sent(k) => <<k, post[k].approved>> \in decided[call]
  PROVE  Right(k)'
  <1>1. \A c \in Calls : decided[c] \subseteq decided'[c]
    BY DecidedGrows
  <1>2. present = {k} /\ ~late'
    BY DEF OneClient
  <1>3. CASE Announce \/ Wait
    <2>1. entry'.approved = "none" /\ Ran' = Ran
      BY <1>3 DEF Announce, Wait, Ran, IInv, EntryOfWaiting, NoEntry
    <2>2. Ran \subseteq Calls
      BY DEF Ran
    <2>. QED  BY <1>1, <2>1, <2>2 DEF Right
  <1>4. CASE Wake
    <2>1. /\ pc = "waiting" /\ Decided(entry.approved = "approved")
          /\ call \in Calls /\ outcome \in [Calls -> Decision]
      BY <1>4 DEF Wake, IInv, CallNumbered, TypeOK
    <2>2. /\ entry'.approved = "none" /\ decided' = decided
          /\ \A c \in Calls : c # call => outcome'[c] = outcome[c]
          /\ outcome'[call] = "approved" => entry.approved = "approved"
      BY <2>1 DEF Decided, NoEntry, users
    <2>3. \A c \in Ran' : c \in Ran \/ (c = call /\ entry.approved = "approved")
      BY <2>1, <2>2 DEF Ran
    <2>. QED  BY <2>2, <2>3 DEF Right
  <1>5. CASE TimeOut
    BY <1>2, <1>5 DEF TimeOut
  <1>6. ASSUME UNCHANGED <<entry, outcome, call>> PROVE Right(k)'
    <2>1. Ran' = Ran /\ Ran \subseteq Calls
      BY <1>6 DEF Ran
    <2>2. entry.approved # "none" => call \in Calls
      BY DEF IInv, CallNumbered, EntryOfWaiting, NoEntry
    <2>. QED  BY <1>1, <1>6, <2>1, <2>2 DEF Right
  <1>7. CASE Resolve(k)
    <2>1. /\ post[k].at = "auditing" /\ UNCHANGED <<outcome, call, decided>>
          /\ entry' = IF entry = NoEntry THEN entry
                                         ELSE [entry EXCEPT !.approved = post[k].approved]
          /\ entry \in [call : 0..MaxCalls, approved : Decision]
      BY <1>7 DEF Resolve, executor, users, IInv, TypeOK
    <2>2. entry'.approved # "none" => entry'.approved = post[k].approved
      BY <2>1 DEF NoEntry
    <2>3. Ran' = Ran
      BY <2>1 DEF Ran
    <2>. QED  BY <2>1, <2>2, <2>3 DEF Right, Sent
  <1>8. \/ Announce \/ Wait \/ Wake \/ TimeOut \/ Resolve(k)
        \/ UNCHANGED <<entry, outcome, call>>
    BY <1>2 DEF Next, vars, Finish, Hide, Show, Snapshot, Respond, Lookup, Decide, executor
  <1>. QED  BY <1>3, <1>4, <1>5, <1>6, <1>7, <1>8

(* The page: its buttons are enabled again only if the endpoint found      *)
(* nothing, so it is answered once, and that is the first call.            *)
LEMMA NextPage ==
  ASSUME IInv, [Next]_vars, OneClient("page"), OneClient("page")', Fresh \/ Spent
  PROVE  Fresh' \/ Spent'
  <1>. DEFINE p == "page"
  <1>1. present = {p} /\ p \in Clients /\ ~late'
    BY DEF OneClient, IInv, TypeOK
  <1>2. /\ post[p].at \in {"none", "sent", "auditing", "missing", "done"}
        /\ DOMAIN post = Clients /\ DOMAIN shown = Clients /\ DOMAIN post[p] = {"at", "approved"}
    BY <1>1 DEF IInv, TypeOK
  <1>3. pc # "waiting" => entry.approved = "none"
    BY DEF IInv, EntryOfWaiting, NoEntry
  <1>4. wire \in Seq(Calls) /\ Len(wire) \in Nat
    BY DEF IInv, TypeOK
  <1>5. CASE Announce
    <2>1. UNCHANGED <<post, buttons, shown, entry>> /\ call' = call + 1
      BY <1>5 DEF Announce, page
    <2>2. CASE Spent
      BY <2>1, <2>2 DEF Spent
    <2>3. CASE Fresh
      <3>1. call = 0 /\ pc' = "announced" /\ wire' = Append(wire, 1) /\ call' = 1
        BY <1>5, <2>3 DEF Announce, Fresh
      <3>2. \A i \in 1..Len(wire') : wire'[i] = 1
        BY <1>4, <2>3, <3>1 DEF Fresh
      <3>. QED  BY <2>1, <2>3, <3>1, <3>2 DEF Fresh, Sent
    <2>. QED  BY <2>2, <2>3
  <1>6. CASE Wait
    BY <1>6 DEF Wait, page, users, Fresh, Spent, Sent
  <1>7. CASE Wake
    <2>1. ~Fresh
      BY <1>7 DEF Wake, Fresh
    <2>. QED  BY <1>7, <2>1 DEF Wake, Decided, page, Spent
  <1>8. CASE TimeOut
    BY <1>1, <1>8 DEF TimeOut
  <1>9. CASE Finish
    BY <1>9 DEF Finish, page, users, Fresh, Spent, Sent
  <1>10. CASE Hide
    BY <1>1, <1>2, <1>10 DEF Hide, executor, users, Fresh, Spent, Sent
  <1>11. CASE Show(p)
    <2>1. /\ UNCHANGED <<pc, call, entry, buttons, post, decided>>
          /\ wire # <<>> /\ shown'[p] = Head(wire)
      BY <1>1, <1>2, <1>11 DEF Show, executor, users
    <2>2. CASE Spent
      BY <2>1, <2>2 DEF Spent
    <2>3. CASE Fresh
      <3>1. shown'[p] = 1 /\ call = 1
        BY <1>4, <2>1, <2>3 DEF Fresh
      <3>2. \A i \in 1..Len(wire') : wire'[i] = 1
        <4>1. PICK n \in 1..Len(wire) : wire' = SubSeq(wire, n + 1, Len(wire))
          BY <1>11 DEF Show
        <4>. QED  BY <1>4, <2>3, <4>1 DEF Fresh
      <3>. QED  BY <2>1, <2>3, <3>1, <3>2 DEF Fresh, Sent
    <2>. QED  BY <2>2, <2>3
  <1>12. CASE Snapshot(p)
    BY <1>12 DEF Snapshot
  <1>13. CASE Respond(p)
    <2>1. /\ UNCHANGED <<pc, call, entry, wire, decided>> /\ post'[p] = NoPost
          /\ post[p].at = "missing" \/ (post[p].at = "done" /\ UNCHANGED buttons)
      BY <1>1, <1>2, <1>13 DEF Respond, executor, users
    <2>2. shown' = shown
      BY <1>13 DEF Respond
    <2>. QED  BY <2>1, <2>2 DEF Fresh, Spent, Sent, NoPost
  <1>14. CASE Lookup(p)
    <2>1. /\ UNCHANGED <<pc, call, entry, wire, shown, buttons, decided>>
          /\ post[p].at = "sent" /\ post'[p].at \in {"missing", "auditing"}
          /\ post'[p].approved = post[p].approved
      BY <1>1, <1>2, <1>14 DEF Lookup, executor, page, users
    <2>. QED  BY <2>1 DEF Fresh, Spent, Sent
  <1>15. CASE Resolve(p)
    <2>1. UNCHANGED buttons /\ post[p].at = "auditing" /\ post'[p].at = "done"
      BY <1>1, <1>2, <1>15 DEF Resolve, page
    <2>. QED  BY <2>1 DEF Fresh, Spent, Sent
  <1>16. ASSUME NEW d \in {"approved", "rejected"}, Decide(p, d) PROVE Fresh' \/ Spent'
    <2>1. /\ UNCHANGED <<pc, call, entry, wire, shown>>
          /\ buttons /\ ~buttons' /\ shown[p] # NoCall
          /\ post'[p] = [at |-> "sent", approved |-> d]
      BY <1>1, <1>2, <1>16 DEF Decide, executor
    <2>2. Fresh
      BY <2>1 DEF Spent
    <2>3. shown[p] = 1 /\ call = 1 /\ 1 \in Calls
      BY <2>1, <2>2, HitlAssumption DEF Fresh, Calls
    <2>4. <<p, d>> \in decided'[1]
      <3>1. decided \in [Calls -> SUBSET (Clients \X Decision)]
        BY DEF IInv, TypeOK
      <3>. QED  BY <1>16, <2>3, <3>1 DEF Decide
    <2>. QED  BY <2>1, <2>2, <2>3, <2>4 DEF Fresh, Sent
  <1>17. CASE UNCHANGED vars
    BY <1>17 DEF vars, Fresh, Spent, Sent
  <1>. QED
    BY <1>1, <1>5, <1>6, <1>7, <1>8, <1>9, <1>10, <1>11, <1>12, <1>13, <1>14, <1>15, <1>16, <1>17
    DEF Next

(* The device: it only shows a call that waits, and that call waits for it.*)
LEMMA NextDevice ==
  ASSUME IInv, [Next]_vars, OneClient("device"), OneClient("device")', Right("device"), Pending
  PROVE  Pending'
  <1>. DEFINE v == "device"
  <1>1. present = {v} /\ v \in Clients /\ ~late'
    BY DEF OneClient, IInv, TypeOK
  <1>2. /\ post[v].at \in {"none", "sent", "auditing", "missing", "done"}
        /\ DOMAIN post = Clients /\ DOMAIN shown = Clients /\ DOMAIN post[v] = {"at", "approved"}
    BY <1>1 DEF IInv, TypeOK
  <1>3. IF pc = "waiting" THEN entry.call = call ELSE entry = NoEntry
    BY DEF IInv, EntryOfWaiting
  <1>4. CASE Announce \/ Wait \/ Finish
    BY <1>4 DEF Announce, Wait, Finish, page, users, Pending, Sent
  <1>5. CASE Wake
    BY <1>5 DEF Wake, Decided, page, users, Pending, Sent
  <1>6. CASE TimeOut
    BY <1>1, <1>6 DEF TimeOut
  <1>7. CASE Hide
    <2>1. UNCHANGED <<pc, call, entry, post, decided>> /\ shown'[v] = shown[v]
      BY <1>1, <1>2, <1>7 DEF Hide, executor, users
    <2>. QED  BY <2>1 DEF Pending, Sent
  <1>8. CASE Show(v)
    BY <1>8 DEF Show
  <1>9. CASE Snapshot(v)
    <2>1. /\ UNCHANGED <<pc, call, entry, post, decided>>
          /\ entry # NoEntry /\ shown'[v] = entry.call /\ shown[v] = NoCall
          /\ \A d \in Decision : <<v, d>> \notin decided[entry.call]
      BY <1>1, <1>2, <1>9 DEF Snapshot, executor, users
    <2>2. pc = "waiting" /\ entry.call = call
      BY <1>3, <2>1
    <2>3. entry.approved = "none"
      <3>1. entry.approved \in Decision
        BY DEF IInv, TypeOK
      <3>. QED  BY <2>1, <2>2, <3>1 DEF Right
    <2>. QED  BY <2>1, <2>2, <2>3 DEF Pending, Sent
  <1>10. CASE Respond(v)
    <2>1. shown'[v] = NoCall /\ post'[v] = NoPost
      BY <1>1, <1>2, <1>10 DEF Respond
    <2>. QED  BY <2>1 DEF Pending, Sent, NoPost
  <1>11. CASE Lookup(v)
    <2>1. /\ UNCHANGED <<pc, call, entry, shown, decided>> /\ post[v].at = "sent"
          /\ post'[v].at = (IF entry = NoEntry THEN "missing" ELSE "auditing")
          /\ post'[v].approved = post[v].approved
      BY <1>1, <1>2, <1>11 DEF Lookup, executor, users
    <2>2. shown[v] # NoCall /\ pc = "waiting" /\ entry.call = call /\ call \in Calls
      BY <1>3, <2>1 DEF Pending, Sent, IInv, CallNumbered
    <2>3. entry # NoEntry
      BY <2>2, HitlAssumption DEF NoEntry, NoCall, Calls
    <2>. QED  BY <2>1, <2>3 DEF Pending, Sent
  <1>12. CASE Resolve(v)
    <2>1. post'[v].at = "done"
      BY <1>1, <1>2, <1>12 DEF Resolve
    <2>. QED  BY <2>1 DEF Pending, Sent
  <1>13. ASSUME NEW d \in {"approved", "rejected"}, Decide(v, d) PROVE Pending'
    <2>1. /\ UNCHANGED <<pc, call, entry, shown>> /\ shown[v] # NoCall /\ post[v] = NoPost
          /\ post'[v] = [at |-> "sent", approved |-> d]
          /\ decided' = [decided EXCEPT ![shown[v]] = @ \cup {<<v, d>>}]
      BY <1>1, <1>2, <1>13 DEF Decide, executor
    <2>2. pc = "waiting" /\ entry.approved = "none" /\ shown[v] = call /\ call \in Calls
      BY <2>1 DEF Pending, NoPost, IInv, CallNumbered
    <2>3. <<v, d>> \in decided'[call]
      <3>1. decided \in [Calls -> SUBSET (Clients \X Decision)]
        BY DEF IInv, TypeOK
      <3>. QED  BY <2>1, <2>2, <3>1
    <2>. QED  BY <2>1, <2>2, <2>3 DEF Pending, Sent
  <1>14. CASE UNCHANGED vars
    BY <1>14 DEF vars, Pending, Sent
  <1>. QED
    BY <1>1, <1>4, <1>5, <1>6, <1>7, <1>8, <1>9, <1>10, <1>11, <1>12, <1>13, <1>14 DEF Next

LEMMA NextPromptInv ==
  ASSUME IInv, PromptInv, [Next]_vars
  PROVE  PromptInv'
  <1>1. \A k : OneClient(k)' => OneClient(k)
    BY DEF OneClient, Next, vars, Announce, Wait, Wake, TimeOut, Decided, Finish, Hide, Show,
           Snapshot, Respond, Lookup, Resolve, Decide, executor
  <1>2. ASSUME OneClient("page")' PROVE Right("page")' /\ (Fresh \/ Spent)'
    <2>1. OneClient("page") /\ Right("page") /\ (Fresh \/ Spent) /\ "page" \in Clients
      BY <1>1, <1>2 DEF PromptInv, OneClient, IInv, TypeOK
    <2>2. Sent("page") => <<"page", post["page"].approved>> \in decided[call]
      BY <2>1 DEF Fresh, Spent, Sent
    <2>. QED  BY <1>2, <2>1, <2>2, NextRight, NextPage
  <1>3. ASSUME OneClient("device")' PROVE Right("device")' /\ Pending'
    <2>1. OneClient("device") /\ Right("device") /\ Pending /\ "device" \in Clients
      BY <1>1, <1>3 DEF PromptInv, OneClient, IInv, TypeOK
    <2>. QED  BY <1>3, <2>1, NextRight, NextDevice DEF Pending
  <1>. QED  BY <1>2, <1>3 DEF PromptInv

(* approve_task, resolve and the modal: a single client that answers in    *)
(* time decides about the call it was shown and no other, for any number   *)
(* of calls.                                                               *)
THEOREM PromptAnswersAreRight == Spec => []PromptApprovalIsRight
  <1>1. Init => PromptInv
    <2>. SUFFICES ASSUME Init PROVE PromptInv
      OBVIOUS
    <2>1. /\ Ran = {} /\ entry.approved = "none" /\ call = 0 /\ wire = <<>> /\ Len(wire) = 0
          /\ \A k \in Clients : shown[k] = NoCall /\ post[k] = NoPost
      BY DEF Init, Ran, NoEntry, NoCall
    <2>2. ASSUME NEW k, OneClient(k) PROVE k \in Clients
      BY <2>2 DEF Init, OneClient
    <2>. QED  BY <2>1, <2>2 DEF Init, PromptInv, Right, Fresh, Pending, Sent, NoPost
  <1>2. IInv /\ PromptInv => PromptApprovalIsRight
    <2>. SUFFICES ASSUME IInv, PromptInv, ~late, Cardinality(present) = 1
                  PROVE  RunsWhatWasApproved
      BY DEF PromptApprovalIsRight
    <2>1. PICK k : present = {k}
      <3>1. IsFiniteSet(present)
        <4>1. present \in SUBSET {"page", "device"}
          BY HitlAssumption DEF IInv, TypeOK
        <4>2. IsFiniteSet({"page"}) /\ IsFiniteSet({"page"} \cup {"device"})
          BY FS_Singleton, FS_AddElement
        <4>3. {"page", "device"} = {"page"} \cup {"device"}
          OBVIOUS
        <4>4. IsFiniteSet({"page", "device"})
          BY <4>2, <4>3
        <4>. QED  BY <4>1, <4>4, FS_Subset
      <3>. QED  BY <3>1, FS_Singleton
    <2>2. k \in Clients /\ k \in {"page", "device"}
      BY <2>1, HitlAssumption DEF IInv, TypeOK
    <2>3. Right(k)
      BY <2>1, <2>2 DEF PromptInv, OneClient
    <2>. QED  BY <2>2, <2>3 DEF Right, RunsWhatWasApproved
  <1>. QED  BY <1>1, <1>2, InitIInv, NextIInv, NextPromptInv, PTL DEF Spec
=============================================================================
