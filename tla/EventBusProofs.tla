--------------------------- MODULE EventBusProofs ---------------------------
(***************************************************************************)
(* Theorems about EventBus, for any number of events, any event types and  *)
(* any length of the deque.                                                *)
(***************************************************************************)
EXTENDS EventBus, SequenceTheorems, TLAPS

(* What Put does to the three variables it changes.                        *)
LEMMA PutProperties ==
  ASSUME TypeOK, NEW t \in EventType, Put(t)
  PROVE  /\ log' \in Seq(EventType) /\ Len(log') = Len(log) + 1
         /\ \A e \in 1..Len(log) : log'[e] = log[e]
         /\ asOf' \in Seq(Nat) /\ Len(asOf') = Len(log) + 1
         /\ \A e \in 1..Len(log) : asOf'[e] = asOf[e]
         /\ asOf'[Len(log) + 1] = Len(taken)
         /\ queue' = queue \cup {Len(log) + 1}
  BY DEF TypeOK, Put

(* What Take does to the order and the deque.                              *)
LEMMA TakeProperties ==
  ASSUME TypeOK, NEW e \in queue, Take(e)
  PROVE  /\ taken' \in Seq(1..Len(log)) /\ Len(taken') = Len(taken) + 1
         /\ \A i \in 1..Len(taken) : taken'[i] = taken[i]
         /\ taken'[Len(taken) + 1] = e
         /\ recent' = Remember(e)
         /\ queue' = queue \ {e}
         /\ UNCHANGED <<log, asOf, handlers, running, got>>
  BY DEF TypeOK, Take

Silent ==
  UNCHANGED <<log, queue, recent, taken, audience, asOf, got>>

(* The ways in which a step of the bus touches events.                     *)
LEMMA NextCases ==
  ASSUME TypeOK, [Next]_vars
  PROVE  \/ Silent
         \/ \E t \in EventType : Put(t) /\ UNCHANGED <<recent, taken, audience, got>>
         \/ \E e \in queue : Take(e)
         \/ \E h \in Handlers : HandlerEnds(h)
  <1>. USE EventBusAssumption
  <1>1. CASE \E t \in Types : Emit(t)
    BY <1>1 DEF Emit, history
  <1>2. CASE \E e \in queue : Take(e)
    BY <1>2
  <1>3. CASE \E h \in Handlers : HandlerEnds(h)
    BY <1>3
  <1>4. CASE \E h \in Handlers : Subscribe(h)
    BY <1>4 DEF Subscribe, history, Silent
  <1>5. CASE Start \/ Stop \/ Timeout \/ Gathered \/ Cancel
    BY <1>5 DEF Start, Stop, Timeout, Gathered, Cancel, history, Silent
  <1>6. CASE UNCHANGED vars
    BY <1>6 DEF vars, Silent
  <1>. QED  BY <1>1, <1>2, <1>3, <1>4, <1>5, <1>6 DEF Next

-----------------------------------------------------------------------------
(* Type correctness.                                                       *)

LEMMA InitTypeOK == Init => TypeOK
  <1>. SUFFICES ASSUME Init PROVE TypeOK
    OBVIOUS
  <1>1. \A S : <<>> \in Seq(S) /\ Len(<<>>) = 0
    BY EmptySeq
  <1>2. <<>> \in [1..0 -> SUBSET Handlers]
    BY <1>1, LenProperties
  <1>3. {taken[i] : i \in 1..Len(taken)} = 1..0
    BY <1>1 DEF Init
  <1>4. got \in [Handlers -> Seq(1..Len(log))]
    BY <1>1 DEF Init
  <1>5. log \in Seq(EventType) /\ asOf \in Seq(Nat) /\ Len(asOf) = Len(log)
    BY <1>1 DEF Init
  <1>6. taken \in Seq(1..Len(log)) /\ recent \in Seq(1..Len(log)) /\ Len(recent) <= RecentLen
    BY <1>1, EventBusAssumption DEF Init
  <1>7. audience \in [{taken[i] : i \in 1..Len(taken)} -> SUBSET Handlers]
    BY <1>2, <1>3 DEF Init
  <1>8. /\ queue \in SUBSET (1..Len(log)) /\ handlers \in [EventType -> SUBSET Handlers]
        /\ running \in BOOLEAN /\ loop \in {"new", "idle", "gathering", "off"}
        /\ awaiting \in SUBSET Handlers
    BY DEF Init
  <1>. QED  BY <1>4, <1>5, <1>6, <1>7, <1>8 DEF TypeOK

LEMMA PutKeepsTypes ==
  ASSUME TypeOK, NEW t \in EventType, Put(t)
  PROVE  /\ queue' \in SUBSET (1..Len(log'))
         /\ \A s \in Seq(1..Len(log)) : s \in Seq(1..Len(log'))
  <1>0. Len(log) \in Nat /\ Len(log') = Len(log) + 1
    BY PutProperties, LenProperties DEF TypeOK
  <1>1. 1..Len(log) \subseteq 1..Len(log')
    BY <1>0
  <1>2. queue' \in SUBSET (1..Len(log'))
    <2>1. Len(log) + 1 \in 1..Len(log')
      BY <1>0
    <2>2. queue \subseteq 1..Len(log)
      BY DEF TypeOK
    <2>3. queue' = queue \cup {Len(log) + 1}
      BY DEF Put
    <2>. QED  BY <1>1, <2>1, <2>2, <2>3
  <1>. QED  BY <1>1, <1>2, SeqMonotonic

LEMMA RememberType ==
  ASSUME TypeOK, NEW e \in 1..Len(log)
  PROVE  Remember(e) \in Seq(1..Len(log)) /\ Len(Remember(e)) <= RecentLen
  <1>1. recent \in Seq(1..Len(log)) /\ Len(recent) <= RecentLen /\ RecentLen \in Nat \ {0}
    BY EventBusAssumption DEF TypeOK
  <1>2. Len(recent) \in Nat
    BY <1>1, LenProperties
  <1>3. CASE Len(recent) < RecentLen
    BY <1>1, <1>2, <1>3, AppendProperties DEF Remember
  <1>4. CASE ~(Len(recent) < RecentLen)
    <2>1. recent # <<>>
      BY <1>1, <1>2, <1>4, EmptySeq
    <2>2. Tail(recent) \in Seq(1..Len(log)) /\ Len(Tail(recent)) = Len(recent) - 1
      BY <1>1, <2>1, HeadTailProperties
    <2>3. /\ Append(Tail(recent), e) \in Seq(1..Len(log))
          /\ Len(Append(Tail(recent), e)) = Len(Tail(recent)) + 1
      BY <2>2, AppendProperties
    <2>. QED  BY <1>1, <1>2, <1>4, <2>2, <2>3 DEF Remember
  <1>. QED  BY <1>3, <1>4

LEMMA TakenRange ==
  ASSUME TypeOK, NEW e \in queue, Take(e)
  PROVE  /\ Len(taken) \in Nat
         /\ \A i \in 1..Len(taken') : i \in 1..Len(taken) \/ i = Len(taken) + 1
         /\ {taken'[i] : i \in 1..Len(taken')} = {taken[i] : i \in 1..Len(taken)} \cup {e}
  <1>. USE TakeProperties
  <1>1. Len(taken) \in Nat
    BY LenProperties DEF TypeOK
  <1>2. \A i \in 1..Len(taken) : i \in 1..Len(taken') /\ taken'[i] = taken[i]
    BY <1>1
  <1>3. \A i \in 1..Len(taken') : i \in 1..Len(taken) \/ i = Len(taken) + 1
    BY <1>1
  <1>4. Len(taken) + 1 \in 1..Len(taken') /\ taken'[Len(taken) + 1] = e
    BY <1>1
  <1>. QED  BY <1>1, <1>2, <1>3, <1>4

LEMMA TakeKeepsTypeOK ==
  ASSUME TypeOK, NEW e \in queue, Take(e)
  PROVE  TypeOK'
  <1>. USE TakeProperties
  <1>1. e \in 1..Len(log)
    BY DEF TypeOK
  <1>2. recent' \in Seq(1..Len(log)) /\ Len(recent') <= RecentLen
    BY <1>1, RememberType
  <1>3. {taken'[i] : i \in 1..Len(taken')} = {taken[i] : i \in 1..Len(taken)} \cup {e}
    BY TakenRange
  <1>4. audience' \in [{taken'[i] : i \in 1..Len(taken')} -> SUBSET Handlers]
    <2>1. audience \in [{taken[i] : i \in 1..Len(taken)} -> SUBSET Handlers]
      BY DEF TypeOK
    <2>2. handlers[log[e]] \in SUBSET Handlers
      BY <1>1 DEF TypeOK
    <2>3. audience' = [x \in DOMAIN audience \cup {e} |->
                         IF x = e THEN handlers[log[e]] ELSE audience[x]]
      BY DEF Take
    <2>4. DOMAIN audience \cup {e} = {taken'[i] : i \in 1..Len(taken')}
      BY <2>1, <1>3
    <2>5. \A x \in DOMAIN audience : audience[x] \in SUBSET Handlers
      BY <2>1
    <2>. QED  BY <2>2, <2>3, <2>4, <2>5
  <1>5. awaiting' \in SUBSET Handlers /\ loop' \in {"new", "idle", "gathering", "off"}
    BY <1>1 DEF TypeOK, Take, Top
  <1>6. queue' \in SUBSET (1..Len(log))
    BY DEF TypeOK
  <1>. QED  BY <1>2, <1>4, <1>5, <1>6 DEF TypeOK

LEMMA HandlerKeepsTypeOK ==
  ASSUME TypeOK, NEW h \in Handlers, HandlerEnds(h), loop = "gathering" => taken # <<>>
  PROVE  TypeOK'
  <1>1. Current \in 1..Len(log)
    BY DEF HandlerEnds, TypeOK, Current
  <1>2. got' \in [Handlers -> Seq(1..Len(log))]
    BY <1>1 DEF HandlerEnds, TypeOK
  <1>3. CASE UNCHANGED <<log, asOf, queue>>
    BY <1>2, <1>3 DEF HandlerEnds, TypeOK, history
  <1>4. CASE Put("TASK_REQUEST")
    <2>1. "TASK_REQUEST" \in EventType
      BY DEF EventType
    <2>2. \A s \in Seq(1..Len(log)) : s \in Seq(1..Len(log'))
      BY <1>4, <2>1, PutKeepsTypes
    <2>3. got' \in [Handlers -> Seq(1..Len(log'))]
      <3>1. \A k \in Handlers : got'[k] \in Seq(1..Len(log'))
        BY <1>2, <2>2
      <3>. QED  BY <1>2, <3>1
    <2>4. /\ log' \in Seq(EventType) /\ asOf' \in Seq(Nat) /\ Len(asOf') = Len(log')
          /\ queue' \in SUBSET (1..Len(log'))
      BY <1>4, <2>1, PutKeepsTypes, PutProperties
    <2>5. /\ recent' \in Seq(1..Len(log')) /\ Len(recent') <= RecentLen
          /\ taken' \in Seq(1..Len(log'))
      BY <2>2 DEF HandlerEnds, TypeOK, history
    <2>6. audience' \in [{taken'[i] : i \in 1..Len(taken')} -> SUBSET Handlers]
      BY DEF HandlerEnds, TypeOK, history
    <2>7. /\ handlers' \in [EventType -> SUBSET Handlers]
          /\ running' \in BOOLEAN /\ loop' \in {"new", "idle", "gathering", "off"}
          /\ awaiting' \in SUBSET Handlers
      BY DEF HandlerEnds, TypeOK
    <2>. QED  BY <2>3, <2>4, <2>5, <2>6, <2>7 DEF TypeOK
  <1>. QED  BY <1>3, <1>4 DEF HandlerEnds

(* What gather() waits for are handlings of the event taken last.          *)
GatherOfCurrent ==
  /\ loop = "gathering" => taken # <<>>
  /\ loop # "gathering" => awaiting = {}

BusInv == TypeOK /\ GatherOfCurrent

LEMMA NextBusInv ==
  ASSUME BusInv, [Next]_vars
  PROVE  BusInv'
  <1>. USE EventBusAssumption DEF BusInv
  <1>1. ASSUME NEW t \in Types, Emit(t) PROVE BusInv'
    <2>1. \A s \in Seq(1..Len(log)) : s \in Seq(1..Len(log'))
      BY <1>1, PutKeepsTypes DEF Emit
    <2>2. got' \in [Handlers -> Seq(1..Len(log'))]
      <3>1. got \in [Handlers -> Seq(1..Len(log))] /\ got' = got
        BY <1>1 DEF Emit, TypeOK
      <3>2. \A k \in Handlers : got[k] \in Seq(1..Len(log'))
        BY <2>1, <3>1
      <3>. QED  BY <3>1, <3>2
    <2>. QED
      BY <1>1, <2>1, <2>2, PutKeepsTypes, PutProperties
      DEF Emit, TypeOK, GatherOfCurrent, history
  <1>2. ASSUME NEW e \in queue, Take(e) PROVE BusInv'
    <2>1. TypeOK'
      BY <1>2, TakeKeepsTypeOK
    <2>2. taken' # <<>>
      <3>1. /\ taken \in Seq(1..Len(log)) /\ taken' \in Seq(1..Len(log))
            /\ Len(taken') = Len(taken) + 1
        BY <1>2, TakeProperties DEF TypeOK
      <3>2. Len(taken) \in Nat /\ Len(<<>>) = 0
        BY <3>1, LenProperties, EmptySeq
      <3>. QED  BY <3>1, <3>2
    <2>. QED  BY <1>2, <2>1, <2>2 DEF Take, Top, GatherOfCurrent
  <1>3. ASSUME NEW h \in Handlers, HandlerEnds(h) PROVE BusInv'
    BY <1>3, HandlerKeepsTypeOK DEF HandlerEnds, GatherOfCurrent, history
  <1>4. ASSUME NEW h \in Handlers, Subscribe(h) PROVE BusInv'
    BY <1>4 DEF Subscribe, TypeOK, GatherOfCurrent, history
  <1>5. CASE Start \/ Stop \/ Timeout \/ Gathered \/ Cancel
    BY <1>5 DEF Start, Stop, Timeout, Gathered, Cancel, Top, TypeOK, GatherOfCurrent, history
  <1>6. CASE UNCHANGED vars
    BY <1>6 DEF vars, TypeOK, GatherOfCurrent
  <1>. QED  BY <1>1, <1>2, <1>3, <1>4, <1>5, <1>6 DEF Next

(* The types of the bus, and with them the bound of the recent events, for *)
(* any length of the deque.                                                *)
THEOREM BusTypes == Spec => []TypeOK
  <1>1. Init => BusInv
    BY InitTypeOK DEF Init, BusInv, GatherOfCurrent
  <1>. QED  BY <1>1, NextBusInv, PTL DEF Spec, BusInv

-----------------------------------------------------------------------------
(* Every event is on the queue or has been taken, at one place.            *)

LEMMA PutKeepsNoneLost ==
  ASSUME TypeOK, NoneLost, NEW t \in EventType, Put(t), UNCHANGED taken
  PROVE  NoneLost'
  <1>1. Len(log) \in Nat /\ Len(log') = Len(log) + 1 /\ queue' = queue \cup {Len(log) + 1}
    BY PutProperties, LenProperties DEF TypeOK
  <1>2. \A i \in 1..Len(taken) : taken[i] \in 1..Len(log)
    BY ElementOfSeq DEF TypeOK
  <1>3. 1..Len(log') = (1..Len(log)) \cup {Len(log) + 1}
    BY <1>1
  <1>4. Len(log) + 1 \notin {taken[i] : i \in 1..Len(taken)}
    BY <1>1, <1>2
  <1>. QED  BY <1>1, <1>3, <1>4 DEF NoneLost

LEMMA TakeKeepsNoneLost ==
  ASSUME TypeOK, NoneLost, NEW e \in queue, Take(e)
  PROVE  NoneLost'
  <1>1. queue' = (1..Len(log')) \ {taken'[i] : i \in 1..Len(taken')}
    BY TakenRange, TakeProperties DEF NoneLost
  <1>2. \A i \in 1..Len(taken) : taken[i] # e
    BY DEF NoneLost
  <1>3. ASSUME NEW i \in 1..Len(taken'), NEW j \in 1..Len(taken'), taken'[i] = taken'[j]
        PROVE  i = j
    BY <1>2, <1>3, TakenRange, TakeProperties DEF NoneLost
  <1>. QED  BY <1>1, <1>3 DEF NoneLost

LEMMA NextNoneLost ==
  ASSUME BusInv, NoneLost, [Next]_vars
  PROVE  NoneLost'
  <1>. USE DEF BusInv
  <1>1. CASE Silent
    BY <1>1 DEF Silent, NoneLost
  <1>2. CASE \E t \in EventType : Put(t) /\ UNCHANGED <<recent, taken, audience, got>>
    BY <1>2, PutKeepsNoneLost
  <1>3. CASE \E e \in queue : Take(e)
    BY <1>3, TakeKeepsNoneLost
  <1>4. ASSUME NEW h \in Handlers, HandlerEnds(h) PROVE NoneLost'
    <2>1. UNCHANGED taken /\ (Put("TASK_REQUEST") \/ UNCHANGED <<log, asOf, queue>>)
      BY <1>4 DEF HandlerEnds, history
    <2>2. "TASK_REQUEST" \in EventType
      BY DEF EventType
    <2>. QED  BY <2>1, <2>2, PutKeepsNoneLost DEF NoneLost
  <1>. QED  BY <1>1, <1>2, <1>3, <1>4, NextCases

(* No emitted event is lost and none is dispatched twice, however many are *)
(* emitted and whatever their types.                                       *)
THEOREM NoEventLost == Spec => []NoneLost
  <1>1. Init => BusInv
    BY InitTypeOK DEF Init, BusInv, GatherOfCurrent
  <1>2. Init => NoneLost
    <2>. SUFFICES ASSUME Init PROVE NoneLost
      OBVIOUS
    <2>1. Len(<<>>) = 0
      BY EmptySeq
    <2>2. 1..Len(log) = {} /\ 1..Len(taken) = {} /\ queue = {}
      BY <2>1 DEF Init
    <2>. QED  BY <2>2 DEF NoneLost
  <1>. QED  BY <1>1, <1>2, NextBusInv, NextNoneLost, PTL DEF Spec

-----------------------------------------------------------------------------
(* Urgency.  A waiting event has only been overtaken by events that go     *)
(* before it, since it was emitted.                                        *)

WaitingTheirTurn ==
  /\ \A e \in 1..Len(log) : asOf[e] <= Len(taken)
  /\ \A q \in queue, i \in 1..Len(taken) : asOf[q] < i => Before(taken[i], q)

LEMMA PutKeepsTurns ==
  ASSUME TypeOK, WaitingTheirTurn, NEW t \in EventType, Put(t), UNCHANGED taken
  PROVE  WaitingTheirTurn'
  <1>1. Len(log) \in Nat /\ Len(taken) \in Nat /\ Len(log') = Len(log) + 1
    BY PutProperties, LenProperties DEF TypeOK
  <1>2. ASSUME NEW e \in 1..Len(log') PROVE asOf'[e] <= Len(taken')
    <2>1. CASE e \in 1..Len(log)
      BY <2>1, PutProperties DEF WaitingTheirTurn
    <2>2. CASE e = Len(log) + 1
      BY <1>1, <2>2, PutProperties
    <2>. QED  BY <1>1, <2>1, <2>2
  <1>3. ASSUME NEW q \in queue', NEW i \in 1..Len(taken'), asOf'[q] < i
        PROVE  Before(taken[i], q)'
    <2>1. CASE q \in queue
      <3>1. q \in 1..Len(log) /\ taken[i] \in 1..Len(log)
        BY <2>1, ElementOfSeq DEF TypeOK
      <3>2. Before(taken[i], q)
        BY <1>3, <2>1, <3>1, PutProperties DEF WaitingTheirTurn
      <3>3. log'[q] = log[q] /\ log'[taken[i]] = log[taken[i]]
        BY <3>1, PutProperties
      <3>. QED  BY <3>2, <3>3 DEF Before
    <2>2. CASE q = Len(log) + 1
      BY <1>1, <1>3, <2>2, PutProperties
    <2>. QED  BY <2>1, <2>2, PutProperties
  <1>. QED  BY <1>2, <1>3 DEF WaitingTheirTurn

LEMMA TakeKeepsTurns ==
  ASSUME TypeOK, WaitingTheirTurn, NEW e \in queue, Take(e)
  PROVE  WaitingTheirTurn'
  <1>. USE TakeProperties, TakenRange
  <1>1. \A d \in 1..Len(log) : asOf[d] \in Nat
    BY ElementOfSeq DEF TypeOK
  <1>2. \A d \in 1..Len(log') : asOf'[d] <= Len(taken')
    BY <1>1 DEF WaitingTheirTurn
  <1>3. ASSUME NEW q \in queue', NEW i \in 1..Len(taken'), asOf'[q] < i
        PROVE  Before(taken[i], q)'
    <2>1. q \in queue \ {e} /\ log' = log /\ asOf' = asOf
      OBVIOUS
    <2>2. CASE i \in 1..Len(taken)
      <3>1. Before(taken[i], q) /\ taken'[i] = taken[i]
        BY <1>3, <2>1, <2>2 DEF WaitingTheirTurn
      <3>. QED  BY <2>1, <3>1 DEF Before
    <2>3. CASE i = Len(taken) + 1
      <3>1. Before(e, q) /\ taken'[i] = e
        BY <2>1, <2>3 DEF Take
      <3>. QED  BY <2>1, <3>1 DEF Before
    <2>. QED  BY <2>2, <2>3
  <1>. QED  BY <1>2, <1>3 DEF WaitingTheirTurn

LEMMA TakeKeepsUrgentFirst ==
  ASSUME TypeOK, WaitingTheirTurn, UrgentFirst, NEW e \in queue, Take(e)
  PROVE  UrgentFirst'
  <1>. USE TakeProperties, TakenRange
  <1>1. ASSUME NEW i \in 1..Len(taken'), NEW j \in 1..Len(taken'),
               i < j, asOf'[taken'[j]] < i
        PROVE  Before(taken[i], taken[j])'
    <2>1. i \in 1..Len(taken) /\ taken'[i] = taken[i] /\ log' = log /\ asOf' = asOf
      BY <1>1
    <2>2. CASE j \in 1..Len(taken)
      <3>1. taken'[j] = taken[j]
        BY <2>2
      <3>. QED  BY <1>1, <2>1, <2>2, <3>1 DEF UrgentFirst, Before
    <2>3. CASE j = Len(taken) + 1
      <3>1. taken'[j] = e
        BY <2>3
      <3>2. Before(taken[i], e)
        BY <1>1, <2>1, <3>1 DEF WaitingTheirTurn
      <3>. QED  BY <2>1, <3>1, <3>2 DEF Before
    <2>. QED  BY <2>2, <2>3
  <1>. QED  BY <1>1 DEF UrgentFirst, Before

LEMMA PutKeepsUrgentFirst ==
  ASSUME TypeOK, UrgentFirst, NEW t \in EventType, Put(t), UNCHANGED taken
  PROVE  UrgentFirst'
  <1>1. \A i \in 1..Len(taken) : taken[i] \in 1..Len(log)
    BY ElementOfSeq DEF TypeOK
  <1>2. \A i \in 1..Len(taken) :
          log'[taken[i]] = log[taken[i]] /\ asOf'[taken[i]] = asOf[taken[i]]
    BY <1>1, PutProperties
  <1>. QED  BY <1>2 DEF UrgentFirst

LEMMA NextUrgentFirst ==
  ASSUME BusInv, WaitingTheirTurn, UrgentFirst, [Next]_vars
  PROVE  WaitingTheirTurn' /\ UrgentFirst'
  <1>. USE DEF BusInv
  <1>1. CASE Silent
    BY <1>1 DEF Silent, WaitingTheirTurn, UrgentFirst, Before
  <1>2. CASE \E t \in EventType : Put(t) /\ UNCHANGED <<recent, taken, audience, got>>
    BY <1>2, PutKeepsTurns, PutKeepsUrgentFirst
  <1>3. CASE \E e \in queue : Take(e)
    BY <1>3, TakeKeepsTurns, TakeKeepsUrgentFirst
  <1>4. ASSUME NEW h \in Handlers, HandlerEnds(h) PROVE WaitingTheirTurn' /\ UrgentFirst'
    <2>1. UNCHANGED taken /\ (Put("TASK_REQUEST") \/ UNCHANGED <<log, asOf, queue>>)
      BY <1>4 DEF HandlerEnds, history
    <2>2. "TASK_REQUEST" \in EventType
      BY DEF EventType
    <2>3. CASE UNCHANGED <<log, asOf, queue>>
      BY <2>1, <2>3 DEF WaitingTheirTurn, UrgentFirst, Before
    <2>. QED  BY <2>1, <2>2, <2>3, PutKeepsTurns, PutKeepsUrgentFirst
  <1>. QED  BY <1>1, <1>2, <1>3, <1>4, NextCases

(* Among events that wait together the more urgent is dispatched first,    *)
(* and the older of equals, for any number of events.                      *)
THEOREM UrgentBeforeRoutine == Spec => []UrgentFirst
  <1>1. Init => BusInv
    BY InitTypeOK DEF Init, BusInv, GatherOfCurrent
  <1>2. Init => WaitingTheirTurn /\ UrgentFirst
    <2>. SUFFICES ASSUME Init PROVE WaitingTheirTurn /\ UrgentFirst
      OBVIOUS
    <2>1. Len(<<>>) = 0
      BY EmptySeq
    <2>2. 1..Len(log) = {} /\ 1..Len(taken) = {} /\ queue = {}
      BY <2>1 DEF Init
    <2>. QED  BY <2>2 DEF WaitingTheirTurn, UrgentFirst
  <1>. QED  BY <1>1, <1>2, NextBusInv, NextUrgentFirst, PTL DEF Spec

-----------------------------------------------------------------------------
(* The recent events, element by element.                                  *)

RecentMatches ==
  /\ Len(recent) = IF Len(taken) <= RecentLen THEN Len(taken) ELSE RecentLen
  /\ \A k \in 1..Len(recent) : recent[k] = taken[Len(taken) - Len(recent) + k]

LEMMA TakeKeepsRecent ==
  ASSUME TypeOK, RecentMatches, NEW e \in queue, Take(e)
  PROVE  RecentMatches'
  <1>. USE EventBusAssumption
  <1>1. /\ recent \in Seq(1..Len(log)) /\ Len(recent) \in Nat /\ e \in 1..Len(log)
        /\ Len(taken) \in Nat /\ RecentLen \in Nat \ {0}
    BY LenProperties DEF TypeOK
  <1>2. /\ Len(taken') = Len(taken) + 1 /\ recent' = Remember(e)
        /\ taken'[Len(taken) + 1] = e
        /\ \A i \in 1..Len(taken) : taken'[i] = taken[i]
    BY TakeProperties
  <1>3. CASE Len(recent) < RecentLen
    <2>1. /\ Len(recent') = Len(recent) + 1 /\ recent'[Len(recent) + 1] = e
          /\ \A k \in 1..Len(recent) : recent'[k] = recent[k]
      BY <1>1, <1>2, <1>3, AppendProperties DEF Remember
    <2>2. Len(recent) = Len(taken)
      BY <1>1, <1>3 DEF RecentMatches
    <2>3. ASSUME NEW k \in 1..Len(recent')
          PROVE  recent'[k] = taken'[Len(taken') - Len(recent') + k]
      <3>1. Len(taken') - Len(recent') + k = k
        BY <1>1, <1>2, <2>1, <2>2
      <3>2. CASE k \in 1..Len(recent)
        <4>1. recent[k] = taken[k] /\ k \in 1..Len(taken)
          BY <1>1, <2>2, <3>2 DEF RecentMatches
        <4>. QED  BY <1>2, <2>1, <3>1, <3>2, <4>1
      <3>3. CASE k = Len(recent) + 1
        BY <1>2, <2>1, <2>2, <3>1, <3>3
      <3>. QED  BY <1>1, <2>1, <3>2, <3>3
    <2>4. Len(recent') = IF Len(taken') <= RecentLen THEN Len(taken') ELSE RecentLen
      BY <1>1, <1>2, <1>3, <2>1, <2>2
    <2>. QED  BY <2>3, <2>4 DEF RecentMatches
  <1>4. CASE ~(Len(recent) < RecentLen)
    <2>1. Len(recent) = RecentLen /\ RecentLen <= Len(taken)
      BY <1>1, <1>4 DEF RecentMatches
    <2>2. recent # <<>>
      BY <1>1, <2>1, EmptySeq
    <2>3. /\ Tail(recent) \in Seq(1..Len(log)) /\ Len(Tail(recent)) = Len(recent) - 1
          /\ \A k \in 1..Len(recent) - 1 : Tail(recent)[k] = recent[k + 1]
      BY <1>1, <2>2, HeadTailProperties
    <2>4. recent' = Append(Tail(recent), e)
      BY <1>2, <1>4 DEF Remember
    <2>5. /\ Len(recent') = Len(recent) /\ recent'[Len(recent)] = e
          /\ \A k \in 1..Len(recent) - 1 : recent'[k] = Tail(recent)[k]
      <3>1. /\ Len(recent') = Len(Tail(recent)) + 1
            /\ recent'[Len(Tail(recent)) + 1] = e
            /\ \A k \in 1..Len(Tail(recent)) : recent'[k] = Tail(recent)[k]
        BY <1>1, <2>3, <2>4, AppendProperties
      <3>2. Len(Tail(recent)) + 1 = Len(recent)
        BY <1>1, <2>3
      <3>. QED  BY <2>3, <3>1, <3>2
    <2>6. ASSUME NEW k \in 1..Len(recent')
          PROVE  recent'[k] = taken'[Len(taken') - Len(recent') + k]
      <3>1. CASE k \in 1..Len(recent) - 1
        <4>1. recent'[k] = recent[k + 1] /\ k + 1 \in 1..Len(recent)
          BY <1>1, <2>3, <2>5, <3>1
        <4>2. recent[k + 1] = taken[Len(taken) - Len(recent) + (k + 1)]
          BY <4>1 DEF RecentMatches
        <4>3. /\ Len(taken') - Len(recent') + k = Len(taken) - Len(recent) + (k + 1)
              /\ Len(taken) - Len(recent) + (k + 1) \in 1..Len(taken)
          BY <1>1, <1>2, <2>1, <2>5, <3>1
        <4>. QED  BY <1>2, <4>1, <4>2, <4>3
      <3>2. CASE k = Len(recent)
        <4>1. Len(taken') - Len(recent') + k = Len(taken) + 1
          BY <1>1, <1>2, <2>5, <3>2
        <4>. QED  BY <1>2, <2>5, <3>2, <4>1
      <3>. QED  BY <1>1, <2>5, <3>1, <3>2
    <2>7. Len(recent') = IF Len(taken') <= RecentLen THEN Len(taken') ELSE RecentLen
      BY <1>1, <1>2, <2>1, <2>5
    <2>. QED  BY <2>6, <2>7 DEF RecentMatches
  <1>. QED  BY <1>3, <1>4

LEMMA NextRecentMatches ==
  ASSUME BusInv, RecentMatches, [Next]_vars
  PROVE  RecentMatches'
  <1>. USE DEF BusInv
  <1>1. CASE Silent
    BY <1>1 DEF Silent, RecentMatches
  <1>2. CASE \E t \in EventType : Put(t) /\ UNCHANGED <<recent, taken, audience, got>>
    BY <1>2 DEF RecentMatches
  <1>3. CASE \E e \in queue : Take(e)
    BY <1>3, TakeKeepsRecent
  <1>4. CASE \E h \in Handlers : HandlerEnds(h)
    BY <1>4 DEF HandlerEnds, history, RecentMatches
  <1>. QED  BY <1>1, <1>2, <1>3, <1>4, NextCases

LEMMA RecentMatchesIsLatest ==
  ASSUME TypeOK, RecentMatches
  PROVE  RecentIsLatest
  <1>. DEFINE first == IF Len(taken) > RecentLen THEN Len(taken) - RecentLen + 1 ELSE 1
              last == SubSeq(taken, first, Len(taken))
  <1>1. /\ recent \in Seq(1..Len(log)) /\ Len(recent) \in Nat
        /\ taken \in Seq(1..Len(log)) /\ Len(taken) \in Nat /\ RecentLen \in Nat \ {0}
    BY LenProperties, EventBusAssumption DEF TypeOK
  <1>2. first \in 1..Len(taken) + 1 /\ Len(taken) - first + 1 = Len(recent)
    <2>1. Len(recent) = IF Len(taken) <= RecentLen THEN Len(taken) ELSE RecentLen
      BY DEF RecentMatches
    <2>2. CASE Len(taken) > RecentLen
      <3>1. first = Len(taken) - RecentLen + 1
        BY <2>2
      <3>2. Len(recent) = RecentLen
        BY <1>1, <2>1, <2>2
      <3>. HIDE DEF first
      <3>. QED  BY <1>1, <2>2, <3>1, <3>2
    <2>3. CASE ~(Len(taken) > RecentLen)
      <3>1. first = 1
        BY <2>3
      <3>2. Len(recent) = Len(taken)
        BY <1>1, <2>1, <2>3
      <3>. HIDE DEF first
      <3>. QED  BY <1>1, <3>1, <3>2
    <2>. QED  BY <2>2, <2>3
  <1>3. \A i \in first..Len(taken) : taken[i] \in 1..Len(log)
    BY <1>1, <1>2, ElementOfSeq
  <1>4. /\ last \in Seq(1..Len(log))
        /\ Len(last) = IF first <= Len(taken) THEN Len(taken) - first + 1 ELSE 0
        /\ \A k \in 1..Len(taken) - first + 1 : last[k] = taken[first + k - 1]
    <2>. HIDE DEF first
    <2>. QED  BY <1>1, <1>2, <1>3, SubSeqProperties
  <1>5. Len(last) = Len(recent)
    <2>. HIDE DEF first, last
    <2>. QED  BY <1>1, <1>2, <1>4
  <1>6. ASSUME NEW k \in 1..Len(recent) PROVE recent[k] = last[k]
    <2>. HIDE DEF first, last
    <2>1. recent[k] = taken[Len(taken) - Len(recent) + k]
      BY DEF RecentMatches
    <2>2. Len(taken) - Len(recent) + k = first + k - 1
      <3>1. k \in Int /\ first \in Int /\ Len(taken) \in Int /\ Len(recent) \in Int
        BY <1>1, <1>2
      <3>. QED  BY <1>2, <3>1
    <2>. QED  BY <1>2, <1>4, <2>1, <2>2
  <1>7. recent = last
    <2>. HIDE DEF last
    <2>. QED  BY <1>1, <1>4, <1>5, <1>6, SeqEqual
  <1>. QED  BY <1>7 DEF RecentIsLatest

(* The context of the planner is the latest events in their order, for any *)
(* length of the deque.                                                    *)
THEOREM RecentEvents == Spec => []RecentIsLatest
  <1>1. Init => BusInv
    BY InitTypeOK DEF Init, BusInv, GatherOfCurrent
  <1>2. Init => RecentMatches
    <2>. SUFFICES ASSUME Init PROVE RecentMatches
      OBVIOUS
    <2>1. Len(<<>>) = 0
      BY EmptySeq
    <2>2. Len(recent) = 0 /\ Len(taken) = 0
      BY <2>1 DEF Init
    <2>. QED  BY <2>2, EventBusAssumption DEF RecentMatches
  <1>3. BusInv /\ RecentMatches => RecentIsLatest
    BY RecentMatchesIsLatest DEF BusInv
  <1>. QED  BY <1>1, <1>2, <1>3, NextBusInv, NextRecentMatches, PTL DEF Spec

-----------------------------------------------------------------------------
(* The bus implements the mailbox: emitting is Send, taking is Address and *)
(* a handler's end is Receive.                                             *)

GatherIsFresh ==
  /\ \A h \in Handlers : Handled(h) \subseteq DOMAIN audience
  /\ loop = "gathering" =>
       /\ Current \in DOMAIN audience /\ awaiting \subseteq audience[Current]
       /\ \A h \in awaiting : Current \notin Handled(h)

LEMMA HandledAfter ==
  ASSUME BusInv, NEW h \in Handlers, HandlerEnds(h)
  PROVE  \A k \in Handlers :
           Handled(k)' = IF k = h THEN Handled(k) \cup {Current} ELSE Handled(k)
  <1>1. Current \in 1..Len(log)
    BY LenProperties, ElementOfSeq, EmptySeq
    DEF BusInv, HandlerEnds, TypeOK, Current, GatherOfCurrent
  <1>2. \A k \in Handlers : got[k] \in Seq(1..Len(log)) /\ Len(got[k]) \in Nat
    BY LenProperties DEF BusInv, TypeOK
  <1>3. \A k \in Handlers : got'[k] = IF k = h THEN Append(got[k], Current) ELSE got[k]
    BY DEF HandlerEnds, BusInv, TypeOK
  <1>4. ASSUME NEW k \in Handlers, k # h PROVE Handled(k)' = Handled(k)
    BY <1>3, <1>4 DEF Handled
  <1>5. Handled(h)' = Handled(h) \cup {Current}
    <2>1. /\ DOMAIN got[h] = 1..Len(got[h]) /\ DOMAIN got'[h] = 1..Len(got[h]) + 1
          /\ \A i \in 1..Len(got[h]) : got'[h][i] = got[h][i]
          /\ got'[h][Len(got[h]) + 1] = Current
      <3>. DEFINE new == Append(got[h], Current)
      <3>1. got[h] \in Seq(1..Len(log)) /\ got'[h] = new
        BY <1>2, <1>3
      <3>2. /\ new \in Seq(1..Len(log)) /\ Len(new) = Len(got[h]) + 1
            /\ \A i \in 1..Len(got[h]) : new[i] = got[h][i]
            /\ new[Len(got[h]) + 1] = Current
        BY <1>1, <3>1, AppendProperties
      <3>. HIDE DEF new
      <3>3. DOMAIN got[h] = 1..Len(got[h]) /\ DOMAIN new = 1..Len(new)
        BY <3>1, <3>2, LenProperties
      <3>. QED  BY <3>1, <3>2, <3>3
    <2>2. DOMAIN got'[h] = DOMAIN got[h] \cup {Len(got[h]) + 1}
      BY <1>2, <2>1
    <2>. QED  BY <2>1, <2>2 DEF Handled
  <1>. QED  BY <1>4, <1>5

LEMMA NextGatherIsFresh ==
  ASSUME BusInv, NoneLost, GatherIsFresh, [Next]_vars
  PROVE  GatherIsFresh'
  <1>. USE DEF BusInv
  <1>1. ASSUME NEW e \in queue, Take(e) PROVE GatherIsFresh'
    <2>1. DOMAIN audience' = DOMAIN audience \cup {e} /\ audience'[e] = handlers[log[e]]
      BY <1>1 DEF Take
    <2>2. e \notin DOMAIN audience
      BY DEF NoneLost, TypeOK
    <2>3. Current' = e
      BY <1>1, TakeProperties DEF Current
    <2>4. \A h \in Handlers : Handled(h)' = Handled(h)
      BY <1>1 DEF Take, Handled
    <2>5. \A h \in Handlers : e \notin Handled(h)'
      BY <2>2, <2>4 DEF GatherIsFresh
    <2>6. awaiting' \in SUBSET Handlers /\ awaiting' = handlers[log[e]]
      BY <1>1, TakeKeepsTypeOK DEF TypeOK, Take
    <2>. QED  BY <2>1, <2>3, <2>4, <2>5, <2>6 DEF GatherIsFresh
  <1>2. ASSUME NEW h \in Handlers, HandlerEnds(h) PROVE GatherIsFresh'
    <2>1. Current' = Current /\ audience' = audience /\ loop' = loop /\ loop = "gathering"
      BY <1>2 DEF HandlerEnds, history, Current
    <2>2. awaiting' = awaiting \ {h} /\ awaiting \subseteq Handlers
      BY <1>2 DEF HandlerEnds, TypeOK
    <2>3. \A k \in awaiting' : Current \notin Handled(k)'
      BY <1>2, <2>1, <2>2, HandledAfter DEF GatherIsFresh
    <2>4. \A k \in Handlers : Handled(k)' \subseteq DOMAIN audience
      BY <1>2, <2>1, HandledAfter DEF GatherIsFresh
    <2>. QED  BY <2>1, <2>2, <2>3, <2>4 DEF GatherIsFresh
  <1>3. ASSUME UNCHANGED <<taken, audience, got>>,
               (loop' = loop /\ awaiting' = awaiting) \/ loop' # "gathering"
        PROVE  GatherIsFresh'
    BY <1>3 DEF GatherIsFresh, Current, Handled
  <1>4. CASE \E t \in Types : Emit(t)
    BY <1>3, <1>4 DEF Emit, history
  <1>5. CASE \E h \in Handlers : Subscribe(h)
    BY <1>3, <1>5 DEF Subscribe, history
  <1>6. CASE Start \/ Stop \/ Timeout \/ Gathered \/ Cancel
    BY <1>3, <1>6 DEF Start, Stop, Timeout, Gathered, Cancel, Top, history
  <1>7. CASE UNCHANGED vars
    BY <1>3, <1>7 DEF vars
  <1>. QED  BY <1>1, <1>2, <1>4, <1>5, <1>6, <1>7 DEF Next

LEMMA NextImplementsBoxNext ==
  ASSUME BusInv, NoneLost, GatherIsFresh, [Next]_vars
  PROVE  [Box!Next]_(Box!vars)
  <1>. USE DEF BusInv
  <1>0. Len(log) \in Nat
    BY LenProperties DEF TypeOK
  <1>1. CASE Silent
    BY <1>1 DEF Silent, Box!vars, Handled
  <1>2. ASSUME NEW t \in EventType, Put(t), UNCHANGED <<recent, taken, audience, got>>
        PROVE  Box!Next
    <2>1. Len(log') = Len(log) + 1
      BY <1>2, PutProperties
    <2>. QED  BY <1>2, <2>1 DEF Box!Next, Box!Send, Handled
  <1>3. ASSUME NEW e \in queue, Take(e) PROVE Box!Next
    <2>1. e \in 1..Len(log) /\ e \notin DOMAIN audience
      BY DEF NoneLost, TypeOK
    <2>2. handlers[log[e]] \in SUBSET Handlers
      BY <2>1, ElementOfSeq DEF TypeOK
    <2>3. /\ audience' = [x \in DOMAIN audience \cup {e} |->
                            IF x = e THEN handlers[log[e]] ELSE audience[x]]
          /\ UNCHANGED <<log, got>>
      BY <1>3 DEF Take
    <2>4. Len(log') = Len(log) /\ [h \in Handlers |-> Handled(h)]' = [h \in Handlers |-> Handled(h)]
      BY <2>3 DEF Handled
    <2>. QED  BY <2>1, <2>2, <2>3, <2>4 DEF Box!Next, Box!Address
  <1>4. ASSUME NEW h \in Handlers, HandlerEnds(h) PROVE Box!Next
    <2>1. /\ Current \in DOMAIN audience /\ h \in audience[Current]
          /\ Current \notin Handled(h)
      BY <1>4 DEF HandlerEnds, GatherIsFresh
    <2>2. [k \in Handlers |-> Handled(k)]' =
            [[k \in Handlers |-> Handled(k)] EXCEPT ![h] = Handled(h) \cup {Current}]
      BY <1>4, HandledAfter
    <2>3. Len(log') \in {Len(log), Len(log) + 1}
      <3>1. "TASK_REQUEST" \in EventType
        BY DEF EventType
      <3>. QED  BY <1>4, <3>1, PutProperties DEF HandlerEnds
    <2>4. audience' = audience
      BY <1>4 DEF HandlerEnds, history
    <2>. QED  BY <2>1, <2>2, <2>3, <2>4 DEF Box!Next, Box!Receive
  <1>. QED  BY <1>1, <1>2, <1>3, <1>4, NextCases

(* The bus addresses every event at most once, to the subscribers of that  *)
(* moment, and each of them handles it at most once, in every behaviour of *)
(* the bus, whatever the number of events.                                 *)
THEOREM BusIsMailbox == Spec => ImplementsMailbox
  <1>1. Init => BusInv
    BY InitTypeOK DEF Init, BusInv, GatherOfCurrent
  <1>2. Init => NoneLost /\ GatherIsFresh /\ Box!Init
    <2>. SUFFICES ASSUME Init PROVE NoneLost /\ GatherIsFresh /\ Box!Init
      OBVIOUS
    <2>1. Len(<<>>) = 0 /\ DOMAIN <<>> = {}
      BY EmptySeq, LenProperties
    <2>2. 1..Len(log) = {} /\ 1..Len(taken) = {} /\ queue = {}
      BY <2>1 DEF Init
    <2>3. \A h \in Handlers : Handled(h) = {}
      BY <2>1 DEF Init, Handled
    <2>4. GatherIsFresh
      BY <2>3 DEF Init, GatherIsFresh
    <2>5. Box!Init
      BY <2>1, <2>3 DEF Init, Box!Init
    <2>. QED  BY <2>2, <2>4, <2>5 DEF NoneLost
  <1>3. BusInv /\ NoneLost /\ GatherIsFresh /\ [Next]_vars => [Box!Next]_(Box!vars)
    BY NextImplementsBoxNext
  <1>. QED
    BY <1>1, <1>2, <1>3, NextBusInv, NextNoneLost, NextGatherIsFresh, PTL
    DEF Spec, ImplementsMailbox, Box!Spec
=============================================================================
