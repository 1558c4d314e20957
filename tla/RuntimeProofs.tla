--------------------------- MODULE RuntimeProofs ---------------------------
(***************************************************************************)
(* Theorems about Runtime, for any actions, tiers, retry limit and number  *)
(* of crashes.                                                             *)
(*                                                                         *)
(* The snapshot is what the reducer makes of the whole ledger.  The first  *)
(* part of the module shows how it changes with one more event and how a   *)
(* replay can be split, each time from a smallest counterexample; the      *)
(* second part is the inductive invariant, the third the refinement of     *)
(* Effects.                                                                *)
(***************************************************************************)
EXTENDS Runtime, TLAPS, WellFoundedInduction, SequenceTheorems, FiniteSetTheorems

-----------------------------------------------------------------------------
(* The reducer.                                                            *)

(* A non-empty set of natural numbers has a smallest element.              *)
LEMMA Smallest ==
  ASSUME NEW T \in SUBSET Nat, T # {}
  PROVE  \E m \in T : \A k \in T : m <= k
  <1>1. IsWellFoundedOn(OpToRel(<, Nat), Nat)
    BY NatLessThanWellFounded
  <1>2. PICK m \in T : \A k \in T : <<k, m>> \notin OpToRel(<, Nat)
    BY <1>1, WFMin
  <1>3. \A k \in T : ~(k < m)
    BY <1>2 DEF OpToRel
  <1>4. \A k \in T : m <= k
    <2>. TAKE k \in T
    <2>1. k \in Nat /\ m \in Nat
      OBVIOUS
    <2>. QED  BY <1>3, <2>1
  <1>. QED  BY <1>4

(* after is the chain of snapshots that leads from s through the events.   *)
Chain(after, s, events) ==
  /\ after = [i \in 0..Len(events) |-> after[i]]
  /\ after[0] = s
  /\ \A i \in 1..Len(events) : after[i] = Apply(after[i - 1], events[i])

LEMMA ChainExists ==
  ASSUME NEW s, NEW S, NEW events \in Seq(S)
  PROVE  \E after : Chain(after, s, events)
  <1>. DEFINE n == Len(events)
              Upto(f, m) == /\ f = [i \in 0..m |-> f[i]] /\ f[0] = s
                            /\ \A i \in 1..m : f[i] = Apply(f[i - 1], events[i])
              Solved(m) == \E f : Upto(f, m)
              Bad == {m \in 0..n : ~Solved(m)}
  <1>0. n \in Nat
    OBVIOUS
  <1>1. SUFFICES Bad = {}
    <2>1. Solved(n)
      <3>. HIDE DEF Solved, n
      <3>. QED  BY <1>0, <1>1
    <2>. QED  BY <2>1 DEF Chain
  <1>2. SUFFICES ASSUME Bad # {} PROVE FALSE
    OBVIOUS
  <1>3. PICK m \in Bad : \A k \in Bad : m <= k
    <2>1. Bad \in SUBSET Nat
      BY <1>0
    <2>. HIDE DEF Bad
    <2>. QED  BY <1>2, <2>1, Smallest
  <1>4. m # 0
    <2>. DEFINE f == [i \in 0..0 |-> s]
    <2>1. Upto(f, 0)
      OBVIOUS
    <2>. HIDE DEF Upto, f
    <2>. QED  BY <2>1
  <1>5. m \in 1..n /\ m - 1 \in 0..n /\ m - 1 \notin Bad
    <2>. HIDE DEF Solved, n
    <2>1. m \in 1..n /\ m - 1 \in 0..n
      BY <1>0, <1>4
    <2>2. ~(m <= m - 1)
      BY <1>0, <2>1
    <2>. HIDE DEF Bad
    <2>. QED  BY <1>3, <2>1, <2>2
  <1>6. PICK f : Upto(f, m - 1)
    <2>1. Solved(m - 1)
      <3>. HIDE DEF Solved, n
      <3>. QED  BY <1>5
    <2>. HIDE DEF Upto
    <2>. QED  BY <2>1
  <1>. DEFINE g == [i \in 0..m |-> IF i < m THEN f[i] ELSE Apply(f[m - 1], events[m])]
  <1>7. Upto(g, m)
    <2>1. g = [i \in 0..m |-> g[i]] /\ g[0] = s
      BY <1>0, <1>5, <1>6
    <2>2. ASSUME NEW i \in 1..m PROVE g[i] = Apply(g[i - 1], events[i])
      <3>1. CASE i < m
        <4>1. i \in 1..(m - 1) /\ i \in 0..m /\ i - 1 \in 0..m /\ i - 1 < m
          BY <1>0, <1>5, <3>1
        <4>2. f[i] = Apply(f[i - 1], events[i])
          BY <1>6, <4>1
        <4>. QED  BY <3>1, <4>1, <4>2
      <3>2. CASE i = m
        <4>1. m \in 0..m /\ m - 1 \in 0..m /\ m - 1 < m /\ ~(m < m)
          BY <1>0, <1>5
        <4>. QED  BY <3>2, <4>1
      <3>. QED  BY <1>0, <1>5, <3>1, <3>2
    <2>. HIDE DEF g
    <2>. QED  BY <2>1, <2>2
  <1>. HIDE DEF Upto, g
  <1>. QED  BY <1>7

LEMMA ReduceIsChain ==
  ASSUME NEW s, NEW S, NEW events \in Seq(S)
  PROVE  \E after : Chain(after, s, events) /\ Reduce(s, events) = after[Len(events)]
  <1>. DEFINE Eq(f) == f = [i \in 0..Len(events) |->
                              IF i = 0 THEN s ELSE Apply(f[i - 1], events[i])]
  <1>0. Len(events) \in Nat
    OBVIOUS
  <1>1. PICK a : Chain(a, s, events)
    BY ChainExists
  <1>2. Eq(a)
    <2>1. a = [i \in 0..Len(events) |-> a[i]]
      BY <1>1 DEF Chain
    <2>2. \A i \in 0..Len(events) :
            a[i] = IF i = 0 THEN s ELSE Apply(a[i - 1], events[i])
      <3>. TAKE i \in 0..Len(events)
      <3>1. CASE i = 0
        BY <1>1, <3>1 DEF Chain
      <3>2. CASE i # 0
        <4>1. i \in 1..Len(events)
          BY <1>0, <3>2
        <4>. QED  BY <1>1, <3>2, <4>1 DEF Chain
      <3>. QED  BY <3>1, <3>2
    <2>. QED  BY <2>1, <2>2
  <1>3. Eq(CHOOSE f : Eq(f))
    <2>. HIDE DEF Eq
    <2>. QED  BY <1>2
  <1>. DEFINE b == CHOOSE f : Eq(f)
  <1>4. Reduce(s, events) = b[Len(events)]
    BY DEF Reduce
  <1>5. Eq(b)
    BY <1>3
  <1>. HIDE DEF b
  <1>6. /\ b = [i \in 0..Len(events) |-> b[i]] /\ b[0] = s
        /\ \A i \in 1..Len(events) : b[i] = Apply(b[i - 1], events[i])
    BY <1>0, <1>5
  <1>7. Chain(b, s, events)
    BY <1>6 DEF Chain
  <1>. QED  BY <1>4, <1>7

(* The first m events of v are those of u from position k on.              *)
Agree(u, v, k, m) == \A i \in 1..m : u[k + i] = v[i]

(* Two chains that start from one snapshot agree as long as their events   *)
(* do, at whatever positions the two begin.                                *)
LEMMA ChainsAgree ==
  ASSUME NEW S, NEW a, NEW b, NEW s, NEW t, NEW u \in Seq(S), NEW v \in Seq(S),
         Chain(a, s, u), Chain(b, t, v),
         NEW k \in 0..Len(u), NEW m \in 0..Len(v), NEW p \in 0..Len(u), p = k + m,
         a[k] = t, Agree(u, v, k, m)
  PROVE  a[p] = b[m]
  <1>. DEFINE Bad == {i \in 0..m : a[k + i] # b[i]}
  <1>1. SUFFICES Bad = {}
    OBVIOUS
  <1>2. SUFFICES ASSUME Bad # {} PROVE FALSE
    OBVIOUS
  <1>3. PICK i \in Bad : \A j \in Bad : i <= j
    <2>1. Bad \in SUBSET Nat
      OBVIOUS
    <2>. HIDE DEF Bad
    <2>. QED  BY <1>2, <2>1, Smallest
  <1>4. i \in 0..m /\ a[k + i] # b[i]
    OBVIOUS
  <1>5. i # 0
    BY <1>4 DEF Chain
  <1>6. a[k + (i - 1)] = b[i - 1]
    <2>1. i - 1 \in 0..m /\ ~(i <= i - 1)
      BY <1>4, <1>5
    <2>2. i - 1 \notin Bad
      <3>. HIDE DEF Bad
      <3>. QED  BY <1>3, <2>1
    <2>. QED  BY <2>1, <2>2
  <1>7. a[k + i] = Apply(a[(k + i) - 1], u[k + i])
    <2>1. k + i \in 1..Len(u)
      BY <1>4, <1>5
    <2>. QED  BY <2>1 DEF Chain
  <1>8. b[i] = Apply(b[i - 1], v[i])
    <2>1. i \in 1..Len(v)
      BY <1>4, <1>5
    <2>. QED  BY <2>1 DEF Chain
  <1>9. (k + i) - 1 = k + (i - 1) /\ u[k + i] = v[i]
    BY <1>4, <1>5 DEF Agree
  <1>. QED  BY <1>4, <1>6, <1>7, <1>8, <1>9

(* One more event is one more application.                                 *)
THEOREM ReduceAppend ==
  ASSUME NEW s, NEW S, NEW events \in Seq(S), NEW e \in S
  PROVE  Reduce(s, Append(events, e)) = Apply(Reduce(s, events), e)
  <1>. DEFINE longer == Append(events, e)
              n == Len(events)
  <1>1. /\ longer \in Seq(S) /\ Len(longer) = n + 1 /\ longer[n + 1] = e /\ n \in Nat
        /\ \A i \in 1..n : longer[i] = events[i]
    OBVIOUS
  <1>. HIDE DEF longer
  <1>2. PICK a : Chain(a, s, events) /\ Reduce(s, events) = a[n]
    BY ReduceIsChain
  <1>3. PICK b : Chain(b, s, longer) /\ Reduce(s, longer) = b[n + 1]
    BY <1>1, ReduceIsChain
  <1>4. b[n] = a[n]
    <2>1. 0 \in 0..Len(longer) /\ n \in 0..Len(events) /\ n \in 0..Len(longer) /\ n = 0 + n
      BY <1>1
    <2>2. b[0] = s /\ Agree(longer, events, 0, n)
      BY <1>1, <1>3 DEF Chain, Agree
    <2>. HIDE DEF n
    <2>. QED  BY <1>1, <1>2, <1>3, <2>1, <2>2, ChainsAgree DEF n
  <1>5. b[n + 1] = Apply(b[(n + 1) - 1], longer[n + 1])
    <2>1. n + 1 \in 1..Len(longer)
      BY <1>1
    <2>. QED  BY <1>3, <2>1 DEF Chain
  <1>6. (n + 1) - 1 = n
    BY <1>1
  <1>. QED  BY <1>1, <1>2, <1>3, <1>4, <1>5, <1>6 DEF longer

(* A replay may stop anywhere and go on from the snapshot it reached.      *)
THEOREM ReduceSplit ==
  ASSUME NEW s, NEW S, NEW events \in Seq(S), NEW k \in 0..Len(events)
  PROVE  Reduce(Reduce(s, SubSeq(events, 1, k)), SubSeq(events, k + 1, Len(events)))
           = Reduce(s, events)
  <1>. DEFINE n == Len(events)
              head == SubSeq(events, 1, k)
              tail == SubSeq(events, k + 1, n)
              t == Reduce(s, head)
  <1>1. /\ head \in Seq(S) /\ Len(head) = k /\ n \in Nat /\ k \in Nat
        /\ \A i \in 1..k : head[i] = events[i]
    OBVIOUS
  <1>2. /\ tail \in Seq(S) /\ Len(tail) = n - k
        /\ \A i \in 1..(n - k) : tail[i] = events[k + i]
    OBVIOUS
  <1>. HIDE DEF head, tail
  <1>3. PICK a : Chain(a, s, events) /\ Reduce(s, events) = a[n]
    BY ReduceIsChain
  <1>4. PICK b : Chain(b, s, head) /\ t = b[k]
    BY <1>1, ReduceIsChain
  <1>5. PICK c : Chain(c, t, tail) /\ Reduce(t, tail) = c[n - k]
    BY <1>2, ReduceIsChain
  <1>6. a[k] = b[k]
    <2>1. 0 \in 0..Len(events) /\ k \in 0..Len(head) /\ k = 0 + k
      BY <1>1
    <2>2. a[0] = s /\ Agree(events, head, 0, k)
      BY <1>1, <1>3 DEF Chain, Agree
    <2>. HIDE DEF n, t
    <2>. QED  BY <1>1, <1>3, <1>4, <2>1, <2>2, ChainsAgree
  <1>7. a[n] = c[n - k]
    <2>1. n - k \in 0..Len(tail) /\ n \in 0..Len(events) /\ n = k + (n - k)
      BY <1>1, <1>2
    <2>2. a[k] = t /\ Agree(events, tail, k, n - k)
      BY <1>1, <1>2, <1>4, <1>6 DEF Agree
    <2>. HIDE DEF n, t
    <2>. QED  BY <1>2, <1>3, <1>5, <2>1, <2>2, ChainsAgree
  <1>. QED  BY <1>3, <1>5, <1>7 DEF head, tail

-----------------------------------------------------------------------------
(* One event.                                                              *)

EventTypes ==
  {"TASK_CREATED", "FSM_TRANSITIONED", "COGNITION_PROPOSED", "POLICY_EVALUATED",
   "AUTHORIZATION_REQUESTED", "AUTHORIZATION_RESOLVED", "SIDE_EFFECT_REGISTERED",
   "SIDE_EFFECT_COMMITTED", "SIDE_EFFECT_ROLLED_BACK", "OBSERVATION_RECORDED",
   "SYSTEM_HALTED"}

IsSnapshot(s) ==
  DOMAIN s = {"state", "proposal", "effects", "pending", "observed", "seq", "lamport", "count"}

LEMMA PayloadFacts ==
  ASSUME NEW s, IsSnapshot(s), NEW e, e.type \in EventTypes
  PROVE  /\ IsSnapshot(Payload(s, e))
         /\ e.type = "FSM_TRANSITIONED" => Payload(s, e).state = e.payload
         /\ e.type \in {"FSM_TRANSITIONED", "AUTHORIZATION_REQUESTED", "AUTHORIZATION_RESOLVED"}
              => Payload(s, e).proposal = s.proposal
         /\ e.type = "POLICY_EVALUATED" /\ e.payload # "DENIED"
              => Payload(s, e).proposal = s.proposal
  BY DEF Payload, IsSnapshot, EventTypes

LEMMA ApplyFacts ==
  ASSUME NEW s, IsSnapshot(s), NEW e, e.type \in EventTypes
  PROVE  /\ IsSnapshot(Apply(s, e))
         /\ Apply(s, e).seq = e.seq /\ Apply(s, e).lamport = e.clock
         /\ e.type = "FSM_TRANSITIONED" => Apply(s, e).state = e.payload
         /\ e.type \in {"FSM_TRANSITIONED", "AUTHORIZATION_REQUESTED", "AUTHORIZATION_RESOLVED"}
              => Apply(s, e).proposal = s.proposal
         /\ e.type = "POLICY_EVALUATED" /\ e.payload # "DENIED"
              => Apply(s, e).proposal = s.proposal
  <1>. DEFINE q == Payload(s, e)
  <1>1. Apply(s, e) = [q EXCEPT !.seq = e.seq, !.lamport = e.clock, !.count = s.count + 1]
    BY DEF Apply
  <1>2. IsSnapshot(q)
    BY PayloadFacts
  <1>. HIDE DEF q
  <1>3. /\ IsSnapshot(Apply(s, e))
        /\ Apply(s, e).seq = e.seq /\ Apply(s, e).lamport = e.clock
        /\ Apply(s, e).state = q.state /\ Apply(s, e).proposal = q.proposal
    BY <1>1, <1>2 DEF IsSnapshot
  <1>. QED  BY <1>3, PayloadFacts DEF q

-----------------------------------------------------------------------------
(* The inductive invariant.                                                *)

Log ==
  /\ \E S : ledger \in Seq(S)
  /\ \A i \in 1..Len(ledger) :
       ledger[i].type \in EventTypes /\ ledger[i].seq = i - 1 /\ ledger[i].clock \in Nat

Written == Len(ledger) > 0

(* What the snapshot says of the last event.                               *)
Current ==
  /\ IsSnapshot(Snapshot)
  /\ Written => Snapshot.seq = Len(ledger) - 1 /\ Snapshot.lamport = Last(ledger).clock
  /\ Written /\ Last(ledger).type = "FSM_TRANSITIONED" => Snapshot.state = Last(ledger).payload
  /\ ~Written => Snapshot.lamport = 0

(* The clock of the loop is behind only until it has received an answer.   *)
Ordered ==
  /\ clock \in Nat /\ uiClock \in Nat
  /\ \A i \in 2..Len(ledger) : ledger[i - 1].clock < ledger[i].clock
  /\ Written /\ Last(ledger).type # "AUTHORIZATION_RESOLVED" => clock = Last(ledger).clock

(* While a request is open nothing is written but a halt.                  *)
Open(i) == i \in Requests /\ Resolutions(i) = {}

Waiting ==
  \A i \in 1..Len(ledger) : Open(i) =>
    /\ \/ i = Len(ledger)
       \/ /\ i = Len(ledger) - 1
          /\ Last(ledger).type = "FSM_TRANSITIONED" /\ Last(ledger).payload = "HALTED"
          /\ Last(ledger).clock = ledger[i].clock + 1
    /\ ledger[i].payload = Snapshot.proposal /\ Snapshot.proposal \in LegalActions(tier)

Committed(k) == \E i \in 1..Len(ledger) :
                  ledger[i].type = "SIDE_EFFECT_COMMITTED" /\ ledger[i].payload = k

(* An execution runs while its registration is the last event, and once it *)
(* makes an attempt, its key is not committed.                             *)
Executed ==
  /\ exec \in [phase : {"none", "skip", "attempt", "receipt", "compensate"}, attempt : Nat]
  /\ exec.phase # "none" => Written /\ Last(ledger).type = "SIDE_EFFECT_REGISTERED"
  /\ exec.phase = "none" => exec = NotExecuting
  /\ effects \in [Offered -> Nat] /\ doubt \in [Offered -> Nat]
  /\ exec.phase \in {"attempt", "receipt", "compensate"} /\ Key \in Offered => ~Committed(Key)

Risky(a) == CapabilityGraph[a].risk \in {"MEDIUM", "HIGH"}

(* Request r and resolution j approve action a, and nothing has been       *)
(* proposed from the request up to n.                                      *)
ApprovedFor(a, r, j, n) ==
  /\ ledger[r].type = "AUTHORIZATION_REQUESTED" /\ ledger[r].payload = a
  /\ ledger[j].type = "AUTHORIZATION_RESOLVED" /\ ledger[j].payload.request = r
  /\ ledger[j].payload.resolution = "APPROVED"
  /\ \A m \in r..n : ledger[m].type # "COGNITION_PROPOSED"

(* What the events on the way to an execution say of the proposal.         *)
Vetted ==
  LET n == Len(ledger)
      e == Last(ledger)
      a == Snapshot.proposal
  IN  Written =>
        /\ e.type = "POLICY_EVALUATED" /\ e.payload # "DENIED" => a \in LegalActions(tier)
        /\ e.type = "POLICY_EVALUATED" /\ e.payload = "APPROVED" => ~Risky(a)
        /\ e.type = "FSM_TRANSITIONED" /\ e.payload = "PENDING_AUTHORIZATION" =>
             a \in LegalActions(tier)
        /\ e.type = "AUTHORIZATION_RESOLVED" =>
             /\ a \in LegalActions(tier)
             /\ e.payload.request \in 1..(n - 1)
             /\ ledger[e.payload.request].type = "AUTHORIZATION_REQUESTED"
             /\ ledger[e.payload.request].payload = a
             /\ \A m \in e.payload.request..n : ledger[m].type # "COGNITION_PROPOSED"
        /\ e.type = "FSM_TRANSITIONED" /\ e.payload = "EXECUTING" =>
             /\ a \in LegalActions(tier)
             /\ Risky(a) => \E r, j \in 1..(n - 1) : ApprovedFor(a, r, j, n)

ReaderBehind ==
  reader.count > 0 =>
    /\ reader.seq \in Nat /\ reader.seq + 1 \in 1..Len(ledger)
    /\ reader = Reduce(Snapshot0, SubSeq(ledger, 1, reader.seq + 1))

IInv ==
  Log /\ Current /\ Ordered /\ Waiting /\ Executed /\ Vetted /\ ReaderBehind /\ AuthorizedFirst

LEMMA InitIInv == Init => IInv
  <1>. SUFFICES ASSUME Init PROVE IInv
    OBVIOUS
  <1>1. ledger = <<>> /\ Len(ledger) = 0 /\ ledger \in Seq({})
    BY DEF Init
  <1>2. Snapshot = Snapshot0
    <2>1. PICK a : Chain(a, Snapshot0, ledger) /\ Snapshot = a[Len(ledger)]
      BY <1>1, ReduceIsChain DEF Snapshot
    <2>. QED  BY <1>1, <2>1 DEF Chain
  <1>3. Log /\ ~Written
    BY <1>1 DEF Log, Written
  <1>4. Current /\ Ordered
    BY <1>1, <1>2, <1>3 DEF Current, Ordered, IsSnapshot, Snapshot0, Init
  <1>5. Executed
    BY <1>1 DEF Executed, Init, NotExecuting, Committed
  <1>6. reader.count = 0
    BY DEF Init, Snapshot0
  <1>. QED  BY <1>1, <1>3, <1>4, <1>5, <1>6
       DEF IInv, Waiting, Vetted, ReaderBehind, AuthorizedFirst

(* What append leaves behind.                                              *)
LEMMA Appended ==
  ASSUME Log, IsSnapshot(Snapshot), NEW T \in EventTypes, NEW q, NEW c \in Nat, Post(T, q, c)
  PROVE  /\ Len(ledger) \in Nat /\ Len(ledger') = Len(ledger) + 1
         /\ \A i \in 1..Len(ledger) : ledger'[i] = ledger[i]
         /\ Last(ledger') = ledger'[Len(ledger) + 1] /\ Last(ledger) = ledger[Len(ledger)]
         /\ Last(ledger').seq = Len(ledger) /\ Last(ledger').clock = c
         /\ Last(ledger').type = T /\ Last(ledger').payload = q
         /\ Log' /\ Written'
         /\ Snapshot' = Apply(Snapshot, Last(ledger'))
         /\ \A k \in 0..Len(ledger) : SubSeq(ledger', 1, k) = SubSeq(ledger, 1, k)
  <1>. DEFINE n == Len(ledger)
              e == [seq |-> n, clock |-> c, type |-> T, payload |-> q]
  <1>1. PICK R : ledger \in Seq(R)
    BY DEF Log
  <1>. DEFINE S == R \cup {e}
  <1>2. ledger \in Seq(S) /\ e \in S
    <2>. HIDE DEF e
    <2>1. R \subseteq S
      OBVIOUS
    <2>. QED  BY <1>1, <2>1
  <1>3. e.seq = n /\ e.clock = c /\ e.type = T /\ e.payload = q
    OBVIOUS
  <1>4. ledger' = Append(ledger, e)
    BY DEF Post
  <1>. HIDE DEF e, S
  <1>5. /\ n \in Nat /\ Len(ledger') = n + 1 /\ ledger' \in Seq(S)
        /\ \A i \in 1..n : ledger'[i] = ledger[i]
        /\ ledger'[n + 1] = e
    BY <1>2, <1>4
  <1>6. Last(ledger') = e /\ Last(ledger) = ledger[n]
    BY <1>5 DEF Last
  <1>7. Log'
    <2>1. \A i \in 1..(n + 1) :
            ledger'[i].type \in EventTypes /\ ledger'[i].seq = i - 1 /\ ledger'[i].clock \in Nat
      <3>. TAKE i \in 1..(n + 1)
      <3>1. CASE i \in 1..n
        BY <1>5, <3>1 DEF Log
      <3>2. CASE i = n + 1
        BY <1>3, <1>5, <3>2
      <3>. QED  BY <1>5, <3>1, <3>2
    <2>. QED  BY <1>5, <2>1 DEF Log
  <1>8. Written'
    BY <1>5 DEF Written
  <1>9. Snapshot' = Apply(Snapshot, e)
    BY <1>2, <1>4, ReduceAppend DEF Snapshot
  <1>10. \A k \in 0..n : SubSeq(ledger', 1, k) = SubSeq(ledger, 1, k)
    <2>. TAKE k \in 0..n
    <2>1. SubSeq(ledger', 1, k) = [i \in 1..k |-> ledger'[i]]
      BY <1>5
    <2>2. SubSeq(ledger, 1, k) = [i \in 1..k |-> ledger[i]]
      BY <1>2, <1>5
    <2>. QED  BY <1>5, <2>1, <2>2
  <1>. QED  BY <1>3, <1>5, <1>6, <1>7, <1>8, <1>9, <1>10

LEMMA CurrentAfter ==
  ASSUME Log, Current, NEW T \in EventTypes, NEW q, NEW c \in Nat, Post(T, q, c)
  PROVE  /\ Current'
         /\ T \in {"FSM_TRANSITIONED", "AUTHORIZATION_REQUESTED", "AUTHORIZATION_RESOLVED"}
              => Snapshot'.proposal = Snapshot.proposal
         /\ T = "POLICY_EVALUATED" /\ q # "DENIED" => Snapshot'.proposal = Snapshot.proposal
  <1>1. IsSnapshot(Snapshot)
    BY DEF Current
  <1>. DEFINE e == Last(ledger')
  <1>2. /\ e.seq = Len(ledger') - 1 /\ e.clock = c /\ e.type = T /\ e.payload = q
        /\ Written' /\ Snapshot' = Apply(Snapshot, e)
    BY <1>1, Appended
  <1>. HIDE DEF e, Snapshot
  <1>3. Current'
    BY <1>1, <1>2, ApplyFacts DEF Current, e
  <1>. QED  BY <1>1, <1>2, <1>3, ApplyFacts

LEMMA OrderedAfter ==
  ASSUME Log, Current, Ordered, NEW T \in EventTypes, NEW q, NEW c \in Nat, Post(T, q, c),
         Written => Last(ledger).clock < c, clock' \in Nat, uiClock' \in Nat,
         T # "AUTHORIZATION_RESOLVED" => clock' = c
  PROVE  Ordered'
  <1>. DEFINE n == Len(ledger)
  <1>1. /\ n \in Nat /\ Len(ledger') = n + 1
        /\ \A i \in 1..n : ledger'[i] = ledger[i]
        /\ Last(ledger') = ledger'[n + 1] /\ Last(ledger) = ledger[n]
        /\ Last(ledger').clock = c /\ Last(ledger').type = T
    BY Appended DEF Current
  <1>. HIDE DEF n
  <1>2. \A i \in 2..(n + 1) : ledger'[i - 1].clock < ledger'[i].clock
    <2>. TAKE i \in 2..(n + 1)
    <2>1. CASE i = n + 1
      <3>1. i - 1 = n /\ n \in 1..n /\ Written
        BY <1>1, <2>1 DEF Written, n
      <3>. QED  BY <1>1, <2>1, <3>1
    <2>2. CASE i # n + 1
      <3>1. i \in 1..n /\ i - 1 \in 1..n /\ i \in 2..n
        BY <1>1, <2>2
      <3>. QED  BY <1>1, <3>1 DEF Ordered, n
    <2>. QED  BY <2>1, <2>2
  <1>. QED  BY <1>1, <1>2 DEF Ordered

(* A request is open when it is the last event, or a halt follows it.      *)
Undisturbed ==
  Written => /\ Last(ledger).type # "AUTHORIZATION_REQUESTED"
             /\ ~(Last(ledger).type = "FSM_TRANSITIONED" /\ Last(ledger).payload = "HALTED")

LEMMA WaitingAfter ==
  ASSUME Log, Current, Waiting, tier' = tier,
         NEW T \in EventTypes, NEW q, NEW c \in Nat, Post(T, q, c),
         T = "AUTHORIZATION_REQUESTED" =>
           q = Snapshot.proposal /\ Snapshot.proposal \in LegalActions(tier),
         \/ Undisturbed
         \/ /\ T = "FSM_TRANSITIONED" /\ q = "HALTED"
            /\ Written /\ Last(ledger).type # "FSM_TRANSITIONED" /\ c = Last(ledger).clock + 1
         \/ /\ T = "AUTHORIZATION_RESOLVED" /\ q.request \in Requests
            /\ Resolutions(q.request) = {}
  PROVE  Waiting'
  <1>. DEFINE n == Len(ledger)
  <1>0. /\ n \in Nat /\ Len(ledger') = n + 1
        /\ \A i \in 1..n : ledger'[i] = ledger[i]
        /\ Last(ledger') = ledger'[n + 1] /\ Last(ledger) = ledger[n]
        /\ Last(ledger').clock = c /\ Last(ledger').type = T /\ Last(ledger').payload = q
    BY Appended DEF Current
  <1>1. DOMAIN ledger = 1..n /\ DOMAIN ledger' = 1..(n + 1)
    <2>1. Log'
      BY Appended DEF Current
    <2>. QED  BY <1>0, <2>1 DEF Log
  <1>2. T \in {"FSM_TRANSITIONED", "AUTHORIZATION_REQUESTED", "AUTHORIZATION_RESOLVED"}
          => Snapshot'.proposal = Snapshot.proposal
    BY CurrentAfter
  <1>. HIDE DEF n, Snapshot
  <1>3. ASSUME NEW i \in 1..(n + 1), Open(i)'
        PROVE  \/ i \in 1..n /\ Open(i) /\ ~(T = "AUTHORIZATION_RESOLVED" /\ q.request = i)
               \/ i = n + 1 /\ T = "AUTHORIZATION_REQUESTED"
    <2>1. ledger'[i].type = "AUTHORIZATION_REQUESTED"
      BY <1>3 DEF Open, Requests
    <2>2. \A j \in 1..(n + 1) :
            ~(ledger'[j].type = "AUTHORIZATION_RESOLVED" /\ ledger'[j].payload.request = i)
      BY <1>1, <1>3 DEF Open, Resolutions
    <2>3. CASE i = n + 1
      BY <1>0, <2>1, <2>3
    <2>4. CASE i \in 1..n
      <3>1. Open(i)
        BY <1>0, <1>1, <2>1, <2>2, <2>4 DEF Open, Requests, Resolutions
      <3>2. ~(T = "AUTHORIZATION_RESOLVED" /\ q.request = i)
        BY <1>0, <2>2
      <3>. QED  BY <2>4, <3>1, <3>2
    <2>. QED  BY <1>0, <2>3, <2>4
  <1>4. \A i \in 1..n : Open(i) => ledger[i].type = "AUTHORIZATION_REQUESTED"
    BY DEF Open, Requests
  <1>5. CASE Undisturbed
    <2>1. \A i \in 1..n : ~Open(i)
      BY <1>0, <1>4, <1>5 DEF Waiting, Undisturbed, Written, n
    <2>. QED  BY <1>0, <1>2, <1>3, <2>1 DEF Waiting, n
  <1>6. CASE /\ T = "FSM_TRANSITIONED" /\ q = "HALTED"
             /\ Written /\ Last(ledger).type # "FSM_TRANSITIONED" /\ c = Last(ledger).clock + 1
    <2>1. \A i \in 1..n : Open(i) => /\ i = n /\ ledger[i].payload = Snapshot.proposal
                                     /\ Snapshot.proposal \in LegalActions(tier)
      BY <1>6 DEF Waiting, n
    <2>2. \A i \in 1..(n + 1) : Open(i)' => i = n /\ Open(i)
      BY <1>3, <1>6, <2>1
    <2>3. \A i \in 1..n : (LegalActions(tier) = LegalActions(tier)') /\ ledger'[i] = ledger[i]
      BY <1>0 DEF LegalActions
    <2>. QED  BY <1>0, <1>2, <1>6, <2>1, <2>2, <2>3 DEF Waiting
  <1>7. CASE /\ T = "AUTHORIZATION_RESOLVED" /\ q.request \in Requests
             /\ Resolutions(q.request) = {}
    <2>1. q.request \in 1..n /\ Open(q.request)
      BY <1>1, <1>7 DEF Requests, Open
    <2>2. \A i \in 1..n : Open(i) => i = q.request
      BY <1>0, <1>4, <2>1 DEF Waiting, n
    <2>3. \A i \in 1..(n + 1) : ~Open(i)'
      BY <1>3, <1>7, <2>2
    <2>. QED  BY <1>0, <2>3 DEF Waiting
  <1>. QED  BY <1>5, <1>6, <1>7

(* An event ends the execution that was under way.                         *)
LEMMA ExecutedAfter ==
  ASSUME Executed, exec' = NotExecuting, UNCHANGED <<effects, doubt>>
  PROVE  Executed'
  <1>. HIDE DEF Committed, Written, Key
  <1>. QED  BY DEF Executed, NotExecuting

LEMMA VettedAfter ==
  ASSUME Log, Current, tier' = tier,
         NEW T \in EventTypes, NEW q, NEW c \in Nat, Post(T, q, c),
         T = "POLICY_EVALUATED" =>
           \E state : q = EvaluatePolicy(Snapshot.proposal, tier, state),
         T = "FSM_TRANSITIONED" /\ q = "PENDING_AUTHORIZATION" =>
           Snapshot.proposal \in LegalActions(tier),
         T = "AUTHORIZATION_RESOLVED" =>
           /\ Snapshot.proposal \in LegalActions(tier)
           /\ q.request \in 1..Len(ledger)
           /\ ledger[q.request].type = "AUTHORIZATION_REQUESTED"
           /\ ledger[q.request].payload = Snapshot.proposal
           /\ \A m \in q.request..Len(ledger) : ledger[m].type # "COGNITION_PROPOSED",
         T = "FSM_TRANSITIONED" /\ q = "EXECUTING" =>
           /\ Snapshot.proposal \in LegalActions(tier)
           /\ Risky(Snapshot.proposal) =>
                \E r, j \in 1..Len(ledger) : ApprovedFor(Snapshot.proposal, r, j, Len(ledger))
  PROVE  Vetted'
  <1>. DEFINE n == Len(ledger)
              a == Snapshot.proposal
  <1>0. /\ n \in Nat /\ Len(ledger') = n + 1
        /\ \A i \in 1..n : ledger'[i] = ledger[i]
        /\ Last(ledger') = ledger'[n + 1]
        /\ Last(ledger').type = T /\ Last(ledger').payload = q
    BY Appended DEF Current
  <1>1. /\ T \in {"FSM_TRANSITIONED", "AUTHORIZATION_REQUESTED", "AUTHORIZATION_RESOLVED"}
             => Snapshot'.proposal = a
        /\ T = "POLICY_EVALUATED" /\ q # "DENIED" => Snapshot'.proposal = a
    BY CurrentAfter
  <1>. HIDE DEF n, a, Snapshot
  <1>2. LegalActions(tier)' = LegalActions(tier) /\ (n + 1) - 1 = n
    BY <1>0 DEF LegalActions
  <1>3. ASSUME T = "POLICY_EVALUATED", q # "DENIED"
        PROVE  a \in LegalActions(tier) /\ (q = "APPROVED" => ~Risky(a))
    <2>1. PICK state : q = EvaluatePolicy(a, tier, state)
      BY <1>3 DEF a
    <2>. HIDE DEF CapabilityGraph
    <2>. QED  BY <1>3, <2>1 DEF EvaluatePolicy, LegalActions, Risky
  <1>4. ASSUME T = "AUTHORIZATION_RESOLVED"
        PROVE  /\ a \in LegalActions(tier)
               /\ q.request \in 1..n
               /\ ledger'[q.request].type = "AUTHORIZATION_REQUESTED"
               /\ ledger'[q.request].payload = a
               /\ \A m \in q.request..(n + 1) : ledger'[m].type # "COGNITION_PROPOSED"
    <2>1. /\ q.request \in 1..n /\ ledger'[q.request] = ledger[q.request]
          /\ \A m \in q.request..n : ledger[m].type # "COGNITION_PROPOSED"
      BY <1>0, <1>4 DEF n
    <2>2. \A m \in q.request..(n + 1) : (m \in q.request..n /\ m \in 1..n) \/ m = n + 1
      BY <1>0, <2>1
    <2>3. \A m \in q.request..(n + 1) : ledger'[m].type # "COGNITION_PROPOSED"
      BY <1>0, <1>4, <2>1, <2>2
    <2>. QED  BY <1>4, <2>1, <2>3 DEF a
  <1>5. ASSUME T = "FSM_TRANSITIONED", q = "EXECUTING", Risky(a)
        PROVE  \E r, j \in 1..n :
                 /\ ledger'[r].type = "AUTHORIZATION_REQUESTED" /\ ledger'[r].payload = a
                 /\ ledger'[j].type = "AUTHORIZATION_RESOLVED"
                 /\ ledger'[j].payload.request = r
                 /\ ledger'[j].payload.resolution = "APPROVED"
                 /\ \A m \in r..(n + 1) : ledger'[m].type # "COGNITION_PROPOSED"
    <2>1. PICK r \in 1..n, j \in 1..n : ApprovedFor(a, r, j, n)
      BY <1>5 DEF a, n
    <2>2. ledger'[r] = ledger[r] /\ ledger'[j] = ledger[j]
      BY <1>0
    <2>3. \A m \in r..(n + 1) : (m \in r..n /\ m \in 1..n) \/ m = n + 1
      BY <1>0
    <2>4. \A m \in r..(n + 1) : ledger'[m].type # "COGNITION_PROPOSED"
      BY <1>0, <1>5, <2>1, <2>3 DEF ApprovedFor
    <2>5. /\ ledger'[r].type = "AUTHORIZATION_REQUESTED" /\ ledger'[r].payload = a
          /\ ledger'[j].type = "AUTHORIZATION_RESOLVED" /\ ledger'[j].payload.request = r
          /\ ledger'[j].payload.resolution = "APPROVED"
      BY <2>1, <2>2 DEF ApprovedFor
    <2>. QED  BY <2>4, <2>5
  <1>6. T = "FSM_TRANSITIONED" /\ q = "EXECUTING" /\ Risky(a) =>
          \E r, j \in 1..n : ApprovedFor(Snapshot.proposal, r, j, Len(ledger))'
    <2>1. SUFFICES ASSUME T = "FSM_TRANSITIONED", q = "EXECUTING", Risky(a)
                   PROVE  \E r, j \in 1..n :
                            ApprovedFor(Snapshot.proposal, r, j, Len(ledger))'
      OBVIOUS
    <2>. QED  BY <1>0, <1>1, <1>5, <2>1 DEF ApprovedFor
  <1>7. T = "FSM_TRANSITIONED" /\ q = "EXECUTING" => a \in LegalActions(tier)
    BY DEF a
  <1>8. T = "FSM_TRANSITIONED" /\ q = "PENDING_AUTHORIZATION" => a \in LegalActions(tier)
    BY DEF a
  <1>. HIDE DEF Written, LegalActions
  <1>. QED  BY <1>0, <1>1, <1>2, <1>3, <1>4, <1>6, <1>7, <1>8 DEF Vetted, Risky

LEMMA ReaderAfter ==
  ASSUME Log, Current, ReaderBehind, reader' = reader,
         NEW T \in EventTypes, NEW q, NEW c \in Nat, Post(T, q, c)
  PROVE  ReaderBehind'
  <1>. DEFINE n == Len(ledger)
  <1>0. /\ n \in Nat /\ Len(ledger') = n + 1
        /\ \A k \in 0..n : SubSeq(ledger', 1, k) = SubSeq(ledger, 1, k)
    BY Appended DEF Current
  <1>. HIDE DEF n
  <1>1. ASSUME reader.count > 0
        PROVE  /\ reader.seq \in Nat /\ reader.seq + 1 \in 1..(n + 1)
               /\ reader = Reduce(Snapshot0, SubSeq(ledger', 1, reader.seq + 1))
    <2>1. /\ reader.seq \in Nat /\ reader.seq + 1 \in 1..n
          /\ reader = Reduce(Snapshot0, SubSeq(ledger, 1, reader.seq + 1))
      BY <1>1 DEF ReaderBehind, n
    <2>2. reader.seq + 1 \in 0..n /\ reader.seq + 1 \in 1..(n + 1)
      BY <1>0, <2>1
    <2>. QED  BY <1>0, <2>1, <2>2
  <1>. QED  BY <1>0, <1>1 DEF ReaderBehind

LEMMA AuthorizedAfter ==
  ASSUME Log, Current, Vetted, AuthorizedFirst, tier' = tier,
         NEW T \in EventTypes, NEW q, NEW c \in Nat, Post(T, q, c),
         T = "SIDE_EFFECT_REGISTERED" =>
           /\ Written /\ Last(ledger).type = "FSM_TRANSITIONED"
           /\ Last(ledger).payload = "EXECUTING" /\ q = Snapshot.proposal
  PROVE  AuthorizedFirst'
  <1>. DEFINE n == Len(ledger)
  <1>0. /\ n \in Nat /\ Len(ledger') = n + 1
        /\ \A i \in 1..n : ledger'[i] = ledger[i]
        /\ ledger'[n + 1].type = T /\ ledger'[n + 1].payload = q
        /\ Log'
    BY Appended DEF Current
  <1>1. DOMAIN ledger = 1..n /\ DOMAIN ledger' = 1..(n + 1)
    BY <1>0 DEF Log
  <1>. HIDE DEF n, Snapshot
  <1>2. LegalActions(tier)' = LegalActions(tier)
    BY DEF LegalActions
  <1>. DEFINE Approval(i, a) ==
                \E r, j \in 1..(i - 1) :
                  /\ ledger'[r].type = "AUTHORIZATION_REQUESTED" /\ ledger'[r].payload = a
                  /\ ledger'[j].type = "AUTHORIZATION_RESOLVED"
                  /\ ledger'[j].payload.request = r
                  /\ ledger'[j].payload.resolution = "APPROVED"
                  /\ \A m \in r..i : ledger'[m].type # "COGNITION_PROPOSED"
  <1>3. ASSUME NEW i \in 1..n, ledger[i].type = "SIDE_EFFECT_REGISTERED"
        PROVE  /\ ledger[i].payload \in LegalActions(tier)
               /\ Risky(ledger[i].payload) => Approval(i, ledger[i].payload)
    <2>1. /\ ledger[i].payload \in LegalActions(tier)
          /\ Risky(ledger[i].payload) =>
               \E r, j \in 1..(i - 1) : ApprovedFor(ledger[i].payload, r, j, i)
      BY <1>1, <1>3 DEF AuthorizedFirst, ApprovedFor, Risky
    <2>2. \A m \in 1..i : ledger'[m] = ledger[m]
      BY <1>0
    <2>3. ASSUME NEW r \in 1..(i - 1), NEW j \in 1..(i - 1),
                 ApprovedFor(ledger[i].payload, r, j, i)
          PROVE  Approval(i, ledger[i].payload)
      <3>1. r \in 1..i /\ j \in 1..i /\ r..i \subseteq 1..i
        BY <1>0
      <3>. QED  BY <2>2, <2>3, <3>1 DEF ApprovedFor
    <2>. HIDE DEF Approval
    <2>. QED  BY <2>1, <2>3
  <1>4. ASSUME T = "SIDE_EFFECT_REGISTERED"
        PROVE  q \in LegalActions(tier) /\ (Risky(q) => Approval(n + 1, q))
    <2>1. /\ q \in LegalActions(tier)
          /\ Risky(q) => \E r, j \in 1..(n - 1) : ApprovedFor(q, r, j, n)
      BY <1>4 DEF Vetted, n
    <2>2. ASSUME NEW r \in 1..(n - 1), NEW j \in 1..(n - 1), ApprovedFor(q, r, j, n)
          PROVE  Approval(n + 1, q)
      <3>1. /\ r \in 1..n /\ j \in 1..n /\ (n + 1) - 1 = n
            /\ \A m \in r..(n + 1) : (m \in r..n /\ m \in 1..n) \/ m = n + 1
        BY <1>0
      <3>2. \A m \in r..(n + 1) : ledger'[m].type # "COGNITION_PROPOSED"
        BY <1>0, <1>4, <2>2, <3>1 DEF ApprovedFor
      <3>3. /\ ledger'[r].type = "AUTHORIZATION_REQUESTED" /\ ledger'[r].payload = q
            /\ ledger'[j].type = "AUTHORIZATION_RESOLVED" /\ ledger'[j].payload.request = r
            /\ ledger'[j].payload.resolution = "APPROVED"
        BY <1>0, <2>2, <3>1 DEF ApprovedFor
      <3>. QED  BY <3>1, <3>2, <3>3
    <2>. HIDE DEF Approval
    <2>. QED  BY <2>1, <2>2
  <1>5. \A i \in 1..(n + 1) : ledger'[i].type = "SIDE_EFFECT_REGISTERED" =>
          /\ ledger'[i].payload \in LegalActions(tier)
          /\ Risky(ledger'[i].payload) => Approval(i, ledger'[i].payload)
    <2>. HIDE DEF Approval
    <2>. TAKE i \in 1..(n + 1)
    <2>1. CASE i \in 1..n
      BY <1>0, <1>3, <2>1
    <2>2. CASE i = n + 1
      BY <1>0, <1>4, <2>2
    <2>. QED  BY <1>0, <2>1, <2>2
  <1>. HIDE DEF LegalActions
  <1>. QED  BY <1>1, <1>2, <1>5 DEF AuthorizedFirst, Risky

(* All parts together, for a step that writes an event of type T.          *)
LEMMA PostKeepsIInv ==
  ASSUME IInv, UNCHANGED <<tier, reader, effects, doubt>>, exec' = NotExecuting,
         NEW T \in EventTypes, NEW q, NEW c \in Nat, Post(T, q, c),
         Written => Last(ledger).clock < c, clock' \in Nat, uiClock' \in Nat,
         T # "AUTHORIZATION_RESOLVED" => clock' = c,
         T = "AUTHORIZATION_REQUESTED" =>
           q = Snapshot.proposal /\ Snapshot.proposal \in LegalActions(tier),
         \/ Undisturbed
         \/ /\ T = "FSM_TRANSITIONED" /\ q = "HALTED"
            /\ Written /\ Last(ledger).type # "FSM_TRANSITIONED" /\ c = Last(ledger).clock + 1
         \/ /\ T = "AUTHORIZATION_RESOLVED" /\ q.request \in Requests
            /\ Resolutions(q.request) = {},
         \/ T # "SIDE_EFFECT_COMMITTED" /\ exec.phase # "receipt"
         \/ T = "SIDE_EFFECT_COMMITTED" /\ exec.phase = "receipt" /\ q = Key,
         T = "POLICY_EVALUATED" =>
           \E state : q = EvaluatePolicy(Snapshot.proposal, tier, state),
         T = "FSM_TRANSITIONED" /\ q = "PENDING_AUTHORIZATION" =>
           Snapshot.proposal \in LegalActions(tier),
         T = "AUTHORIZATION_RESOLVED" =>
           /\ Snapshot.proposal \in LegalActions(tier)
           /\ q.request \in 1..Len(ledger)
           /\ ledger[q.request].type = "AUTHORIZATION_REQUESTED"
           /\ ledger[q.request].payload = Snapshot.proposal
           /\ \A m \in q.request..Len(ledger) : ledger[m].type # "COGNITION_PROPOSED",
         T = "FSM_TRANSITIONED" /\ q = "EXECUTING" =>
           /\ Snapshot.proposal \in LegalActions(tier)
           /\ Risky(Snapshot.proposal) =>
                \E r, j \in 1..Len(ledger) : ApprovedFor(Snapshot.proposal, r, j, Len(ledger)),
         T = "SIDE_EFFECT_REGISTERED" =>
           /\ Written /\ Last(ledger).type = "FSM_TRANSITIONED"
           /\ Last(ledger).payload = "EXECUTING" /\ q = Snapshot.proposal
  PROVE  IInv'
  <1>. USE DEF IInv
  <1>1. Log'
    BY Appended DEF Current
  <1>2. Current'
    BY CurrentAfter
  <1>. HIDE DEF Snapshot, Requests, Resolutions
  <1>3. Ordered'
    BY OrderedAfter
  <1>4. Waiting'
    BY WaitingAfter
  <1>5. Executed'
    BY ExecutedAfter
  <1>6. Vetted'
    BY VettedAfter
  <1>7. ReaderBehind'
    BY ReaderAfter
  <1>8. AuthorizedFirst'
    BY AuthorizedAfter
  <1>. QED  BY <1>1, <1>2, <1>3, <1>4, <1>5, <1>6, <1>7, <1>8

-----------------------------------------------------------------------------
(* The actions that write an event.                                        *)

LEMMA TipFacts ==
  ASSUME IInv, NEW type, Tip(type)
  PROVE  /\ Written /\ Last(ledger).type = type /\ clock \in Nat /\ uiClock \in Nat
         /\ Len(ledger) \in Nat /\ Last(ledger) = ledger[Len(ledger)]
         /\ Last(ledger).clock \in Nat
         /\ type # "AUTHORIZATION_RESOLVED" => clock = Last(ledger).clock
         /\ type # "AUTHORIZATION_REQUESTED" => Undisturbed
         /\ type # "SIDE_EFFECT_REGISTERED" => exec = NotExecuting
  <1>1. PICK S : ledger \in Seq(S)
    BY DEF IInv, Log
  <1>2. Written /\ Len(ledger) \in 1..Len(ledger) /\ Last(ledger) = ledger[Len(ledger)]
    BY <1>1 DEF Tip, Written, Last
  <1>3. Last(ledger).type = type /\ Snapshot.state # "HALTED"
    BY DEF Tip, Running
  <1>4. Undisturbed \/ type = "AUTHORIZATION_REQUESTED"
    BY <1>2, <1>3 DEF Undisturbed, IInv, Current
  <1>. QED  BY <1>2, <1>3, <1>4 DEF IInv, Log, Ordered, Executed

(* An event of the loop, after any event but a request or an answer.       *)
LEMMA LoopKeepsIInv ==
  ASSUME IInv, UNCHANGED <<tier, reader, effects, doubt, uiClock>>, exec' = NotExecuting,
         NEW type, Tip(type),
         type \notin {"AUTHORIZATION_REQUESTED", "AUTHORIZATION_RESOLVED"},
         NEW T \in EventTypes \ {"AUTHORIZATION_RESOLVED"}, NEW q, Record(T, q),
         T = "AUTHORIZATION_REQUESTED" =>
           q = Snapshot.proposal /\ Snapshot.proposal \in LegalActions(tier),
         \/ T # "SIDE_EFFECT_COMMITTED" /\ exec.phase # "receipt"
         \/ T = "SIDE_EFFECT_COMMITTED" /\ exec.phase = "receipt" /\ q = Key,
         T = "POLICY_EVALUATED" =>
           \E state : q = EvaluatePolicy(Snapshot.proposal, tier, state),
         T = "FSM_TRANSITIONED" /\ q = "PENDING_AUTHORIZATION" =>
           Snapshot.proposal \in LegalActions(tier),
         T = "FSM_TRANSITIONED" /\ q = "EXECUTING" =>
           /\ Snapshot.proposal \in LegalActions(tier)
           /\ Risky(Snapshot.proposal) =>
                \E r, j \in 1..Len(ledger) : ApprovedFor(Snapshot.proposal, r, j, Len(ledger)),
         T = "SIDE_EFFECT_REGISTERED" =>
           /\ Last(ledger).type = "FSM_TRANSITIONED"
           /\ Last(ledger).payload = "EXECUTING" /\ q = Snapshot.proposal
  PROVE  IInv'
  <1>1. /\ Written /\ clock \in Nat /\ uiClock \in Nat /\ clock = Last(ledger).clock
        /\ Undisturbed
    BY TipFacts
  <1>2. Post(T, q, clock + 1) /\ clock' = clock + 1
    BY DEF Record
  <1>3. clock + 1 \in Nat /\ Last(ledger).clock < clock + 1 /\ clock' \in Nat /\ uiClock' \in Nat
    BY <1>1, <1>2
  <1>. HIDE DEF Snapshot, Requests, Resolutions, Written
  <1>. QED  BY <1>1, <1>2, <1>3, PostKeepsIInv

LEMMA CreateTaskKeepsIInv ==
  ASSUME IInv, CreateTask
  PROVE  IInv'
  <1>1. /\ Record("TASK_CREATED", None)
        /\ UNCHANGED <<tier, exec, reader, effects, doubt, uiClock>>
    BY DEF CreateTask, Note
  <1>2. CASE Entered("IDLE")
    <2>1. Tip("FSM_TRANSITIONED")
      BY <1>2 DEF Entered
    <2>2. exec' = NotExecuting /\ exec.phase # "receipt"
      BY <1>1, <2>1, TipFacts DEF NotExecuting
    <2>3. "TASK_CREATED" \in EventTypes \ {"AUTHORIZATION_RESOLVED"}
      BY DEF EventTypes
    <2>. QED  BY <1>1, <2>1, <2>2, <2>3, LoopKeepsIInv
  <1>3. CASE ledger = <<>>
    <2>1. ~Written
      BY <1>3 DEF Written
    <2>2. exec = NotExecuting /\ exec.phase # "receipt"
      BY <2>1 DEF IInv, Executed, NotExecuting
    <2>3. Post("TASK_CREATED", None, clock + 1) /\ clock' = clock + 1
      BY <1>1 DEF Record
    <2>4. clock + 1 \in Nat /\ clock' \in Nat /\ uiClock' \in Nat
      BY <1>1, <2>3 DEF IInv, Ordered
    <2>5. "TASK_CREATED" \in EventTypes /\ Undisturbed
      BY <2>1 DEF EventTypes, Undisturbed
    <2>. QED  BY <1>1, <2>1, <2>2, <2>3, <2>4, <2>5, PostKeepsIInv
  <1>. QED  BY <1>2, <1>3 DEF CreateTask

(* A transition that does not lead to an execution.                        *)
LEMMA TransitionKeepsIInv ==
  ASSUME IInv, NEW type, Tip(type),
         type \notin {"AUTHORIZATION_REQUESTED", "AUTHORIZATION_RESOLVED",
                      "SIDE_EFFECT_REGISTERED"},
         NEW to, Transition(to),
         to = "PENDING_AUTHORIZATION" => Snapshot.proposal \in LegalActions(tier),
         to = "EXECUTING" =>
           Snapshot.proposal \in LegalActions(tier) /\ ~Risky(Snapshot.proposal)
  PROVE  IInv'
  <1>1. /\ Record("FSM_TRANSITIONED", to)
        /\ UNCHANGED <<tier, exec, reader, effects, doubt, uiClock>>
    BY DEF Transition, Enter
  <1>2. exec' = NotExecuting /\ exec.phase # "receipt"
    BY <1>1, TipFacts DEF NotExecuting
  <1>3. "FSM_TRANSITIONED" \in EventTypes \ {"AUTHORIZATION_RESOLVED"}
    BY DEF EventTypes
  <1>. HIDE DEF Snapshot
  <1>. QED  BY <1>1, <1>2, <1>3, LoopKeepsIInv

LEMMA NoteKeepsIInv ==
  ASSUME IInv, NEW type, Tip(type),
         type \notin {"AUTHORIZATION_REQUESTED", "AUTHORIZATION_RESOLVED",
                      "SIDE_EFFECT_REGISTERED"},
         NEW T \in {"COGNITION_PROPOSED", "POLICY_EVALUATED", "AUTHORIZATION_REQUESTED",
                    "SIDE_EFFECT_REGISTERED", "OBSERVATION_RECORDED"},
         NEW q, Note(T, q),
         T = "AUTHORIZATION_REQUESTED" =>
           q = Snapshot.proposal /\ Snapshot.proposal \in LegalActions(tier),
         T = "POLICY_EVALUATED" =>
           \E state : q = EvaluatePolicy(Snapshot.proposal, tier, state),
         T = "SIDE_EFFECT_REGISTERED" =>
           /\ Last(ledger).type = "FSM_TRANSITIONED"
           /\ Last(ledger).payload = "EXECUTING" /\ q = Snapshot.proposal
  PROVE  IInv'
  <1>1. Record(T, q) /\ UNCHANGED <<tier, exec, reader, effects, doubt, uiClock>>
    BY DEF Note
  <1>2. exec' = NotExecuting /\ exec.phase # "receipt"
    BY <1>1, TipFacts DEF NotExecuting
  <1>3. T \in EventTypes \ {"AUTHORIZATION_RESOLVED"}
    BY DEF EventTypes
  <1>. HIDE DEF Snapshot
  <1>. QED  BY <1>1, <1>2, <1>3, LoopKeepsIInv

LEMMA SettleKeepsIInv ==
  ASSUME IInv, Tip("SIDE_EFFECT_REGISTERED"),
         NEW T \in {"SIDE_EFFECT_COMMITTED", "SIDE_EFFECT_ROLLED_BACK", "OBSERVATION_RECORDED"},
         NEW q, Settle(T, q),
         \/ T # "SIDE_EFFECT_COMMITTED" /\ exec.phase # "receipt"
         \/ T = "SIDE_EFFECT_COMMITTED" /\ exec.phase = "receipt" /\ q = Key
  PROVE  IInv'
  <1>1. /\ Record(T, q) /\ exec' = NotExecuting
        /\ UNCHANGED <<tier, reader, effects, doubt, uiClock>>
    BY DEF Settle
  <1>2. T \in EventTypes \ {"AUTHORIZATION_RESOLVED"}
    BY DEF EventTypes
  <1>. HIDE DEF Snapshot, Key
  <1>. QED  BY <1>1, <1>2, LoopKeepsIInv

LEMMA HaltKeepsIInv ==
  ASSUME IInv, Halt
  PROVE  IInv'
  <1>. DEFINE type == Last(ledger).type
  <1>1. /\ Tip(type) /\ type # "AUTHORIZATION_RESOLVED" /\ exec.phase = "none"
        /\ Record("FSM_TRANSITIONED", "HALTED")
        /\ UNCHANGED <<tier, exec, reader, effects, doubt, uiClock>>
    BY DEF Halt, Tip, Transition, Enter
  <1>. HIDE DEF type
  <1>2. /\ Written /\ Last(ledger).type = type /\ clock = Last(ledger).clock
        /\ clock \in Nat /\ uiClock \in Nat
        /\ type # "AUTHORIZATION_REQUESTED" => Undisturbed
    BY <1>1, TipFacts
  <1>3. exec = NotExecuting /\ exec' = NotExecuting
    BY <1>1 DEF IInv, Executed
  <1>4. /\ Post("FSM_TRANSITIONED", "HALTED", clock + 1) /\ clock' = clock + 1
        /\ clock + 1 \in Nat /\ clock' \in Nat /\ uiClock' \in Nat
        /\ Last(ledger).clock < clock + 1
    BY <1>1, <1>2 DEF Record
  <1>5. "FSM_TRANSITIONED" \in EventTypes
    BY DEF EventTypes
  <1>6. \/ Undisturbed
        \/ Last(ledger).type # "FSM_TRANSITIONED" /\ clock + 1 = Last(ledger).clock + 1
    BY <1>2
  <1>. HIDE DEF Snapshot, Written, Requests, Resolutions
  <1>. QED  BY <1>1, <1>2, <1>3, <1>4, <1>5, <1>6, PostKeepsIInv

LEMMA ResolveKeepsIInv ==
  ASSUME IInv, NEW resolution, Resolve(resolution)
  PROVE  IInv'
  <1>. DEFINE n == Len(ledger)
  <1>1. PICK i \in Requests :
          /\ Resolutions(i) = {}
          /\ LET sent == (IF uiClock > ledger[i].clock THEN uiClock ELSE ledger[i].clock) + 2
             IN  /\ Post("AUTHORIZATION_RESOLVED",
                         [request |-> i, resolution |-> resolution], sent)
                 /\ uiClock' = sent
    BY DEF Resolve
  <1>2. UNCHANGED <<tier, exec, effects, doubt, clock, reader>>
    BY DEF Resolve
  <1>3. PICK S : ledger \in Seq(S)
    BY DEF IInv, Log
  <1>4. i \in 1..n /\ Open(i) /\ ledger[i].type = "AUTHORIZATION_REQUESTED" /\ n \in Nat
    BY <1>1, <1>3 DEF Requests, Open
  <1>5. /\ \/ i = n
           \/ /\ i = n - 1 /\ ledger[n].type = "FSM_TRANSITIONED"
              /\ ledger[n].clock = ledger[i].clock + 1
        /\ ledger[i].payload = Snapshot.proposal /\ Snapshot.proposal \in LegalActions(tier)
        /\ Last(ledger) = ledger[n]
    BY <1>3, <1>4 DEF IInv, Waiting, Last
  <1>6. Written /\ ledger[i].clock \in Nat /\ ledger[n].clock \in Nat
        /\ uiClock \in Nat /\ clock \in Nat
    BY <1>4 DEF IInv, Log, Ordered, Written
  <1>. DEFINE sent == (IF uiClock > ledger[i].clock THEN uiClock ELSE ledger[i].clock) + 2
              q == [request |-> i, resolution |-> resolution]
  <1>7. sent \in Nat /\ Last(ledger).clock < sent /\ uiClock' = sent
    BY <1>1, <1>5, <1>6
  <1>8. Post("AUTHORIZATION_RESOLVED", q, sent) /\ q.request = i
    BY <1>1
  <1>. HIDE DEF sent, q
  <1>9. exec = NotExecuting /\ exec.phase # "receipt"
    <2>1. Last(ledger).type # "SIDE_EFFECT_REGISTERED"
      BY <1>4, <1>5
    <2>. QED  BY <2>1 DEF IInv, Executed, NotExecuting
  <1>10. \A m \in i..n : ledger[m].type # "COGNITION_PROPOSED"
    <2>1. \A m \in i..n : m = i \/ m = n
      BY <1>4, <1>5
    <2>. QED  BY <1>4, <1>5, <2>1
  <1>11. "AUTHORIZATION_RESOLVED" \in EventTypes
    BY DEF EventTypes
  <1>12. clock' \in Nat /\ uiClock' \in Nat /\ exec' = NotExecuting
    BY <1>2, <1>6, <1>7, <1>9
  <1>. HIDE DEF Snapshot, Written, Requests, Resolutions
  <1>. QED  BY <1>1, <1>2, <1>4, <1>5, <1>6, <1>7, <1>8, <1>9, <1>10, <1>11, <1>12,
               PostKeepsIInv

LEMMA ResolvedKeepsIInv ==
  ASSUME IInv, Resolved
  PROVE  IInv'
  <1>. DEFINE n == Len(ledger)
              e == Last(ledger)
              to == CASE e.payload.resolution = "APPROVED" -> "EXECUTING"
                      [] e.payload.resolution = "REJECTED" -> "COGNITION_PROPOSING"
                      [] OTHER -> "HALTED"
              c == (IF clock > e.clock THEN clock ELSE e.clock) + 1 + 1
  <1>1. /\ Tip("AUTHORIZATION_RESOLVED") /\ Post("FSM_TRANSITIONED", to, c) /\ clock' = c
        /\ UNCHANGED <<tier, exec, effects, doubt, uiClock, reader>>
    BY DEF Resolved
  <1>2. /\ Written /\ e.type = "AUTHORIZATION_RESOLVED" /\ clock \in Nat /\ uiClock \in Nat
        /\ n \in Nat /\ e = ledger[n] /\ e.clock \in Nat
        /\ Undisturbed /\ exec = NotExecuting
    BY <1>1, TipFacts
  <1>3. c \in Nat /\ e.clock < c
    BY <1>2
  <1>4. to = "EXECUTING" => e.payload.resolution = "APPROVED"
    OBVIOUS
  <1>5. to # "PENDING_AUTHORIZATION"
    OBVIOUS
  <1>. HIDE DEF to, c
  <1>6. /\ Snapshot.proposal \in LegalActions(tier)
        /\ e.payload.request \in 1..(n - 1)
        /\ ledger[e.payload.request].type = "AUTHORIZATION_REQUESTED"
        /\ ledger[e.payload.request].payload = Snapshot.proposal
        /\ \A m \in e.payload.request..n : ledger[m].type # "COGNITION_PROPOSED"
    BY <1>2 DEF IInv, Vetted
  <1>. HIDE DEF e
  <1>7. to = "EXECUTING" => \E r, j \in 1..n : ApprovedFor(Snapshot.proposal, r, j, n)
    <2>1. e.payload.request \in 1..n /\ n \in 1..n
      BY <1>2, <1>6
    <2>2. to = "EXECUTING" => ApprovedFor(Snapshot.proposal, e.payload.request, n, n)
      BY <1>2, <1>4, <1>6 DEF ApprovedFor
    <2>. QED  BY <2>1, <2>2
  <1>8. "FSM_TRANSITIONED" \in EventTypes
    BY DEF EventTypes
  <1>9. exec' = NotExecuting /\ exec.phase # "receipt" /\ clock' \in Nat /\ uiClock' \in Nat
    BY <1>1, <1>2, <1>3 DEF NotExecuting
  <1>10. Last(ledger).clock < c
    BY <1>3 DEF e
  <1>. HIDE DEF Snapshot, Written, Requests, Resolutions
  <1>. QED  BY <1>1, <1>2, <1>3, <1>5, <1>6, <1>7, <1>8, <1>9, <1>10, PostKeepsIInv

LEMMA DecidedKeepsIInv ==
  ASSUME IInv, Decided
  PROVE  IInv'
  <1>. DEFINE e == Last(ledger)
              to == CASE e.payload = "APPROVED" -> "EXECUTING"
                      [] e.payload = "DENIED" -> "COGNITION_PROPOSING"
                      [] OTHER -> "PENDING_AUTHORIZATION"
  <1>1. Tip("POLICY_EVALUATED") /\ Transition(to)
    BY DEF Decided
  <1>2. Written /\ e.type = "POLICY_EVALUATED"
    BY <1>1, TipFacts
  <1>3. /\ to = "EXECUTING" => e.payload = "APPROVED"
        /\ to = "PENDING_AUTHORIZATION" => e.payload # "DENIED"
    OBVIOUS
  <1>. HIDE DEF to
  <1>4. /\ to = "PENDING_AUTHORIZATION" => Snapshot.proposal \in LegalActions(tier)
        /\ to = "EXECUTING" =>
             Snapshot.proposal \in LegalActions(tier) /\ ~Risky(Snapshot.proposal)
    BY <1>2, <1>3 DEF IInv, Vetted
  <1>. HIDE DEF Snapshot
  <1>. QED  BY <1>1, <1>4, TransitionKeepsIInv

LEMMA LoopWritesKeepIInv ==
  ASSUME IInv,
         \/ StartCognition \/ Propose \/ StartPolicy \/ Evaluate \/ RequestAuthorization
         \/ Register \/ Commit \/ CompensationSucceeds \/ CompensationFails \/ ObserveNoOp
         \/ Observe \/ Route \/ NextStep
  PROVE  IInv'
  <1>. HIDE DEF Snapshot
  <1>1. CASE StartCognition \/ StartPolicy \/ Route \/ NextStep
    <2>1. CASE StartCognition
      BY <2>1, TransitionKeepsIInv DEF StartCognition
    <2>2. CASE StartPolicy
      BY <2>2, TransitionKeepsIInv DEF StartPolicy
    <2>3. CASE Route
      BY <2>3, TransitionKeepsIInv DEF Route
    <2>4. CASE NextStep
      BY <2>4, TransitionKeepsIInv DEF NextStep, Entered
    <2>. QED  BY <1>1, <2>1, <2>2, <2>3, <2>4
  <1>2. CASE Propose
    <2>1. PICK action \in Offered : Note("COGNITION_PROPOSED", action)
      BY <1>2 DEF Propose
    <2>. QED  BY <1>2, <2>1, NoteKeepsIInv DEF Propose, Entered
  <1>3. CASE Evaluate
    <2>. DEFINE q == EvaluatePolicy(Snapshot.proposal, tier, Snapshot.state)
    <2>1. Tip("FSM_TRANSITIONED") /\ Note("POLICY_EVALUATED", q)
      BY <1>3 DEF Evaluate, Entered
    <2>2. \E state : q = EvaluatePolicy(Snapshot.proposal, tier, state)
      OBVIOUS
    <2>. HIDE DEF q
    <2>. QED  BY <2>1, <2>2, NoteKeepsIInv
  <1>4. CASE RequestAuthorization
    <2>1. /\ Tip("FSM_TRANSITIONED") /\ Last(ledger).payload = "PENDING_AUTHORIZATION"
          /\ Note("AUTHORIZATION_REQUESTED", Snapshot.proposal)
      BY <1>4 DEF RequestAuthorization, Entered
    <2>2. Snapshot.proposal \in LegalActions(tier)
      BY <2>1, TipFacts DEF IInv, Vetted
    <2>. QED  BY <2>1, <2>2, NoteKeepsIInv
  <1>5. CASE Register
    <2>1. /\ Tip("FSM_TRANSITIONED") /\ Last(ledger).payload = "EXECUTING"
          /\ Note("SIDE_EFFECT_REGISTERED", Snapshot.proposal)
      BY <1>5 DEF Register, Entered
    <2>2. Last(ledger).type = "FSM_TRANSITIONED"
      BY <2>1, TipFacts
    <2>. QED  BY <2>1, <2>2, NoteKeepsIInv
  <1>6. CASE Observe
    BY <1>6, NoteKeepsIInv DEF Observe
  <1>7. CASE Commit \/ CompensationSucceeds \/ CompensationFails \/ ObserveNoOp
    <2>. HIDE DEF Key
    <2>1. CASE Commit
      BY <2>1, SettleKeepsIInv DEF Commit, Phase
    <2>2. CASE CompensationSucceeds
      BY <2>2, SettleKeepsIInv DEF CompensationSucceeds, Phase
    <2>3. CASE CompensationFails
      <3>1. /\ Tip("SIDE_EFFECT_REGISTERED") /\ exec.phase # "receipt" /\ exec' = NotExecuting
            /\ Record("FSM_TRANSITIONED", "HALTED")
            /\ UNCHANGED <<tier, reader, effects, doubt, uiClock>>
        BY <2>3 DEF CompensationFails, Phase, Enter
      <3>2. "FSM_TRANSITIONED" \in EventTypes \ {"AUTHORIZATION_RESOLVED"}
        BY DEF EventTypes
      <3>. QED  BY <3>1, <3>2, LoopKeepsIInv
    <2>4. CASE ObserveNoOp
      BY <2>4, SettleKeepsIInv DEF ObserveNoOp, Phase
    <2>. QED  BY <1>7, <2>1, <2>2, <2>3, <2>4
  <1>. QED  BY <1>1, <1>2, <1>3, <1>4, <1>5, <1>6, <1>7

-----------------------------------------------------------------------------
(* The steps that write nothing.                                           *)

LEMMA LedgerUnchanged ==
  ASSUME IInv, UNCHANGED <<ledger, tier>>
  PROVE  /\ Log' /\ Current' /\ Waiting' /\ Vetted' /\ AuthorizedFirst'
         /\ \A k : Committed(k)' <=> Committed(k)
         /\ reader' = reader => ReaderBehind'
         /\ UNCHANGED <<clock, uiClock>> => Ordered'
  <1>1. Snapshot' = Snapshot
    BY DEF Snapshot
  <1>2. LegalActions(tier)' = LegalActions(tier)
    BY DEF LegalActions
  <1>. HIDE DEF Snapshot, LegalActions
  <1>3. Log' /\ Current' /\ Waiting'
    BY <1>1, <1>2 DEF IInv, Log, Current, Written, Waiting, Open, Requests, Resolutions
  <1>4. Vetted'
    BY <1>1, <1>2 DEF IInv, Vetted, Written, ApprovedFor, Risky
  <1>5. AuthorizedFirst'
    BY <1>2 DEF IInv, AuthorizedFirst
  <1>6. reader' = reader => ReaderBehind'
    BY DEF IInv, ReaderBehind
  <1>7. UNCHANGED <<clock, uiClock>> => Ordered'
    BY DEF IInv, Ordered, Written
  <1>8. \A k : Committed(k)' <=> Committed(k)
    BY DEF Committed
  <1>. QED  BY <1>3, <1>4, <1>5, <1>6, <1>7, <1>8

LEMMA OneMore ==
  ASSUME NEW f \in [Offered -> Nat], NEW key
  PROVE  /\ [f EXCEPT ![key] = @ + 1] \in [Offered -> Nat]
         /\ [f EXCEPT ![key] = @ + 1] = [k \in Offered |-> IF k = key THEN f[k] + 1 ELSE f[k]]
  <1>1. [f EXCEPT ![key] = @ + 1] = [k \in Offered |-> IF k = key THEN f[k] + 1 ELSE f[k]]
    OBVIOUS
  <1>2. \A k \in Offered : (IF k = key THEN f[k] + 1 ELSE f[k]) \in Nat
    OBVIOUS
  <1>. QED  BY <1>1, <1>2

LEMMA AttemptKeepsIInv ==
  ASSUME IInv, Execute \/ AttemptSucceeds \/ AttemptFails \/ AttemptRaises
  PROVE  IInv'
  <1>1. /\ UNCHANGED <<ledger, tier, clock, uiClock, reader>>
        /\ Tip("SIDE_EFFECT_REGISTERED")
    BY DEF Execute, AttemptSucceeds, AttemptFails, AttemptRaises, Phase
  <1>2. /\ \A k : Committed(k)' <=> Committed(k)
        /\ Log' /\ Current' /\ Ordered' /\ Waiting' /\ Vetted' /\ ReaderBehind' /\ AuthorizedFirst'
    BY <1>1, LedgerUnchanged
  <1>3. Written /\ Last(ledger).type = "SIDE_EFFECT_REGISTERED"
    BY <1>1, TipFacts
  <1>4. Written' /\ Last(ledger')= Last(ledger) /\ Key' = Key /\ Len(ledger') = Len(ledger)
    BY <1>1, <1>3 DEF Written, Key
  <1>. HIDE DEF Written, Key, Committed
  <1>5. CASE Execute
    <2>1. /\ exec.phase = "none" /\ UNCHANGED <<effects, doubt>>
          /\ exec' = [phase |-> IF Key \in CommittedKeys THEN "skip" ELSE "attempt",
                      attempt |-> 0]
      BY <1>5 DEF Execute, Phase
    <2>2. Key \in Offered /\ Key \notin CommittedKeys => ~Committed(Key)
      <3>1. PICK S : ledger \in Seq(S)
        BY DEF IInv, Log
      <3>. QED  BY <3>1 DEF CommittedKeys, Keyed, Committed
    <2>. QED  BY <1>1, <1>2, <1>3, <1>4, <2>1, <2>2 DEF IInv, Executed
  <1>6. CASE AttemptSucceeds
    <2>1. /\ exec.phase = "attempt" /\ exec' = [exec EXCEPT !.phase = "receipt"]
          /\ effects' = [effects EXCEPT ![Key] = @ + 1] /\ UNCHANGED doubt
      BY <1>6 DEF AttemptSucceeds, Phase
    <2>2. /\ effects \in [Offered -> Nat] /\ doubt \in [Offered -> Nat]
          /\ exec \in [phase : {"none", "skip", "attempt", "receipt", "compensate"}, attempt : Nat]
          /\ Key \in Offered => ~Committed(Key)
      BY <2>1 DEF IInv, Executed
    <2>3. exec' \in [phase : {"none", "skip", "attempt", "receipt", "compensate"}, attempt : Nat]
          /\ exec'.phase = "receipt"
      BY <2>1, <2>2
    <2>4. effects' \in [Offered -> Nat]
      BY <2>1, <2>2, OneMore
    <2>7. Executed'
      BY <1>1, <1>2, <1>3, <1>4, <2>1, <2>2, <2>3, <2>4 DEF Executed
    <2>. QED  BY <1>2, <2>7 DEF IInv
  <1>7. CASE AttemptFails \/ AttemptRaises
    <2>1. /\ exec.phase = "attempt"
          /\ \/ exec' = [exec EXCEPT !.attempt = @ + 1]
             \/ exec' = [exec EXCEPT !.phase = "compensate"]
          /\ \/ UNCHANGED <<effects, doubt>>
             \/ /\ effects' = [effects EXCEPT ![Key] = @ + 1]
                /\ doubt' = [doubt EXCEPT ![Key] = @ + 1]
      BY <1>7 DEF AttemptFails, AttemptRaises, TryAgain, Phase
    <2>2. /\ exec \in [phase : {"none", "skip", "attempt", "receipt", "compensate"}, attempt : Nat]
          /\ effects \in [Offered -> Nat] /\ doubt \in [Offered -> Nat]
          /\ Key \in Offered => ~Committed(Key)
      BY <2>1 DEF IInv, Executed
    <2>3. /\ exec' \in [phase : {"none", "skip", "attempt", "receipt", "compensate"}, attempt : Nat]
          /\ exec'.phase \in {"attempt", "compensate"}
      BY <2>1, <2>2
    <2>4. effects' \in [Offered -> Nat] /\ doubt' \in [Offered -> Nat]
      BY <2>1, <2>2, OneMore
    <2>5. Executed'
      BY <1>1, <1>2, <1>3, <1>4, <2>2, <2>3, <2>4 DEF Executed
    <2>. QED  BY <1>2, <2>5 DEF IInv
  <1>. QED  BY <1>5, <1>6, <1>7

LEMMA CrashKeepsIInv ==
  ASSUME IInv, Crash
  PROVE  IInv'
  <1>1. /\ UNCHANGED <<ledger, tier, effects, uiClock, reader>>
        /\ exec' = NotExecuting /\ clock' = Snapshot.lamport
        /\ doubt' = IF exec.phase = "receipt" THEN [doubt EXCEPT ![Key] = @ + 1] ELSE doubt
    BY DEF Crash, Restart
  <1>2. /\ \A k : Committed(k)' <=> Committed(k)
        /\ Log' /\ Current' /\ Waiting' /\ Vetted' /\ ReaderBehind' /\ AuthorizedFirst'
    BY <1>1, LedgerUnchanged
  <1>3. Ordered'
    <2>1. PICK S : ledger \in Seq(S)
      BY DEF IInv, Log
    <2>2. Written => Last(ledger).clock \in Nat
      BY <2>1 DEF IInv, Log, Written, Last
    <2>3. clock' \in Nat /\ (Written => clock' = Last(ledger).clock)
      BY <1>1, <2>2 DEF IInv, Current
    <2>. HIDE DEF Written
    <2>4. Written' <=> Written
      BY <1>1 DEF Written
    <2>. QED  BY <1>1, <2>3, <2>4 DEF IInv, Ordered
  <1>4. Executed'
    <2>1. effects \in [Offered -> Nat] /\ doubt \in [Offered -> Nat]
      BY DEF IInv, Executed
    <2>2. doubt' \in [Offered -> Nat]
      <3>1. [doubt EXCEPT ![Key] = @ + 1] \in [Offered -> Nat]
        BY <2>1, OneMore
      <3>. QED  BY <1>1, <2>1, <3>1
    <2>. HIDE DEF Committed
    <2>. QED  BY <1>1, <1>2, <2>1, <2>2 DEF Executed, NotExecuting
  <1>. QED  BY <1>2, <1>3, <1>4 DEF IInv

LEMMA ReadKeepsIInv ==
  ASSUME IInv, ReadAll \/ CatchUp
  PROVE  IInv'
  <1>1. UNCHANGED <<ledger, tier, exec, effects, doubt, clock, uiClock>>
    BY DEF ReadAll, CatchUp
  <1>2. /\ Log' /\ Current' /\ Ordered' /\ Waiting' /\ Vetted' /\ AuthorizedFirst'
    BY <1>1, LedgerUnchanged
  <1>3. Executed'
    BY <1>1 DEF IInv, Executed, Committed, Written, Key
  <1>4. PICK S : ledger \in Seq(S)
    BY DEF IInv, Log
  <1>. DEFINE n == Len(ledger)
  <1>5. n \in Nat /\ SubSeq(ledger, 1, n) = ledger
    BY <1>4
  <1>6. Written /\ reader' = Snapshot
    <2>1. CASE ReadAll
      BY <1>4, <2>1 DEF ReadAll, Written
    <2>2. CASE CatchUp
      <3>1. /\ reader.count > 0
            /\ reader' = Reduce(reader, SubSeq(ledger, reader.seq + 2, n))
        BY <2>2 DEF CatchUp, ReadSince
      <3>2. /\ reader.seq \in Nat /\ reader.seq + 1 \in 1..n
            /\ reader = Reduce(Snapshot0, SubSeq(ledger, 1, reader.seq + 1))
        BY <3>1 DEF IInv, ReaderBehind
      <3>. DEFINE k == reader.seq + 1
      <3>3. k \in 0..n /\ k \in 1..n /\ reader = Reduce(Snapshot0, SubSeq(ledger, 1, k))
        BY <1>5, <3>2
      <3>4. ReadSince(reader.seq) = SubSeq(ledger, k + 1, n)
        <4>1. reader.seq + 2 = k + 1
          BY <3>2
        <4>. QED  BY <4>1 DEF ReadSince
      <3>5. reader' = Reduce(reader, SubSeq(ledger, k + 1, n))
        BY <3>1, <3>4 DEF ReadSince
      <3>. HIDE DEF k
      <3>6. Reduce(Reduce(Snapshot0, SubSeq(ledger, 1, k)), SubSeq(ledger, k + 1, n))
              = Reduce(Snapshot0, ledger)
        BY <1>4, <3>3, ReduceSplit
      <3>7. Written
        BY <1>5, <3>3 DEF Written
      <3>. QED  BY <3>3, <3>5, <3>6, <3>7 DEF Snapshot
    <2>. QED  BY <2>1, <2>2
  <1>7. Snapshot.seq \in Nat /\ Snapshot.seq + 1 = n /\ n \in 1..n
    BY <1>5, <1>6 DEF IInv, Current, Written
  <1>8. ReaderBehind'
    <2>1. /\ reader'.seq \in Nat /\ reader'.seq + 1 = n
          /\ reader' = Reduce(Snapshot0, ledger)
      BY <1>6, <1>7 DEF Snapshot
    <2>2. reader' = Reduce(Snapshot0, SubSeq(ledger', 1, reader'.seq + 1))
      BY <1>1, <1>5, <2>1
    <2>. QED  BY <1>1, <1>7, <2>1, <2>2 DEF ReaderBehind
  <1>. QED  BY <1>2, <1>3, <1>8 DEF IInv

LEMMA NextIInv == IInv /\ [Next]_vars => IInv'
  <1>. SUFFICES ASSUME IInv, [Next]_vars PROVE IInv'
    OBVIOUS
  <1>1. CASE UNCHANGED vars
    <2>1. UNCHANGED <<ledger, tier, exec, effects, doubt, clock, uiClock, reader>>
      BY <1>1 DEF vars
    <2>2. Executed'
      BY <2>1 DEF IInv, Executed, Committed, Written, Key
    <2>. QED  BY <2>1, <2>2, LedgerUnchanged DEF IInv
  <1>2. CASE CreateTask
    BY <1>2, CreateTaskKeepsIInv
  <1>3. CASE Halt
    BY <1>3, HaltKeepsIInv
  <1>4. CASE Crash
    BY <1>4, CrashKeepsIInv
  <1>5. CASE ReadAll \/ CatchUp
    BY <1>5, ReadKeepsIInv
  <1>6. ASSUME NEW r \in {"APPROVED", "REJECTED", "TIMED_OUT"}, Resolve(r)
        PROVE  IInv'
    BY <1>6, ResolveKeepsIInv
  <1>7. CASE Loop
    <2>1. CASE Decided
      BY <2>1, DecidedKeepsIInv
    <2>2. CASE Resolved
      BY <2>2, ResolvedKeepsIInv
    <2>3. CASE Execute \/ AttemptSucceeds \/ AttemptFails \/ AttemptRaises
      BY <2>3, AttemptKeepsIInv
    <2>4. CASE \/ StartCognition \/ Propose \/ StartPolicy \/ Evaluate \/ RequestAuthorization
               \/ Register \/ Commit \/ CompensationSucceeds \/ CompensationFails \/ ObserveNoOp
               \/ Observe \/ Route \/ NextStep
      BY <2>4, LoopWritesKeepIInv
    <2>. QED  BY <1>7, <2>1, <2>2, <2>3, <2>4 DEF Loop
  <1>. QED  BY <1>1, <1>2, <1>3, <1>4, <1>5, <1>6, <1>7 DEF Next

LEMMA Invariant == Spec => []IInv
  BY InitIInv, NextIInv, PTL DEF Spec

-----------------------------------------------------------------------------
(* The runtime keeps the promise of Effects: an attempt that succeeds is   *)
(* TakePlace, one that raises after its effect TakePlaceUnnoticed, Commit  *)
(* is Record, a crash is Die, and all else is no step.                     *)

CommitsOf(k) == Keyed("SIDE_EFFECT_COMMITTED", k)

LEMMA RecordsType ==
  ASSUME Log
  PROVE  /\ \A k \in Offered : IsFiniteSet(CommitsOf(k)) /\ Records[k] = Cardinality(CommitsOf(k))
         /\ Records \in [Offered -> Nat]
  <1>1. ASSUME NEW k \in Offered
        PROVE  IsFiniteSet(CommitsOf(k)) /\ Cardinality(CommitsOf(k)) \in Nat
    <2>1. PICK S : ledger \in Seq(S)
      BY DEF Log
    <2>2. CommitsOf(k) \subseteq 1..Len(ledger) /\ 0 \in Int /\ 1 \in Int /\ Len(ledger) \in Int
      BY <2>1 DEF CommitsOf, Keyed
    <2>3. IsFiniteSet(1..Len(ledger))
      BY <2>2, FS_Interval
    <2>4. IsFiniteSet(CommitsOf(k))
      BY <2>2, <2>3, FS_Subset
    <2>. QED  BY <2>4, FS_CardinalityType
  <1>2. Records = [k \in Offered |-> Cardinality(CommitsOf(k))]
    BY DEF Records, CommitsOf
  <1>. HIDE DEF CommitsOf
  <1>. QED  BY <1>1, <1>2

LEMMA NoCommits ==
  ASSUME Log, NEW k \in Offered, ~Committed(k)
  PROVE  Records[k] = 0
  <1>1. PICK S : ledger \in Seq(S)
    BY DEF Log
  <1>2. CommitsOf(k) = {}
    BY <1>1 DEF CommitsOf, Keyed, Committed
  <1>. QED  BY <1>2, RecordsType, FS_EmptySet

(* What one more event adds to the commits.                                *)
LEMMA CommitsAfter ==
  ASSUME Log, IsSnapshot(Snapshot), NEW T \in EventTypes, NEW q, NEW c \in Nat, Post(T, q, c)
  PROVE  /\ T # "SIDE_EFFECT_COMMITTED" => Records' = Records
         /\ T = "SIDE_EFFECT_COMMITTED" =>
              Records' = [k \in Offered |-> IF k = q THEN Records[k] + 1 ELSE Records[k]]
  <1>. DEFINE n == Len(ledger)
  <1>1. /\ n \in Nat /\ Len(ledger') = n + 1
        /\ \A i \in 1..n : ledger'[i] = ledger[i]
        /\ ledger'[n + 1].type = T /\ ledger'[n + 1].payload = q
        /\ Log'
    BY Appended
  <1>2. DOMAIN ledger = 1..n /\ DOMAIN ledger' = 1..(n + 1)
    BY <1>1 DEF Log
  <1>. HIDE DEF n
  <1>3. ASSUME NEW k
        PROVE  /\ ~(T = "SIDE_EFFECT_COMMITTED" /\ q = k) => CommitsOf(k)' = CommitsOf(k)
               /\ T = "SIDE_EFFECT_COMMITTED" /\ q = k =>
                    CommitsOf(k)' = CommitsOf(k) \cup {n + 1}
               /\ n + 1 \notin CommitsOf(k)
    <2>1. \A i : i \in CommitsOf(k) <=>
            i \in 1..n /\ ledger[i].type = "SIDE_EFFECT_COMMITTED" /\ ledger[i].payload = k
      BY <1>2 DEF CommitsOf, Keyed
    <2>2. \A i : i \in CommitsOf(k)' <=>
            i \in 1..(n + 1) /\ ledger'[i].type = "SIDE_EFFECT_COMMITTED" /\ ledger'[i].payload = k
      BY <1>2 DEF CommitsOf, Keyed
    <2>3. \A i : i \in 1..(n + 1) <=> i \in 1..n \/ i = n + 1
      BY <1>1
    <2>4. n + 1 \notin 1..n
      BY <1>1
    <2>5. \A i : i \in CommitsOf(k)' <=>
            i \in CommitsOf(k) \/ (i = n + 1 /\ T = "SIDE_EFFECT_COMMITTED" /\ q = k)
      BY <1>1, <2>1, <2>2, <2>3
    <2>6. n + 1 \notin CommitsOf(k)
      BY <2>1, <2>4
    <2>. HIDE DEF CommitsOf
    <2>. QED  BY <2>5, <2>6
  <1>4. /\ \A k \in Offered : IsFiniteSet(CommitsOf(k)) /\ Records[k] = Cardinality(CommitsOf(k))
        /\ Records \in [Offered -> Nat]
    BY RecordsType
  <1>5. Records' = [k \in Offered |-> Cardinality(CommitsOf(k)')]
    BY DEF Records, CommitsOf
  <1>. HIDE DEF CommitsOf
  <1>6. ASSUME T # "SIDE_EFFECT_COMMITTED" PROVE Records' = Records
    <2>1. \A k \in Offered : Cardinality(CommitsOf(k)') = Records[k]
      BY <1>3, <1>4, <1>6
    <2>2. Records' = [k \in Offered |-> Records[k]]
      BY <1>5, <2>1
    <2>. QED  BY <1>4, <2>2
  <1>7. ASSUME T = "SIDE_EFFECT_COMMITTED"
        PROVE  Records' = [k \in Offered |-> IF k = q THEN Records[k] + 1 ELSE Records[k]]
    <2>1. ASSUME NEW k \in Offered
          PROVE  Cardinality(CommitsOf(k)') = IF k = q THEN Records[k] + 1 ELSE Records[k]
      <3>1. CASE k = q
        <4>1. CommitsOf(k)' = CommitsOf(k) \cup {n + 1} /\ n + 1 \notin CommitsOf(k)
          BY <1>3, <1>7, <3>1
        <4>2. Cardinality(CommitsOf(k) \cup {n + 1}) = Cardinality(CommitsOf(k)) + 1
          BY <1>4, <4>1, FS_AddElement
        <4>. QED  BY <1>4, <3>1, <4>1, <4>2
      <3>2. CASE k # q
        <4>1. CommitsOf(k)' = CommitsOf(k)
          BY <1>3, <3>2
        <4>. QED  BY <1>4, <3>2, <4>1
      <3>. QED  BY <3>1, <3>2
    <2>. QED  BY <1>5, <2>1
  <1>. QED  BY <1>6, <1>7

(* A step without an effect, a commit or a crash.                          *)
LEMMA Unnoticed ==
  ASSUME UNCHANGED <<effects, doubt>>, Records' = Records,
         exec.phase # "receipt", exec'.phase # "receipt"
  PROVE  UNCHANGED Promise!vars
  <1>1. Unrecorded = {} /\ Unrecorded' = {}
    BY DEF Unrecorded
  <1>. QED  BY <1>1 DEF Promise!vars

LEMMA WriteUnnoticed ==
  ASSUME IInv, UNCHANGED <<effects, doubt>>, exec.phase # "receipt", exec'.phase # "receipt",
         NEW T \in EventTypes \ {"SIDE_EFFECT_COMMITTED"}, NEW q, NEW c \in Nat, Post(T, q, c)
  PROVE  UNCHANGED Promise!vars
  <1>1. Log /\ IsSnapshot(Snapshot)
    BY DEF IInv, Current
  <1>2. Records' = Records
    BY <1>1, CommitsAfter
  <1>. QED  BY <1>2, Unnoticed

LEMMA EventUnnoticed ==
  ASSUME IInv, NEW T \in EventTypes \ {"SIDE_EFFECT_COMMITTED"}, NEW q,
         Record(T, q), UNCHANGED <<effects, doubt>>,
         exec.phase # "receipt", exec' \in {exec, NotExecuting}
  PROVE  UNCHANGED Promise!vars
  <1>1. Post(T, q, clock + 1) /\ clock + 1 \in Nat
    BY DEF Record, IInv, Ordered
  <1>2. exec'.phase # "receipt"
    BY DEF NotExecuting
  <1>. QED  BY <1>1, <1>2, WriteUnnoticed

LEMMA TaskUnnoticed ==
  ASSUME IInv, CreateTask
  PROVE  UNCHANGED Promise!vars
  <1>1. /\ Record("TASK_CREATED", None)
        /\ UNCHANGED <<exec, effects, doubt>> /\ (ledger = <<>> \/ Tip("FSM_TRANSITIONED"))
    BY DEF CreateTask, Note, Entered
  <1>2. exec.phase # "receipt"
    <2>1. CASE ledger = <<>>
      BY <2>1 DEF IInv, Executed, Written
    <2>2. CASE Tip("FSM_TRANSITIONED")
      BY <2>2, TipFacts DEF NotExecuting
    <2>. QED  BY <1>1, <2>1, <2>2
  <1>3. "TASK_CREATED" \in EventTypes \ {"SIDE_EFFECT_COMMITTED"}
    BY DEF EventTypes
  <1>. QED  BY <1>1, <1>2, <1>3, EventUnnoticed

LEMMA LoopUnnoticed ==
  ASSUME IInv,
         \/ StartCognition \/ Propose \/ StartPolicy \/ Evaluate \/ Decided
         \/ RequestAuthorization \/ Register \/ Observe \/ Route \/ NextStep \/ Halt
  PROVE  UNCHANGED Promise!vars
  <1>. HIDE DEF Snapshot
  <1>. DEFINE Quiet == {"FSM_TRANSITIONED", "COGNITION_PROPOSED", "POLICY_EVALUATED",
                        "AUTHORIZATION_REQUESTED", "SIDE_EFFECT_REGISTERED",
                        "OBSERVATION_RECORDED"}
  <1>1. ASSUME NEW T \in Quiet, NEW q, Record(T, q), UNCHANGED <<exec, effects, doubt>>,
               exec.phase # "receipt"
        PROVE  UNCHANGED Promise!vars
    <2>1. T \in EventTypes \ {"SIDE_EFFECT_COMMITTED"}
      BY DEF EventTypes
    <2>. QED  BY <1>1, <2>1, EventUnnoticed
  <1>2. ASSUME NEW type, Tip(type), type # "SIDE_EFFECT_REGISTERED"
        PROVE  exec.phase # "receipt"
    BY <1>2, TipFacts DEF NotExecuting
  <1>3. ASSUME NEW to, Transition(to), exec.phase # "receipt" PROVE UNCHANGED Promise!vars
    <2>1. Record("FSM_TRANSITIONED", to) /\ UNCHANGED <<exec, effects, doubt>>
      BY <1>3 DEF Transition, Enter
    <2>. QED  BY <1>1, <1>3, <2>1
  <1>4. ASSUME NEW T \in Quiet, NEW q, Note(T, q), exec.phase # "receipt"
        PROVE  UNCHANGED Promise!vars
    <2>1. Record(T, q) /\ UNCHANGED <<exec, effects, doubt>>
      BY <1>4 DEF Note
    <2>. QED  BY <1>1, <1>4, <2>1
  <1>. HIDE DEF Tip, Transition, Enter, Note
  <1>5. CASE StartCognition \/ StartPolicy \/ Decided \/ Route \/ NextStep
    <2>1. \E type, to : Tip(type) /\ type # "SIDE_EFFECT_REGISTERED" /\ Transition(to)
      BY <1>5 DEF StartCognition, StartPolicy, Decided, Route, NextStep, Entered
    <2>. QED  BY <1>2, <1>3, <2>1
  <1>6. CASE Propose \/ Evaluate \/ RequestAuthorization \/ Register \/ Observe
    <2>1. \E type, q : \E T \in Quiet :
            Tip(type) /\ type # "SIDE_EFFECT_REGISTERED" /\ Note(T, q)
      BY <1>6 DEF Propose, Evaluate, RequestAuthorization, Register, Observe, Entered
    <2>. HIDE DEF Quiet
    <2>. QED  BY <1>2, <1>4, <2>1
  <1>7. CASE Halt
    BY <1>3, <1>7 DEF Halt
  <1>. QED  BY <1>5, <1>6, <1>7

LEMMA AnswersUnnoticed ==
  ASSUME IInv, Resolved \/ \E r \in {"APPROVED", "REJECTED", "TIMED_OUT"} : Resolve(r)
  PROVE  UNCHANGED Promise!vars
  <1>. HIDE DEF Snapshot
  <1>0. /\ clock \in Nat /\ uiClock \in Nat
        /\ \A i \in 1..Len(ledger) : ledger[i].clock \in Nat
    BY DEF IInv, Ordered, Log
  <1>1. CASE Resolved
    <2>. DEFINE e == Last(ledger)
                c == (IF clock > e.clock THEN clock ELSE e.clock) + 1 + 1
    <2>1. /\ Tip("AUTHORIZATION_RESOLVED") /\ UNCHANGED <<exec, effects, doubt>>
          /\ \E to : Post("FSM_TRANSITIONED", to, c)
      BY <1>1 DEF Resolved
    <2>2. exec.phase # "receipt" /\ e.clock \in Nat
      BY <2>1, TipFacts DEF NotExecuting
    <2>3. c \in Nat
      BY <1>0, <2>2
    <2>4. "FSM_TRANSITIONED" \in EventTypes \ {"SIDE_EFFECT_COMMITTED"}
      BY DEF EventTypes
    <2>. HIDE DEF c
    <2>. QED  BY <2>1, <2>2, <2>3, <2>4, WriteUnnoticed
  <1>2. ASSUME NEW r, Resolve(r) PROVE UNCHANGED Promise!vars
    <2>1. PICK i \in Requests :
            /\ Resolutions(i) = {}
            /\ LET sent == (IF uiClock > ledger[i].clock THEN uiClock ELSE ledger[i].clock) + 2
               IN  Post("AUTHORIZATION_RESOLVED", [request |-> i, resolution |-> r], sent)
      BY <1>2 DEF Resolve
    <2>. DEFINE sent == (IF uiClock > ledger[i].clock THEN uiClock ELSE ledger[i].clock) + 2
                q == [request |-> i, resolution |-> r]
    <2>2. Post("AUTHORIZATION_RESOLVED", q, sent) /\ UNCHANGED <<exec, effects, doubt>>
      BY <1>2, <2>1 DEF Resolve
    <2>3. PICK S : ledger \in Seq(S)
      BY DEF IInv, Log
    <2>4. i \in 1..Len(ledger) /\ Open(i) /\ ledger[i].type = "AUTHORIZATION_REQUESTED"
      BY <2>1, <2>3 DEF Requests, Open
    <2>5. sent \in Nat
      BY <1>0, <2>4
    <2>6. exec.phase # "receipt"
      <3>1. Last(ledger) = ledger[Len(ledger)]
        BY <2>3, <2>4 DEF Last
      <3>2. Last(ledger).type # "SIDE_EFFECT_REGISTERED"
        BY <2>4, <3>1 DEF IInv, Waiting
      <3>. QED  BY <3>2 DEF IInv, Executed
    <2>7. "AUTHORIZATION_RESOLVED" \in EventTypes \ {"SIDE_EFFECT_COMMITTED"}
      BY DEF EventTypes
    <2>. HIDE DEF sent, q
    <2>. QED  BY <2>2, <2>5, <2>6, <2>7, WriteUnnoticed
  <1>. QED  BY <1>1, <1>2

LEMMA OthersUnnoticed ==
  ASSUME IInv,
         \/ CompensationSucceeds \/ CompensationFails \/ ObserveNoOp
         \/ Execute \/ AttemptFails \/ ReadAll \/ CatchUp \/ UNCHANGED vars
  PROVE  UNCHANGED Promise!vars
  <1>. HIDE DEF Snapshot
  <1>1. CASE CompensationSucceeds \/ CompensationFails \/ ObserveNoOp
    <2>1. PICK T, q :
            /\ T \in {"SIDE_EFFECT_ROLLED_BACK", "FSM_TRANSITIONED", "OBSERVATION_RECORDED"}
            /\ Record(T, q) /\ exec' = NotExecuting /\ UNCHANGED <<effects, doubt>>
            /\ exec.phase # "receipt"
      BY <1>1 DEF CompensationSucceeds, CompensationFails, ObserveNoOp, Phase, Settle, Enter
    <2>3. T \in EventTypes \ {"SIDE_EFFECT_COMMITTED"}
      BY <2>1 DEF EventTypes
    <2>. QED  BY <2>1, <2>3, EventUnnoticed
  <1>2. CASE Execute \/ AttemptFails
    <2>1. UNCHANGED <<ledger, effects, doubt>> /\ exec.phase # "receipt"
      BY <1>2 DEF Execute, AttemptFails, Phase
    <2>2. exec'.phase # "receipt"
      <3>1. CASE Execute
        BY <3>1 DEF Execute
      <3>2. CASE AttemptFails
        <4>1. /\ exec \in [phase : {"none", "skip", "attempt", "receipt", "compensate"},
                           attempt : Nat]
              /\ exec.phase = "attempt"
          BY <3>2 DEF IInv, Executed, AttemptFails, Phase
        <4>. QED  BY <3>2, <4>1 DEF AttemptFails, TryAgain
      <3>. QED  BY <1>2, <3>1, <3>2
    <2>3. Records' = Records
      BY <2>1 DEF Records, Keyed
    <2>. QED  BY <2>1, <2>2, <2>3, Unnoticed
  <1>3. CASE ReadAll \/ CatchUp \/ UNCHANGED vars
    <2>1. UNCHANGED <<ledger, exec, effects, doubt>>
      BY <1>3 DEF ReadAll, CatchUp, vars
    <2>. QED  BY <2>1 DEF Promise!vars, Records, Unrecorded, Keyed, Key
  <1>. QED  BY <1>1, <1>2, <1>3

LEMMA EffectTakesPlace ==
  ASSUME IInv, AttemptSucceeds
  PROVE  [Promise!Next]_(Promise!vars)
  <1>1. /\ exec.phase = "attempt" /\ exec' = [exec EXCEPT !.phase = "receipt"]
        /\ effects' = [effects EXCEPT ![Key] = @ + 1] /\ UNCHANGED <<ledger, doubt>>
        /\ effects \in [Offered -> Nat]
        /\ exec \in [phase : {"none", "skip", "attempt", "receipt", "compensate"}, attempt : Nat]
        /\ Key \in Offered => ~Committed(Key)
    BY DEF AttemptSucceeds, Phase, IInv, Executed
  <1>2. Records' = Records /\ Key' = Key
    BY <1>1 DEF Records, Keyed, Key
  <1>3. exec'.phase = "receipt"
    BY <1>1
  <1>. HIDE DEF Key
  <1>4. Unrecorded = {} /\ Unrecorded' = {k \in Offered : Key = k}
    BY <1>1, <1>2, <1>3 DEF Unrecorded
  <1>5. CASE Key \in Offered
    <2>1. Records[Key] = 0
      BY <1>1, <1>5, NoCommits DEF IInv
    <2>2. Unrecorded' = Unrecorded \cup {Key}
      BY <1>4, <1>5
    <2>3. Promise!TakePlace(Key)
      BY <1>1, <1>2, <1>4, <2>1, <2>2 DEF Promise!TakePlace
    <2>. QED  BY <1>5, <2>3 DEF Promise!Next
  <1>6. CASE Key \notin Offered
    <2>1. effects' = effects
      BY <1>1, <1>6
    <2>2. Unrecorded' = Unrecorded
      BY <1>4, <1>6
    <2>. QED  BY <1>1, <1>2, <2>1, <2>2 DEF Promise!vars
  <1>. QED  BY <1>5, <1>6

LEMMA RaiseIsUnnoticed ==
  ASSUME IInv, AttemptRaises
  PROVE  [Promise!Next]_(Promise!vars)
  <1>1. /\ exec.phase = "attempt" /\ TryAgain /\ UNCHANGED ledger
        /\ effects' = [effects EXCEPT ![Key] = @ + 1]
        /\ doubt' = [doubt EXCEPT ![Key] = @ + 1]
        /\ effects \in [Offered -> Nat] /\ doubt \in [Offered -> Nat]
        /\ exec \in [phase : {"none", "skip", "attempt", "receipt", "compensate"}, attempt : Nat]
        /\ Key \in Offered => ~Committed(Key)
    BY DEF AttemptRaises, Phase, IInv, Executed
  <1>2. Records' = Records
    BY <1>1 DEF Records, Keyed
  <1>3. exec'.phase \in {"attempt", "compensate"}
    BY <1>1 DEF TryAgain
  <1>. HIDE DEF Key
  <1>4. Unrecorded = {} /\ Unrecorded' = {}
    BY <1>1, <1>3 DEF Unrecorded
  <1>5. CASE Key \in Offered
    <2>1. Records[Key] = 0
      BY <1>1, <1>5, NoCommits DEF IInv
    <2>2. Promise!TakePlaceUnnoticed(Key)
      BY <1>1, <1>2, <1>4, <2>1 DEF Promise!TakePlaceUnnoticed
    <2>. QED  BY <1>5, <2>2 DEF Promise!Next
  <1>6. CASE Key \notin Offered
    <2>1. effects' = effects /\ doubt' = doubt
      BY <1>1, <1>6
    <2>. QED  BY <1>2, <1>4, <2>1 DEF Promise!vars
  <1>. QED  BY <1>5, <1>6

LEMMA CommitIsRecord ==
  ASSUME IInv, Commit
  PROVE  [Promise!Next]_(Promise!vars)
  <1>1. /\ exec.phase = "receipt" /\ exec' = NotExecuting /\ UNCHANGED <<effects, doubt>>
        /\ Post("SIDE_EFFECT_COMMITTED", Key, clock + 1)
    BY DEF Commit, Phase, Settle, Record
  <1>. DEFINE key == Key
  <1>2. Unrecorded = {k \in Offered : key = k} /\ Unrecorded' = {}
    BY <1>1 DEF Unrecorded, NotExecuting
  <1>3. Log /\ IsSnapshot(Snapshot) /\ clock + 1 \in Nat
    BY DEF IInv, Current, Ordered
  <1>4. "SIDE_EFFECT_COMMITTED" \in EventTypes
    BY DEF EventTypes
  <1>. HIDE DEF key
  <1>5. Post("SIDE_EFFECT_COMMITTED", key, clock + 1)
    BY <1>1 DEF key
  <1>6. Records' = [k \in Offered |-> IF k = key THEN Records[k] + 1 ELSE Records[k]]
    BY <1>3, <1>4, <1>5, CommitsAfter
  <1>7. Records \in [Offered -> Nat]
    BY <1>3, RecordsType
  <1>8. CASE key \in Offered
    <2>1. Records' = [Records EXCEPT ![key] = @ + 1]
      BY <1>6, <1>7, <1>8
    <2>2. key \in Unrecorded /\ Unrecorded' = Unrecorded \ {key}
      BY <1>2, <1>8
    <2>3. Promise!Record(key)
      BY <1>1, <2>1, <2>2 DEF Promise!Record
    <2>. QED  BY <1>8, <2>3 DEF Promise!Next
  <1>9. CASE key \notin Offered
    <2>1. Records' = [k \in Offered |-> Records[k]]
      BY <1>6, <1>9
    <2>2. Records' = Records
      BY <1>7, <2>1
    <2>3. Unrecorded' = Unrecorded
      BY <1>2, <1>9
    <2>. QED  BY <1>1, <2>2, <2>3 DEF Promise!vars
  <1>. QED  BY <1>8, <1>9

LEMMA CrashForgets ==
  ASSUME IInv, Crash
  PROVE  Promise!Die
  <1>1. /\ exec' = NotExecuting /\ UNCHANGED <<ledger, effects>>
        /\ doubt' = IF exec.phase = "receipt" THEN [doubt EXCEPT ![Key] = @ + 1] ELSE doubt
        /\ doubt \in [Offered -> Nat]
    BY DEF Crash, Restart, IInv, Executed
  <1>2. Records' = Records
    BY <1>1 DEF Records, Keyed
  <1>3. Unrecorded' = {}
    BY <1>1 DEF Unrecorded, NotExecuting
  <1>. HIDE DEF Key
  <1>4. doubt' = [k \in Offered |-> IF k \in Unrecorded THEN doubt[k] + 1 ELSE doubt[k]]
    <2>1. CASE exec.phase = "receipt"
      <3>1. \A k \in Offered : k \in Unrecorded <=> k = Key
        BY <2>1 DEF Unrecorded
      <3>2. doubt' = [k \in Offered |-> IF k = Key THEN doubt[k] + 1 ELSE doubt[k]]
        BY <1>1, <2>1
      <3>. QED  BY <3>1, <3>2
    <2>2. CASE exec.phase # "receipt"
      <3>1. Unrecorded = {}
        BY <2>2 DEF Unrecorded
      <3>. QED  BY <1>1, <2>2, <3>1
    <2>. QED  BY <2>1, <2>2
  <1>. QED  BY <1>1, <1>2, <1>3, <1>4 DEF Promise!Die

LEMMA NextImplementsPromise ==
  ASSUME IInv, [Next]_vars
  PROVE  [Promise!Next]_(Promise!vars)
  <1>1. CASE CreateTask
    BY <1>1, TaskUnnoticed
  <1>2. CASE \/ StartCognition \/ Propose \/ StartPolicy \/ Evaluate \/ Decided
             \/ RequestAuthorization \/ Register \/ Observe \/ Route \/ NextStep \/ Halt
    BY <1>2, LoopUnnoticed
  <1>3. CASE Resolved \/ \E r \in {"APPROVED", "REJECTED", "TIMED_OUT"} : Resolve(r)
    BY <1>3, AnswersUnnoticed
  <1>4. CASE \/ CompensationSucceeds \/ CompensationFails \/ ObserveNoOp
             \/ Execute \/ AttemptFails \/ ReadAll \/ CatchUp \/ UNCHANGED vars
    BY <1>4, OthersUnnoticed
  <1>5. CASE AttemptSucceeds
    BY <1>5, EffectTakesPlace
  <1>6. CASE Commit
    BY <1>6, CommitIsRecord
  <1>7. CASE Crash
    BY <1>7, CrashForgets DEF Promise!Next
  <1>8. CASE AttemptRaises
    BY <1>8, RaiseIsUnnoticed
  <1>. QED  BY <1>1, <1>2, <1>3, <1>4, <1>5, <1>6, <1>7, <1>8 DEF Next, Loop

(* What the promise says of the numbers: it holds in every behaviour that  *)
(* keeps the promise.                                                      *)
LEMMA PromiseIsAccounted ==
  ASSUME Promise!Accounted, [Promise!Next]_(Promise!vars),
         effects \in [Offered -> Nat], doubt \in [Offered -> Nat], Records \in [Offered -> Nat]
  PROVE  Promise!Accounted'
  <1>. SUFFICES ASSUME NEW k \in Offered
                PROVE  \/ k \in Unrecorded' /\ Records'[k] = 0 /\ effects'[k] = doubt'[k] + 1
                       \/ /\ k \notin Unrecorded' /\ Records'[k] \in {0, 1}
                          /\ effects'[k] = doubt'[k] + Records'[k]
    BY DEF Promise!Accounted
  <1>1. /\ \/ k \in Unrecorded /\ Records[k] = 0 /\ effects[k] = doubt[k] + 1
           \/ k \notin Unrecorded /\ Records[k] \in {0, 1} /\ effects[k] = doubt[k] + Records[k]
        /\ effects[k] \in Nat /\ doubt[k] \in Nat /\ Records[k] \in Nat
    BY DEF Promise!Accounted
  <1>2. CASE UNCHANGED Promise!vars
    BY <1>1, <1>2 DEF Promise!vars
  <1>3. CASE Promise!Die
    <2>1. /\ doubt'[k] = IF k \in Unrecorded THEN doubt[k] + 1 ELSE doubt[k]
          /\ Unrecorded' = {} /\ effects' = effects /\ Records' = Records
      BY <1>3 DEF Promise!Die
    <2>. QED  BY <1>1, <2>1
  <1>4. ASSUME NEW key \in Offered, Promise!TakePlace(key)
        PROVE  \/ k \in Unrecorded' /\ Records'[k] = 0 /\ effects'[k] = doubt'[k] + 1
               \/ /\ k \notin Unrecorded' /\ Records'[k] \in {0, 1}
                  /\ effects'[k] = doubt'[k] + Records'[k]
    <2>1. /\ Records[key] = 0 /\ key \notin Unrecorded
          /\ effects' = [effects EXCEPT ![key] = @ + 1]
          /\ Unrecorded' = Unrecorded \cup {key} /\ Records' = Records /\ doubt' = doubt
      BY <1>4 DEF Promise!TakePlace
    <2>2. CASE k = key
      <3>1. effects'[k] = effects[k] + 1 /\ k \in Unrecorded' /\ Records'[k] = 0
            /\ doubt'[k] = doubt[k] /\ k \notin Unrecorded /\ Records[k] = 0
        BY <2>1, <2>2
      <3>. QED  BY <1>1, <3>1
    <2>3. CASE k # key
      <3>1. effects'[k] = effects[k] /\ (k \in Unrecorded' <=> k \in Unrecorded)
            /\ Records'[k] = Records[k] /\ doubt'[k] = doubt[k]
        BY <2>1, <2>3
      <3>. QED  BY <1>1, <3>1
    <2>. QED  BY <2>2, <2>3
  <1>5. ASSUME NEW key \in Offered, Promise!Record(key)
        PROVE  \/ k \in Unrecorded' /\ Records'[k] = 0 /\ effects'[k] = doubt'[k] + 1
               \/ /\ k \notin Unrecorded' /\ Records'[k] \in {0, 1}
                  /\ effects'[k] = doubt'[k] + Records'[k]
    <2>1. /\ key \in Unrecorded /\ Records' = [Records EXCEPT ![key] = @ + 1]
          /\ Unrecorded' = Unrecorded \ {key} /\ effects' = effects /\ doubt' = doubt
      BY <1>5 DEF Promise!Record
    <2>2. CASE k = key
      <3>1. Records'[k] = Records[k] + 1 /\ k \notin Unrecorded' /\ k \in Unrecorded
            /\ effects'[k] = effects[k] /\ doubt'[k] = doubt[k]
        BY <2>1, <2>2
      <3>. QED  BY <1>1, <3>1
    <2>3. CASE k # key
      <3>1. effects'[k] = effects[k] /\ (k \in Unrecorded' <=> k \in Unrecorded)
            /\ Records'[k] = Records[k] /\ doubt'[k] = doubt[k]
        BY <2>1, <2>3
      <3>. QED  BY <1>1, <3>1
    <2>. QED  BY <2>2, <2>3
  <1>6. ASSUME NEW key \in Offered, Promise!TakePlaceUnnoticed(key)
        PROVE  \/ k \in Unrecorded' /\ Records'[k] = 0 /\ effects'[k] = doubt'[k] + 1
               \/ /\ k \notin Unrecorded' /\ Records'[k] \in {0, 1}
                  /\ effects'[k] = doubt'[k] + Records'[k]
    <2>1. /\ effects' = [effects EXCEPT ![key] = @ + 1]
          /\ doubt' = [doubt EXCEPT ![key] = @ + 1]
          /\ Unrecorded' = Unrecorded /\ Records' = Records
      BY <1>6 DEF Promise!TakePlaceUnnoticed
    <2>2. CASE k = key
      <3>1. effects'[k] = effects[k] + 1 /\ doubt'[k] = doubt[k] + 1
        BY <2>1, <2>2
      <3>. QED  BY <1>1, <2>1, <3>1
    <2>3. CASE k # key
      <3>1. effects'[k] = effects[k] /\ doubt'[k] = doubt[k]
        BY <2>1, <2>3
      <3>. QED  BY <1>1, <2>1, <3>1
    <2>. QED  BY <2>2, <2>3
  <1>. QED  BY <1>2, <1>3, <1>4, <1>5, <1>6 DEF Promise!Next

LEMMA InitPromise == Init => Promise!Init /\ Promise!Accounted
  <1>. SUFFICES ASSUME Init PROVE Promise!Init /\ Promise!Accounted
    OBVIOUS
  <1>1. /\ Log /\ \A k : ~Committed(k)
    BY InitIInv DEF IInv, Init, Committed
  <1>2. Records \in [Offered -> Nat] /\ \A k \in Offered : Records[k] = 0
    BY <1>1, RecordsType, NoCommits
  <1>3. Records = [k \in Offered |-> 0]
    BY <1>2
  <1>4. Unrecorded = {}
    BY DEF Init, Unrecorded, NotExecuting
  <1>5. effects = [k \in Offered |-> 0] /\ doubt = [k \in Offered |-> 0]
    BY DEF Init
  <1>. QED  BY <1>2, <1>3, <1>4, <1>5 DEF Promise!Init, Promise!Zero, Promise!Accounted

-----------------------------------------------------------------------------
(* The attempts: what is left of them for the registration at the tip, and *)
(* how many there may be for a number of registrations and crashes.        *)

AtTip(k) == /\ Written /\ Last(ledger).type = "SIDE_EFFECT_REGISTERED"
            /\ Last(ledger).payload = k

Left(k) ==
  IF AtTip(k) /\ exec.phase \in {"none", "attempt"} THEN RetryLimit + 1 - exec.attempt ELSE 0

Registered(k) == Cardinality(Keyed("SIDE_EFFECT_REGISTERED", k))

Allowance(n) == (RetryLimit + 1) * n

Tried ==
  /\ crashes \in Nat /\ exec.attempt \in 0..RetryLimit
  /\ \A k \in Offered : effects[k] + Left(k) <= Allowance(Registered(k) + crashes)

LEMMA LeftType ==
  ASSUME Tried, NEW k
  PROVE  Left(k) \in 0..(RetryLimit + 1)
  BY RuntimeAssumption DEF Tried, Left

LEMMA AllowanceType ==
  ASSUME NEW n \in Nat
  PROVE  /\ Allowance(n) \in Nat
         /\ Allowance(n + 1) = Allowance(n) + (RetryLimit + 1)
  BY RuntimeAssumption DEF Allowance

LEMMA RegisteredType ==
  ASSUME Log, NEW k
  PROVE  IsFiniteSet(Keyed("SIDE_EFFECT_REGISTERED", k)) /\ Registered(k) \in Nat
  <1>1. PICK S : ledger \in Seq(S)
    BY DEF Log
  <1>2. Keyed("SIDE_EFFECT_REGISTERED", k) \subseteq 1..Len(ledger) /\ Len(ledger) \in Nat
    BY <1>1 DEF Keyed
  <1>3. IsFiniteSet(1..Len(ledger))
    BY <1>2, FS_Interval
  <1>4. IsFiniteSet(Keyed("SIDE_EFFECT_REGISTERED", k))
    BY <1>2, <1>3, FS_Subset
  <1>. QED  BY <1>4, FS_CardinalityType DEF Registered

LEMMA RegisteredAfter ==
  ASSUME Log, IsSnapshot(Snapshot), NEW T \in EventTypes, NEW q, NEW c \in Nat, Post(T, q, c),
         NEW k
  PROVE  Registered(k)' = Registered(k) + (IF T = "SIDE_EFFECT_REGISTERED" /\ q = k THEN 1 ELSE 0)
  <1>. DEFINE n == Len(ledger)
              old == Keyed("SIDE_EFFECT_REGISTERED", k)
              new == Keyed("SIDE_EFFECT_REGISTERED", k)'
  <1>1. /\ n \in Nat /\ Len(ledger') = n + 1
        /\ \A i \in 1..n : ledger'[i] = ledger[i]
        /\ ledger'[n + 1].type = T /\ ledger'[n + 1].payload = q
        /\ Log'
    BY Appended
  <1>2. DOMAIN ledger = 1..n /\ DOMAIN ledger' = 1..(n + 1)
    BY <1>1 DEF Log
  <1>. HIDE DEF n
  <1>3. \A i : i \in old <=>
          i \in 1..n /\ ledger[i].type = "SIDE_EFFECT_REGISTERED" /\ ledger[i].payload = k
    BY <1>2 DEF Keyed
  <1>4. \A i : i \in new <=>
          i \in 1..(n + 1) /\ ledger'[i].type = "SIDE_EFFECT_REGISTERED" /\ ledger'[i].payload = k
    BY <1>2 DEF Keyed
  <1>5. \A i : i \in 1..(n + 1) <=> i \in 1..n \/ i = n + 1
    BY <1>1
  <1>6. \A i : i \in new <=> i \in old \/ (i = n + 1 /\ T = "SIDE_EFFECT_REGISTERED" /\ q = k)
    BY <1>1, <1>3, <1>4, <1>5
  <1>7. n + 1 \notin old
    BY <1>1, <1>3
  <1>8. IsFiniteSet(old) /\ Cardinality(old) \in Nat
    BY RegisteredType DEF Registered
  <1>9. Registered(k) = Cardinality(old) /\ Registered(k)' = Cardinality(new)
    BY DEF Registered
  <1>. HIDE DEF old, new
  <1>10. CASE T = "SIDE_EFFECT_REGISTERED" /\ q = k
    <2>1. new = old \cup {n + 1}
      BY <1>6, <1>10
    <2>2. Cardinality(new) = Cardinality(old) + 1
      BY <1>7, <1>8, <2>1, FS_AddElement
    <2>. QED  BY <1>9, <1>10, <2>2
  <1>11. CASE ~(T = "SIDE_EFFECT_REGISTERED" /\ q = k)
    <2>1. new = old
      BY <1>6, <1>11
    <2>. QED  BY <1>8, <1>9, <1>11, <2>1
  <1>. QED  BY <1>10, <1>11

LEMMA InitTried == Init => Tried
  <1>. SUFFICES ASSUME Init PROVE Tried
    OBVIOUS
  <1>1. Log /\ ~Written
    BY InitIInv DEF IInv, Init, Written
  <1>2. /\ crashes = 0 /\ exec.attempt = 0 /\ \A k \in Offered : effects[k] = 0
    BY DEF Init, NotExecuting
  <1>3. ASSUME NEW k \in Offered
        PROVE  effects[k] + Left(k) <= Allowance(Registered(k) + crashes)
    <2>1. Left(k) = 0
      BY <1>1 DEF Left, AtTip
    <2>2. Registered(k) \in Nat
      BY <1>1, RegisteredType
    <2>3. Allowance(Registered(k) + crashes) \in Nat
      BY <1>2, <2>2, AllowanceType
    <2>. QED  BY <1>2, <1>3, <2>1, <2>3
  <1>. QED  BY <1>2, <1>3, RuntimeAssumption DEF Tried

(* A step that writes one event.                                           *)
Wrote(T, q, c) ==
  /\ T \in EventTypes /\ c \in Nat /\ Post(T, q, c)
  /\ exec' \in {exec, NotExecuting} /\ UNCHANGED <<effects, crashes>>

LEMMA WroteKeepsTried ==
  ASSUME IInv, Tried, NEW T, NEW q, NEW c, Wrote(T, q, c)
  PROVE  Tried'
  <1>1. /\ T \in EventTypes /\ c \in Nat /\ Post(T, q, c)
        /\ exec' \in {exec, NotExecuting} /\ UNCHANGED <<effects, crashes>>
    BY DEF Wrote
  <1>2. Log /\ IsSnapshot(Snapshot)
    BY DEF IInv, Current
  <1>3. Written' /\ Last(ledger').type = T /\ Last(ledger').payload = q
    BY <1>1, <1>2, Appended
  <1>4. exec'.attempt \in 0..RetryLimit /\ crashes' \in Nat
    BY <1>1, RuntimeAssumption DEF Tried, NotExecuting
  <1>. HIDE DEF Written, Snapshot
  <1>5. ASSUME NEW k \in Offered
        PROVE  effects'[k] + Left(k)' <= Allowance(Registered(k)' + crashes')
    <2>1. /\ effects[k] \in Nat /\ effects'[k] = effects[k] /\ crashes' = crashes
          /\ crashes \in Nat
      BY <1>1, <1>5 DEF IInv, Executed, Tried
    <2>2. effects[k] + Left(k) <= Allowance(Registered(k) + crashes)
      BY <1>5 DEF Tried
    <2>3. /\ Left(k) \in 0..(RetryLimit + 1)
          /\ Left(k)' \in 0..(RetryLimit + 1)
          /\ ~(T = "SIDE_EFFECT_REGISTERED" /\ q = k) => Left(k)' = 0
      BY <1>3, <1>4, LeftType, RuntimeAssumption DEF Left, AtTip
    <2>4. /\ Registered(k) \in Nat
          /\ Registered(k)' = Registered(k)
                              + (IF T = "SIDE_EFFECT_REGISTERED" /\ q = k THEN 1 ELSE 0)
      BY <1>1, <1>2, RegisteredType, RegisteredAfter
    <2>5. /\ Allowance(Registered(k) + crashes) \in Nat
          /\ Allowance((Registered(k) + crashes) + 1)
                = Allowance(Registered(k) + crashes) + (RetryLimit + 1)
      BY <2>1, <2>4, AllowanceType
    <2>. HIDE DEF Left, Registered, Allowance
    <2>6. CASE T = "SIDE_EFFECT_REGISTERED" /\ q = k
      <3>1. Registered(k)' + crashes' = (Registered(k) + crashes) + 1
        BY <2>1, <2>4, <2>6
      <3>. QED  BY <2>1, <2>2, <2>3, <2>5, <3>1, RuntimeAssumption
    <2>7. CASE ~(T = "SIDE_EFFECT_REGISTERED" /\ q = k)
      <3>1. Registered(k)' + crashes' = Registered(k) + crashes
        BY <2>1, <2>4, <2>7
      <3>. QED  BY <2>1, <2>2, <2>3, <2>5, <2>7, <3>1, RuntimeAssumption
    <2>. QED  BY <2>6, <2>7
  <1>. QED  BY <1>4, <1>5 DEF Tried

LEMMA LoopWrites ==
  ASSUME IInv,
         \/ CreateTask \/ StartCognition \/ Propose \/ StartPolicy \/ Evaluate \/ Decided
         \/ RequestAuthorization \/ Register \/ Commit \/ CompensationSucceeds
         \/ CompensationFails \/ ObserveNoOp \/ Observe \/ Route \/ NextStep \/ Halt
  PROVE  \E T, q, c : Wrote(T, q, c)
  <1>. HIDE DEF Snapshot
  <1>1. ASSUME NEW T \in EventTypes, NEW q, Record(T, q), exec' \in {exec, NotExecuting},
               UNCHANGED <<effects, crashes>>
        PROVE  \E U, r, c : Wrote(U, r, c)
    <2>1. Wrote(T, q, clock + 1)
      BY <1>1 DEF Wrote, Record, IInv, Ordered
    <2>. QED  BY <2>1
  <1>2. ASSUME NEW to, Transition(to) PROVE \E U, r, c : Wrote(U, r, c)
    <2>1. /\ Record("FSM_TRANSITIONED", to) /\ UNCHANGED <<exec, effects, crashes>>
          /\ "FSM_TRANSITIONED" \in EventTypes
      BY <1>2 DEF Transition, Enter, EventTypes
    <2>. QED  BY <1>1, <2>1
  <1>3. ASSUME NEW T \in EventTypes, NEW q, Note(T, q) PROVE \E U, r, c : Wrote(U, r, c)
    <2>1. Record(T, q) /\ UNCHANGED <<exec, effects, crashes>>
      BY <1>3 DEF Note
    <2>. QED  BY <1>1, <2>1
  <1>4. ASSUME NEW T \in EventTypes, NEW q, Settle(T, q) PROVE \E U, r, c : Wrote(U, r, c)
    <2>1. Record(T, q) /\ exec' = NotExecuting /\ UNCHANGED <<effects, crashes>>
      BY <1>4 DEF Settle
    <2>. QED  BY <1>1, <2>1
  <1>5. CASE StartCognition \/ StartPolicy \/ Decided \/ Route \/ NextStep \/ Halt
    <2>1. \E to : Transition(to)
      BY <1>5 DEF StartCognition, StartPolicy, Decided, Route, NextStep, Halt
    <2>. QED  BY <1>2, <2>1
  <1>6. CASE \/ CreateTask \/ Propose \/ Evaluate \/ RequestAuthorization \/ Register \/ Observe
    <2>1. \E T, q : T \in EventTypes /\ Note(T, q)
      BY <1>6 DEF CreateTask, Propose, Evaluate, RequestAuthorization, Register, Observe, EventTypes
    <2>. QED  BY <1>3, <2>1
  <1>7. CASE Commit \/ CompensationSucceeds \/ ObserveNoOp
    <2>1. \E T, q : T \in EventTypes /\ Settle(T, q)
      BY <1>7 DEF Commit, CompensationSucceeds, ObserveNoOp, EventTypes
    <2>. QED  BY <1>4, <2>1
  <1>8. CASE CompensationFails
    <2>1. /\ Record("FSM_TRANSITIONED", "HALTED") /\ exec' = NotExecuting
          /\ UNCHANGED <<effects, crashes>> /\ "FSM_TRANSITIONED" \in EventTypes
      BY <1>8 DEF CompensationFails, Enter, EventTypes
    <2>. QED  BY <1>1, <2>1
  <1>. QED  BY <1>5, <1>6, <1>7, <1>8

LEMMA AnswersWrite ==
  ASSUME IInv, Resolved \/ \E r \in {"APPROVED", "REJECTED", "TIMED_OUT"} : Resolve(r)
  PROVE  \E T, q, c : Wrote(T, q, c)
  <1>. HIDE DEF Snapshot
  <1>0. /\ clock \in Nat /\ uiClock \in Nat
        /\ \A i \in 1..Len(ledger) : ledger[i].clock \in Nat
    BY DEF IInv, Ordered, Log
  <1>1. CASE Resolved
    <2>. DEFINE e == Last(ledger)
                c == (IF clock > e.clock THEN clock ELSE e.clock) + 1 + 1
    <2>1. /\ Tip("AUTHORIZATION_RESOLVED") /\ UNCHANGED <<exec, effects, crashes>>
          /\ \E to : Post("FSM_TRANSITIONED", to, c)
      BY <1>1 DEF Resolved
    <2>2. c \in Nat
      BY <1>0, <2>1, TipFacts
    <2>. HIDE DEF c
    <2>. QED  BY <2>1, <2>2 DEF Wrote, EventTypes
  <1>2. ASSUME NEW r, Resolve(r) PROVE \E T, q, c : Wrote(T, q, c)
    <2>1. PICK i \in Requests :
            LET sent == (IF uiClock > ledger[i].clock THEN uiClock ELSE ledger[i].clock) + 2
            IN  Post("AUTHORIZATION_RESOLVED", [request |-> i, resolution |-> r], sent)
      BY <1>2 DEF Resolve
    <2>. DEFINE sent == (IF uiClock > ledger[i].clock THEN uiClock ELSE ledger[i].clock) + 2
                q == [request |-> i, resolution |-> r]
    <2>2. Post("AUTHORIZATION_RESOLVED", q, sent) /\ UNCHANGED <<exec, effects, crashes>>
      BY <1>2, <2>1 DEF Resolve
    <2>3. PICK S : ledger \in Seq(S)
      BY DEF IInv, Log
    <2>4. i \in 1..Len(ledger)
      BY <2>1, <2>3 DEF Requests
    <2>5. sent \in Nat
      BY <1>0, <2>4
    <2>. HIDE DEF sent, q
    <2>6. Wrote("AUTHORIZATION_RESOLVED", q, sent)
      BY <2>2, <2>5 DEF Wrote, EventTypes
    <2>. QED  BY <2>6
  <1>. QED  BY <1>1, <1>2

LEMMA AttemptKeepsTried ==
  ASSUME IInv, Tried, Execute \/ AttemptSucceeds \/ AttemptFails \/ AttemptRaises
  PROVE  Tried'
  <1>1. /\ UNCHANGED <<ledger, crashes>> /\ Tip("SIDE_EFFECT_REGISTERED")
        /\ effects \in [Offered -> Nat]
        /\ exec \in [phase : {"none", "skip", "attempt", "receipt", "compensate"}, attempt : Nat]
        /\ exec.attempt \in 0..RetryLimit
    BY DEF Execute, AttemptSucceeds, AttemptFails, AttemptRaises, Phase, IInv, Executed, Tried
  <1>2. Written /\ Last(ledger).type = "SIDE_EFFECT_REGISTERED"
    BY <1>1, TipFacts
  <1>3. /\ \A k : (AtTip(k) <=> k = Key) /\ (AtTip(k)' <=> k = Key)
        /\ \A k : Registered(k)' = Registered(k)
    BY <1>1, <1>2 DEF AtTip, Written, Key, Registered, Keyed
  <1>. HIDE DEF Key, AtTip, Registered, Written
  <1>4. /\ exec'.attempt \in 0..RetryLimit
        /\ \/ /\ exec.phase = "none" /\ exec.attempt = 0 /\ effects' = effects
              /\ exec'.attempt = 0
           \/ /\ exec.phase = "attempt" /\ effects' \in {effects, [effects EXCEPT ![Key] = @ + 1]}
              /\ \/ exec'.phase # "attempt" /\ exec'.phase # "none"
                 \/ exec'.phase = "attempt" /\ exec'.attempt = exec.attempt + 1
    <2>1. CASE Execute
      <3>1. exec.phase = "none" /\ exec = NotExecuting /\ effects' = effects
        BY <2>1 DEF Execute, Phase, IInv, Executed
      <3>2. exec'.attempt = 0
        BY <2>1 DEF Execute
      <3>. QED  BY <3>1, <3>2, RuntimeAssumption DEF NotExecuting
    <2>2. CASE AttemptSucceeds
      BY <1>1, <2>2 DEF AttemptSucceeds, Phase
    <2>3. CASE AttemptFails \/ AttemptRaises
      <3>1. /\ exec.phase = "attempt" /\ effects' \in {effects, [effects EXCEPT ![Key] = @ + 1]}
            /\ TryAgain
        BY <2>3 DEF AttemptFails, AttemptRaises, Phase
      <3>2. /\ exec'.attempt \in 0..RetryLimit
            /\ \/ exec'.phase = "compensate"
               \/ exec'.phase = "attempt" /\ exec'.attempt = exec.attempt + 1
        BY <1>1, <3>1, RuntimeAssumption DEF TryAgain
      <3>. QED  BY <3>1, <3>2
    <2>. QED  BY <2>1, <2>2, <2>3
  <1>5. ASSUME NEW k \in Offered
        PROVE  effects'[k] + Left(k)' <= effects[k] + Left(k)
    <2>1. effects[k] \in Nat /\ effects'[k] \in {effects[k], IF k = Key THEN effects[k] + 1 ELSE effects[k]}
      BY <1>1, <1>4, <1>5
    <2>2. CASE k = Key
      BY <1>1, <1>3, <1>4, <2>1, <2>2, RuntimeAssumption DEF Left
    <2>3. CASE k # Key
      BY <1>3, <2>1, <2>3 DEF Left
    <2>. QED  BY <2>2, <2>3
  <1>6. ASSUME NEW k \in Offered
        PROVE  effects'[k] + Left(k)' <= Allowance(Registered(k)' + crashes')
    <2>1. /\ effects[k] \in Nat /\ effects'[k] \in Nat
      BY <1>1, <1>4, <1>6, OneMore
    <2>2. exec'.attempt \in 0..RetryLimit
      BY <1>4
    <2>3. Left(k) \in 0..(RetryLimit + 1) /\ Left(k)' \in 0..(RetryLimit + 1)
      BY <2>2, LeftType, RuntimeAssumption DEF Left
    <2>4. /\ Registered(k)' = Registered(k) /\ crashes' = crashes /\ crashes \in Nat
          /\ Registered(k) \in Nat /\ effects[k] + Left(k) <= Allowance(Registered(k) + crashes)
      BY <1>1, <1>3, <1>6, RegisteredType DEF Tried, IInv
    <2>5. Allowance(Registered(k) + crashes) \in Nat
      BY <2>4, AllowanceType
    <2>6. effects'[k] + Left(k)' <= effects[k] + Left(k)
      BY <1>5, <1>6
    <2>. HIDE DEF Left, Allowance
    <2>. QED  BY <2>1, <2>3, <2>4, <2>5, <2>6
  <1>. QED  BY <1>1, <1>4, <1>6 DEF Tried

LEMMA CrashKeepsTried ==
  ASSUME IInv, Tried, Crash
  PROVE  Tried'
  <1>1. /\ exec' = NotExecuting /\ UNCHANGED <<ledger, effects>> /\ crashes' = crashes + 1
        /\ crashes \in Nat /\ effects \in [Offered -> Nat]
    BY DEF Crash, Restart, Tried, IInv, Executed
  <1>2. exec'.attempt = 0
    BY <1>1 DEF NotExecuting
  <1>3. ASSUME NEW k \in Offered
        PROVE  effects'[k] + Left(k)' <= Allowance(Registered(k)' + crashes')
    <2>1. Left(k) \in 0..(RetryLimit + 1) /\ Left(k)' \in 0..(RetryLimit + 1)
      BY <1>2, LeftType, RuntimeAssumption DEF Left
    <2>2. /\ Registered(k)' = Registered(k) /\ Registered(k) \in Nat
          /\ effects[k] + Left(k) <= Allowance(Registered(k) + crashes)
          /\ effects[k] \in Nat /\ effects'[k] = effects[k]
      BY <1>1, <1>3, RegisteredType DEF Tried, IInv, Registered, Keyed
    <2>. HIDE DEF Left, Registered
    <2>3. /\ Allowance(Registered(k) + crashes) \in Nat
          /\ Allowance((Registered(k) + crashes) + 1)
                = Allowance(Registered(k) + crashes) + (RetryLimit + 1)
      BY <1>1, <2>2, AllowanceType
    <2>4. Registered(k)' + crashes' = (Registered(k) + crashes) + 1
      BY <1>1, <2>2
    <2>. HIDE DEF Allowance
    <2>. QED  BY <2>1, <2>2, <2>3, <2>4, RuntimeAssumption
  <1>. QED  BY <1>1, <1>2, <1>3, RuntimeAssumption DEF Tried

LEMMA NextTried ==
  ASSUME IInv, Tried, [Next]_vars
  PROVE  Tried'
  <1>1. CASE \E T, q, c : Wrote(T, q, c)
    BY <1>1, WroteKeepsTried
  <1>2. CASE \/ CreateTask \/ StartCognition \/ Propose \/ StartPolicy \/ Evaluate \/ Decided
             \/ RequestAuthorization \/ Register \/ Commit \/ CompensationSucceeds
             \/ CompensationFails \/ ObserveNoOp \/ Observe \/ Route \/ NextStep \/ Halt
    BY <1>1, <1>2, LoopWrites
  <1>3. CASE Resolved \/ \E r \in {"APPROVED", "REJECTED", "TIMED_OUT"} : Resolve(r)
    BY <1>1, <1>3, AnswersWrite
  <1>4. CASE Execute \/ AttemptSucceeds \/ AttemptFails \/ AttemptRaises
    BY <1>4, AttemptKeepsTried
  <1>5. CASE Crash
    BY <1>5, CrashKeepsTried
  <1>6. CASE ReadAll \/ CatchUp \/ UNCHANGED vars
    <2>1. UNCHANGED <<ledger, exec, effects, crashes>>
      BY <1>6 DEF ReadAll, CatchUp, vars
    <2>. QED  BY <2>1 DEF Tried, Left, AtTip, Written, Registered, Keyed
  <1>. QED  BY <1>2, <1>3, <1>4, <1>5, <1>6 DEF Next, Loop

-----------------------------------------------------------------------------
(* The theorems.                                                           *)

(* evaluate_policy and the transition table: whatever is registered for    *)
(* execution is legal for the tier and, when it is risky, was approved by  *)
(* the user after the proposal it answers, however often the loop died.    *)
THEOREM Authorized == Spec => []AuthorizedFirst
  <1>1. IInv => AuthorizedFirst
    BY DEF IInv
  <1>. QED  BY <1>1, Invariant, PTL

(* execute_with_idempotency: every behaviour of the runtime is one of      *)
(* Effects.  An effect on record never takes place again, and what takes   *)
(* place without one was forgotten in a crash or hidden by an exception.   *)
THEOREM RuntimeKeepsPromise == Spec => ImplementsEffects
  <1>1. Init => Promise!Init
    BY InitPromise
  <1>2. IInv /\ [Next]_vars => [Promise!Next]_(Promise!vars)
    BY NextImplementsPromise
  <1>. QED
    BY <1>1, <1>2, Invariant, PTL DEF Spec, ImplementsEffects, Promise!Spec

(* The retry schedule over restarts, for any limit: an effect takes place  *)
(* at most once for each attempt of each registration, and as often again  *)
(* for each crash; its key is committed once at most.                      *)
THEOREM Once == Spec => []RepeatsBounded
  <1>1. Init => Promise!Accounted /\ Tried
    BY InitPromise, InitTried
  <1>2. IInv => effects \in [Offered -> Nat] /\ doubt \in [Offered -> Nat]
                /\ Records \in [Offered -> Nat]
    BY RecordsType DEF IInv, Executed
  <1>3. IInv /\ Promise!Accounted /\ [Next]_vars => Promise!Accounted'
    BY <1>2, NextImplementsPromise, PromiseIsAccounted
  <1>4. IInv /\ Promise!Accounted /\ Tried => RepeatsBounded
    <2>. SUFFICES ASSUME IInv, Promise!Accounted, Tried, NEW k \in Offered
                  PROVE  /\ Cardinality(Keyed("SIDE_EFFECT_COMMITTED", k)) <= 1
                         /\ effects[k] <= (RetryLimit + 1)
                              * (Cardinality(Keyed("SIDE_EFFECT_REGISTERED", k)) + crashes)
      BY DEF RepeatsBounded
    <2>1. Records[k] \in {0, 1}
      BY <1>2 DEF Promise!Accounted
    <2>2. Records[k] = Cardinality(CommitsOf(k))
      BY RecordsType DEF IInv
    <2>3. /\ effects[k] + Left(k) <= Allowance(Registered(k) + crashes)
          /\ Left(k) \in 0..(RetryLimit + 1)
      BY LeftType DEF Tried
    <2>4. Allowance(Registered(k) + crashes) \in Nat /\ effects[k] \in Nat
      BY <1>2, RegisteredType, AllowanceType DEF Tried, IInv
    <2>. HIDE DEF Left
    <2>5. effects[k] <= Allowance(Registered(k) + crashes)
      BY <2>3, <2>4, RuntimeAssumption
    <2>. QED  BY <2>1, <2>2, <2>5 DEF CommitsOf, Allowance, Registered
  <1>. QED  BY <1>1, <1>3, <1>4, NextTried, Invariant, PTL DEF Spec

(* reduce and read_since: a reader that goes on from its checkpoint agrees *)
(* with one that replays everything, and the Lamport clocks order the      *)
(* events of both processes as the ledger does.                            *)
THEOREM Replay == Spec => []ReplayAgrees
  <1>1. IInv => ReplayAgrees
    BY DEF IInv, ReplayAgrees, ReaderBehind, Ordered
  <1>. QED  BY <1>1, Invariant, PTL
=============================================================================
