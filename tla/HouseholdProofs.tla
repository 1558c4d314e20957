-------------------------- MODULE HouseholdProofs ---------------------------
(* Theorems about what the assistant keeps for its users, and about the    *)
(* resolver of their requests: for each part an invariant that its steps   *)
(* keep, whatever the values of the constants.  The parts of Household     *)
(* share no variable, so that a step of the composition is a step of a     *)
(* part or leaves the variables of that part alone.                        *)
EXTENDS AuthResolver, Household, FiniteSets, FiniteSetTheorems, SequenceTheorems,
        NaturalsInduction, TLAPS

LEMMA RoomSteps ==
  ASSUME [HouseholdNext]_household
  PROVE  /\ Talk!Next \/ UNCHANGED conversation
         /\ People!Next \/ UNCHANGED users
         /\ Facts!Next \/ UNCHANGED facts
         /\ Bridge!Next \/ UNCHANGED whatsapp
         /\ Index!Next \/ UNCHANGED indexer
         /\ Memory!Next \/ UNCHANGED episodes
         /\ Music!Next \/ UNCHANGED spotify
<1>1. CASE HouseholdNext
  BY <1>1, Zenon DEF HouseholdNext
<1>2. CASE UNCHANGED household
  BY <1>2, Zenon DEF household
<1>. QED
  BY <1>1, <1>2

-----------------------------------------------------------------------------
(* The conversation: every file is a sequence of blocks, the latest of the *)
(* messages of its day, and there while there are messages.                *)
HcBlock == [id : Nat, size : Nat]

(* What a day's file holds of n messages: the latest ones, or some of them *)
(* when a write of the file has failed.                                    *)
HcHolds(whole, b, n) == IF whole THEN Talk!AreLatest(b, n) ELSE Talk!AreSome(b, n)

HcFile(d) ==
  /\ sessionFile[d] \in Seq(HcBlock) /\ said[d] \in Nat
  /\ HcHolds(d \notin gaps, sessionFile[d], said[d])
  /\ said[d] # 0 => sessionFile[d] # <<>> \/ d \in gaps

HcInv ==
  /\ today \in Talk!Days /\ gaps \subseteq Talk!Days
  /\ DOMAIN sessionFile = Talk!Days /\ DOMAIN said = Talk!Days
  /\ \A d \in Talk!Days : HcFile(d)
  /\ \A d \in Talk!Days : d > today => sessionFile[d] = <<>> /\ said[d] = 0 /\ d \notin gaps

LEMMA HcGreatest ==
  ASSUME NEW n \in Nat, NEW S \in SUBSET (0 .. n), S # {}
  PROVE  Talk!Max(S) \in S
<1>. DEFINE T == {n - k : k \in S}
<1>1. T \in SUBSET Nat /\ T # {}
  <2>1. \A k \in S : n - k \in Nat
    OBVIOUS
  <2>2. PICK k \in S : TRUE
    OBVIOUS
  <2>3. n - k \in T
    BY <2>2
  <2>. QED
    BY <2>1, <2>3
<1>2. IsWellFoundedOn(OpToRel(<, Nat), Nat)
  BY NatLessThanWellFounded
<1>3. PICK m \in T : \A k \in T : <<k, m>> \notin OpToRel(<, Nat)
  BY <1>1, <1>2, WFMin
<1>4. \A k \in T : ~(k < m)
  BY <1>1, <1>3 DEF OpToRel
<1>5. PICK x \in S : m = n - x
  OBVIOUS
<1>6. \A y \in S : x >= y
  <2>. TAKE y \in S
  <2>1. n - y \in T
    OBVIOUS
  <2>2. ~(n - y < n - x)
    BY <1>4, <1>5, <2>1
  <2>3. x \in 0 .. n /\ y \in 0 .. n /\ n \in Int
    OBVIOUS
  <2>4. \A i, j \in Int : ~(n - j < n - i) => i >= j
    BY <2>3
  <2>. QED
    BY <2>2, <2>3, <2>4
<1>. QED
  BY <1>5, <1>6 DEF Talk!Max

(* The latest ones are some of them. *)
LEMMA HcWeaker ==
  ASSUME NEW b \in Seq(HcBlock), NEW n \in Nat, Talk!AreLatest(b, n)
  PROVE  Talk!AreSome(b, n)
<1>1. Len(b) \in Nat /\ DOMAIN b = 1 .. Len(b) /\ Len(b) <= n + 1
  BY DEF Talk!AreLatest
<1>2. ASSUME NEW i \in 1 .. Len(b)
      PROVE  b[i].id = n + i - Len(b) \/ (i = 1 /\ b[i].id = 0)
  BY <1>1, <1>2 DEF Talk!AreLatest
<1>3. ASSUME NEW i \in 1 .. Len(b) PROVE b[i].id <= n + i - Len(b)
  BY <1>1, <1>2
<1>4. ASSUME NEW i \in 1 .. Len(b), NEW j \in 1 .. Len(b), i < j PROVE b[i].id < b[j].id
  <2>1. b[j].id = n + j - Len(b) /\ n + j - Len(b) >= 1
    BY <1>1, <1>2, <1>4
  <2>. QED
    BY <1>1, <1>2, <1>4, <2>1
<1>. QED
  BY <1>1, <1>3, <1>4 DEF Talk!AreSome

(* The newest blocks of a file. *)
LEMMA HcLatest ==
  ASSUME NEW whole \in BOOLEAN, NEW b \in Seq(HcBlock), NEW n \in Nat, HcHolds(whole, b, n),
         NEW k \in 0 .. Len(b)
  PROVE  /\ Talk!Latest(b, k) \in Seq(HcBlock)
         /\ Len(Talk!Latest(b, k)) = k
         /\ HcHolds(whole, Talk!Latest(b, k), n)
<1>. DEFINE c == Talk!Latest(b, k)
<1>1. Len(b) \in Nat /\ \A i \in 1 .. Len(b) : b[i] \in HcBlock /\ b[i].id \in Nat
  <2>1. Len(b) \in Nat /\ \A i \in 1 .. Len(b) : b[i] \in HcBlock
    OBVIOUS
  <2>2. \A r \in HcBlock : r.id \in Nat
    BY DEF HcBlock
  <2>. QED
    BY <2>1, <2>2
<1>2. /\ c \in Seq(HcBlock) /\ Len(c) = k
      /\ \A i \in 1 .. k : c[i] = b[Len(b) - k + i]
  <2>1. Len(b) - k + 1 \in Int /\ Len(b) \in Int
    BY <1>1
  <2>2. \A i \in Len(b) - k + 1 .. Len(b) : b[i] \in HcBlock
    BY <1>1
  <2>3. /\ c \in Seq(HcBlock)
        /\ Len(c) = IF Len(b) - k + 1 <= Len(b) THEN Len(b) - (Len(b) - k + 1) + 1 ELSE 0
        /\ \A i \in 1 .. Len(b) - (Len(b) - k + 1) + 1 : c[i] = b[(Len(b) - k + 1) + i - 1]
    BY <2>1, <2>2, SubSeqProperties DEF Talk!Latest
  <2>. QED
    BY <1>1, <2>3
<1>. HIDE DEF c
<1>3. DOMAIN c = 1 .. k /\ DOMAIN b = 1 .. Len(b)
  BY <1>2
<1>4. \A i \in 1 .. k : Len(b) - k + i \in 1 .. Len(b) /\ c[i] = b[Len(b) - k + i]
  BY <1>1, <1>2
<1>5. k <= n + 1
  BY <1>1 DEF Talk!AreLatest, Talk!AreSome, HcHolds
<1>6. ASSUME whole PROVE Talk!AreLatest(c, n)
  <2>1. ASSUME NEW i \in 1 .. k PROVE c[i].id = n + i - k \/ (i = 1 /\ c[i].id = 0)
    <3>1. \/ b[Len(b) - k + i].id = n + (Len(b) - k + i) - Len(b)
          \/ Len(b) - k + i = 1 /\ b[Len(b) - k + i].id = 0
      BY <1>3, <1>4, <1>6 DEF Talk!AreLatest, HcHolds
    <3>. QED
      BY <1>1, <1>4, <3>1
  <2>. QED
    BY <1>2, <1>3, <1>5, <2>1 DEF Talk!AreLatest
<1>7. ASSUME ~whole PROVE Talk!AreSome(c, n)
  <2>1. /\ \A i \in 1 .. Len(b) : b[i].id <= n + i - Len(b)
        /\ \A i, j \in 1 .. Len(b) : i < j => b[i].id < b[j].id
    BY <1>3, <1>7 DEF Talk!AreSome, HcHolds
  <2>2. ASSUME NEW i \in 1 .. k PROVE c[i].id <= n + i - k
    <3>1. b[Len(b) - k + i].id <= n + (Len(b) - k + i) - Len(b)
      BY <1>4, <2>1
    <3>. QED
      BY <1>1, <1>4, <3>1
  <2>3. ASSUME NEW i \in 1 .. k, NEW j \in 1 .. k, i < j PROVE c[i].id < c[j].id
    <3>1. Len(b) - k + i < Len(b) - k + j
      BY <1>1, <2>3
    <3>. QED
      BY <1>4, <2>1, <3>1
  <2>. QED
    BY <1>2, <1>3, <1>5, <2>2, <2>3 DEF Talk!AreSome
<1>8. HcHolds(whole, c, n)
  BY <1>6, <1>7 DEF HcHolds
<1>. QED
  BY <1>2, <1>8 DEF c

LEMMA HcNewest ==
  ASSUME NEW b \in Seq(HcBlock), NEW limit
  PROVE  \E k \in 0 .. Len(b) : Talk!Newest(b, limit) = Talk!Latest(b, k)
<1>. DEFINE S == {0} \cup {k \in 1 .. Len(b) : Talk!SumOf(Talk!Latest(b, k)) <= limit}
<1>1. Len(b) \in Nat /\ S \in SUBSET (0 .. Len(b)) /\ S # {}
  OBVIOUS
<1>2. Talk!Max(S) \in S
  BY <1>1, HcGreatest
<1>3. Talk!Newest(b, limit) = Talk!Latest(b, Talk!Max(S))
  BY DEF Talk!Newest
<1>. QED
  BY <1>1, <1>2, <1>3

(* Condensing keeps the latest messages, and so does what is shown. *)
LEMMA HcCondensed ==
  ASSUME NEW whole \in BOOLEAN, NEW b \in Seq(HcBlock), NEW n \in Nat, HcHolds(whole, b, n),
         b # <<>>
  PROVE  /\ Talk!Condensed(b) \in Seq(HcBlock) /\ Talk!Condensed(b) # <<>>
         /\ HcHolds(whole, Talk!Condensed(b), n)
<1>1. CASE ~Talk!TooLong(b)
  BY <1>1 DEF Talk!Condensed
<1>2. CASE Talk!TooLong(b)
  <2>. DEFINE kept == Talk!Newest(b, Keep)
  <2>1. kept \in Seq(HcBlock) /\ HcHolds(whole, kept, n)
    BY HcNewest, HcLatest
  <2>2. CASE kept = <<>>
    <3>. DEFINE summary == [id |-> 0, size |-> 1]
    <3>1. Talk!Condensed(b) = <<summary>>
      BY <1>2, <2>2 DEF Talk!Condensed
    <3>2. summary \in HcBlock /\ summary.id = 0
      BY DEF HcBlock
    <3>. HIDE DEF summary
    <3>3. <<summary>> \in Seq(HcBlock) /\ <<summary>> # <<>> /\ Len(<<summary>>) = 1
          /\ DOMAIN <<summary>> = {1} /\ <<summary>>[1] = summary
      BY <3>2
    <3>4. HcHolds(whole, <<summary>>, n)
      BY <3>2, <3>3 DEF Talk!AreLatest, Talk!AreSome, HcHolds
    <3>. QED
      BY <3>1, <3>3, <3>4
  <2>3. CASE kept # <<>>
    <3>. DEFINE c == [kept EXCEPT ![1].size = @ + 1]
    <3>1. Talk!Condensed(b) = c
      BY <1>2, <2>3 DEF Talk!Condensed
    <3>. HIDE DEF kept
    <3>2. Len(kept) \in Nat \ {0} /\ DOMAIN kept = 1 .. Len(kept)
      BY <2>1, <2>3, EmptySeq
    <3>3. kept[1] \in HcBlock
      BY <2>1, <3>2
    <3>4. [kept[1] EXCEPT !.size = @ + 1] \in HcBlock /\ [kept[1] EXCEPT !.size = @ + 1].id = kept[1].id
      BY <3>3 DEF HcBlock
    <3>5. c = [kept EXCEPT ![1] = [kept[1] EXCEPT !.size = @ + 1]]
      BY <3>2
    <3>6. c \in Seq(HcBlock) /\ Len(c) = Len(kept) /\ DOMAIN c = DOMAIN kept
      BY <2>1, <3>2, <3>4, <3>5
    <3>7. \A i \in DOMAIN c : c[i].id = kept[i].id
      BY <2>1, <3>2, <3>4, <3>5
    <3>8. HcHolds(whole, c, n)
      BY <2>1, <3>6, <3>7 DEF Talk!AreLatest, Talk!AreSome, HcHolds
    <3>9. c # <<>>
      BY <3>2, <3>6, EmptySeq
    <3>. QED
      BY <3>1, <3>6, <3>8, <3>9
  <2>. QED
    BY <2>2, <2>3
<1>. QED
  BY <1>1, <1>2

LEMMA HcRecent ==
  ASSUME NEW whole \in BOOLEAN, NEW b \in Seq(HcBlock), NEW n \in Nat, HcHolds(whole, b, n)
  PROVE  /\ HcHolds(whole, Talk!Recent(b), n)
         /\ b # <<>> => Talk!Recent(b) # <<>>
<1>1. CASE Talk!SumOf(b) <= MaxContext \/ b = <<>>
  BY <1>1 DEF Talk!Recent
<1>2. CASE ~(Talk!SumOf(b) <= MaxContext \/ b = <<>>)
  <2>. DEFINE fit == Talk!Newest(b, MaxContext)
  <2>1. HcHolds(whole, fit, n)
    BY HcNewest, HcLatest
  <2>2. 1 \in 0 .. Len(b)
    BY <1>2, EmptySeq
  <2>3. HcHolds(whole, Talk!Latest(b, 1), n) /\ Talk!Latest(b, 1) # <<>>
    BY <2>2, HcLatest, EmptySeq
  <2>4. Talk!Recent(b) = IF fit = <<>> THEN Talk!Latest(b, 1) ELSE fit
    BY <1>2 DEF Talk!Recent
  <2>. QED
    BY <2>1, <2>3, <2>4
<1>. QED
  BY <1>1, <1>2

(* What a write leaves of a sequence that was to be written: all of it, or *)
(* the first ones, which are some of the messages.                         *)
LEMMA HcPut ==
  ASSUME NEW whole \in BOOLEAN, NEW b \in Seq(HcBlock), NEW n \in Nat, HcHolds(whole, b, n),
         NEW k \in 0 .. Len(b)
  PROVE  /\ Talk!Put(b, k) \in Seq(HcBlock)
         /\ k = Len(b) => Talk!Put(b, k) = b
         /\ HcHolds(whole /\ k = Len(b), Talk!Put(b, k), n)
<1>. DEFINE c == Talk!Put(b, k)
<1>1. Len(b) \in Nat /\ DOMAIN b = 1 .. Len(b) /\ \A i \in 1 .. k : b[i] \in HcBlock
  OBVIOUS
<1>2. /\ c \in Seq(HcBlock) /\ Len(c) = k
      /\ \A i \in 1 .. k : c[i] = b[i]
  <2>1. /\ c \in Seq(HcBlock) /\ Len(c) = IF 1 <= k THEN k - 1 + 1 ELSE 0
        /\ \A i \in 1 .. k - 1 + 1 : c[i] = b[1 + i - 1]
    BY <1>1, SubSeqProperties DEF Talk!Put
  <2>. QED
    BY <1>1, <2>1
<1>. HIDE DEF c
<1>3. DOMAIN c = 1 .. k
  BY <1>2
<1>4. CASE k = Len(b)
  <2>1. c = b
    BY <1>1, <1>2, <1>3, <1>4
  <2>. QED
    BY <1>2, <1>4, <2>1 DEF c, HcHolds
<1>5. CASE k # Len(b)
  <2>1. Talk!AreSome(b, n)
    BY HcWeaker DEF HcHolds
  <2>2. /\ \A i \in 1 .. Len(b) : b[i] \in HcBlock
        /\ \A s \in HcBlock : s.id \in Nat
    <3>1. \A i \in 1 .. Len(b) : b[i] \in HcBlock
      OBVIOUS
    <3>2. \A s \in HcBlock : s.id \in Nat
      BY DEF HcBlock
    <3>. QED
      BY <3>1, <3>2
  <2>3. ASSUME NEW i \in 1 .. k PROVE i \in 1 .. Len(b) /\ c[i].id <= n + i - k
    <3>1. k \in Int /\ i \in Int /\ i \in 1 .. Len(b)
      BY <1>1
    <3>2. c[i].id = b[i].id /\ b[i].id \in Nat
      BY <1>2, <2>2, <3>1
    <3>3. b[i].id <= n + i - Len(b)
      BY <1>1, <2>1, <3>1 DEF Talk!AreSome
    <3>4. n + i - Len(b) <= n + i - k
      BY <1>1, <3>1
    <3>. QED
      BY <1>1, <3>1, <3>2, <3>3, <3>4
  <2>4. \A i, j \in 1 .. k : i < j => c[i].id < c[j].id
    BY <1>1, <1>2, <2>1, <2>3 DEF Talk!AreSome
  <2>5. k <= n + 1
    BY <1>1, <2>1 DEF Talk!AreSome
  <2>6. Talk!AreSome(c, n)
    BY <1>2, <1>3, <2>3, <2>4, <2>5 DEF Talk!AreSome
  <2>. QED
    BY <1>2, <1>5, <2>6 DEF c, HcHolds
<1>. QED
  BY <1>4, <1>5

LEMMA HcInit == Talk!Init => HcInv
<1>. SUFFICES ASSUME Talk!Init PROVE HcInv
  OBVIOUS
<1>1. /\ today = 1 /\ sessionFile = [d \in Talk!Days |-> <<>>] /\ said = [d \in Talk!Days |-> 0]
      /\ gaps = {}
  BY DEF Talk!Init
<1>2. today \in Talk!Days
  BY <1>1, HouseholdAssumption DEF HouseholdAssumption, Talk!Days
<1>3. ASSUME NEW d \in Talk!Days PROVE HcFile(d)
  <2>1. sessionFile[d] = <<>> /\ said[d] = 0
    BY <1>1
  <2>. QED
    BY <1>1, <2>1, EmptySeq DEF HcFile, HcHolds, Talk!AreLatest
<1>4. \A d \in Talk!Days : sessionFile[d] = <<>> /\ said[d] = 0
  BY <1>1
<1>. QED
  BY <1>1, <1>2, <1>3, <1>4 DEF HcInv

(* The file of today survives the clean-up. *)
LEMMA HcTodayStays ==
  ASSUME today \in Talk!Days, NEW S \in SUBSET Talk!Days, \A e \in S : e <= today
  PROVE  today \notin Talk!Oldest(S)
<1>1. {e \in S : e > today} = {}
  <2>1. ASSUME NEW e \in S PROVE ~(e > today)
    <3>1. e \in Int /\ today \in Int /\ e <= today
      BY HouseholdAssumption DEF HouseholdAssumption, Talk!Days
    <3>. QED
      BY <3>1
  <2>. QED
    BY <2>1
<1>2. Talk!Cardinality({}) = 0
  BY FS_EmptySet DEF Talk!Cardinality, Cardinality
<1>. QED
  BY <1>1, <1>2, HouseholdAssumption DEF HouseholdAssumption, Talk!Oldest

LEMMA HcNone ==
  ASSUME NEW d, sessionFile'[d] = <<>>, said'[d] = 0
  PROVE  HcFile(d)'
  BY EmptySeq DEF HcFile, HcHolds, Talk!AreLatest, Talk!AreSome

(* A message more. *)
LEMMA HcSaid ==
  ASSUME NEW whole \in BOOLEAN, NEW a \in Seq(HcBlock), NEW n \in Nat, HcHolds(whole, a, n),
         NEW r \in HcBlock, r.id = n + 1
  PROVE  /\ Append(a, r) \in Seq(HcBlock) /\ Append(a, r) # <<>>
         /\ HcHolds(whole, Append(a, r), n + 1)
<1>. DEFINE b == Append(a, r)
<1>1. /\ b \in Seq(HcBlock) /\ b # <<>> /\ Len(b) = Len(a) + 1
      /\ \A i \in 1 .. Len(a) : b[i] = a[i]
      /\ b[Len(a) + 1] = r
  BY AppendProperties
<1>. HIDE DEF b
<1>2. Len(a) \in Nat /\ DOMAIN a = 1 .. Len(a) /\ DOMAIN b = 1 .. Len(a) + 1
  BY <1>1
<1>3. Len(b) <= (n + 1) + 1
  BY <1>1, <1>2 DEF HcHolds, Talk!AreLatest, Talk!AreSome
<1>4. \A i \in 1 .. Len(a) + 1 : i = Len(a) + 1 \/ (i \in 1 .. Len(a) /\ b[i] = a[i])
  BY <1>1, <1>2
<1>5. \A i \in Int : (n + 1) + i - Len(b) = n + i - Len(a)
  BY <1>1, <1>2
<1>6. ASSUME whole PROVE Talk!AreLatest(b, n + 1)
  <2>1. ASSUME NEW i \in 1 .. Len(a) + 1
        PROVE  b[i].id = (n + 1) + i - Len(b) \/ (i = 1 /\ b[i].id = 0)
    <3>1. CASE i = Len(a) + 1
      BY <1>1, <1>2, <3>1
    <3>2. CASE i # Len(a) + 1
      <4>1. i \in 1 .. Len(a) /\ b[i] = a[i]
        BY <1>4, <3>2
      <4>2. a[i].id = n + i - Len(a) \/ (i = 1 /\ a[i].id = 0)
        BY <1>2, <1>6, <4>1 DEF HcHolds, Talk!AreLatest
      <4>. QED
        <5>1. (n + 1) + i - Len(b) = n + i - Len(a)
          BY <1>2, <1>5, <4>1
        <5>. QED
          BY <4>1, <4>2, <5>1
    <3>. QED
      BY <3>1, <3>2
  <2>. QED
    BY <1>2, <1>3, <2>1 DEF Talk!AreLatest
<1>7. ASSUME ~whole PROVE Talk!AreSome(b, n + 1)
  <2>1. /\ \A i \in 1 .. Len(a) : a[i].id <= n + i - Len(a)
        /\ \A i, j \in 1 .. Len(a) : i < j => a[i].id < a[j].id
    BY <1>2, <1>7 DEF HcHolds, Talk!AreSome
  <2>2. \A i \in 1 .. Len(a) : a[i] \in HcBlock /\ a[i].id \in Nat
    <3>1. \A i \in 1 .. Len(a) : a[i] \in HcBlock
      OBVIOUS
    <3>2. \A s \in HcBlock : s.id \in Nat
      BY DEF HcBlock
    <3>. QED
      BY <3>1, <3>2
  <2>3. ASSUME NEW i \in 1 .. Len(a) + 1 PROVE b[i].id <= (n + 1) + i - Len(b)
    <3>1. CASE i = Len(a) + 1
      BY <1>1, <1>2, <3>1
    <3>2. CASE i # Len(a) + 1
      <4>1. i \in 1 .. Len(a) /\ b[i] = a[i]
        BY <1>4, <3>2
      <4>2. b[i].id <= n + i - Len(a)
        BY <2>1, <4>1
      <4>3. (n + 1) + i - Len(b) = n + i - Len(a)
        BY <1>2, <1>5, <4>1
      <4>. QED
        BY <4>2, <4>3
    <3>. QED
      BY <3>1, <3>2
  <2>4. \A i \in 1 .. Len(a) : a[i].id < n + 1
    <3>. TAKE i \in 1 .. Len(a)
    <3>1. a[i].id <= n + i - Len(a) /\ a[i].id \in Nat
      BY <2>1, <2>2
    <3>. QED
      BY <1>2, <3>1
  <2>5. ASSUME NEW i \in 1 .. Len(a) + 1, NEW j \in 1 .. Len(a) + 1, i < j
        PROVE  b[i].id < b[j].id
    <3>1. i \in 1 .. Len(a) /\ b[i] = a[i]
      BY <1>2, <1>4, <2>5
    <3>2. CASE j = Len(a) + 1
      BY <1>1, <2>4, <3>1, <3>2
    <3>3. CASE j # Len(a) + 1
      BY <1>4, <2>1, <2>5, <3>1, <3>3
    <3>. QED
      BY <3>2, <3>3
  <2>. QED
    BY <1>2, <1>3, <2>3, <2>5 DEF Talk!AreSome
<1>8. HcHolds(whole, b, n + 1)
  BY <1>6, <1>7 DEF HcHolds
<1>. QED
  BY <1>1, <1>8 DEF b

LEMMA HcAppend == ASSUME HcInv, Talk!AppendToMemory PROVE HcInv'
<1>. USE HouseholdAssumption DEF HouseholdAssumption
<1>1. PICK size \in Sizes, due \in Talk!PruneDue :
        LET id == said[today] + 1
            added == Append(sessionFile[today], [id |-> id, size |-> size])
            new == Talk!Condensed(added)
        IN /\ \E old \in SUBSET (IF due THEN Talk!Oldest(Talk!Written \cup {today}) ELSE {}),
                 k \in 0 .. Len(new) :
                /\ sessionFile' = [d \in Talk!Days |-> IF d \in old THEN <<>>
                                        ELSE IF d = today THEN Talk!Put(new, k) ELSE sessionFile[d]]
                /\ said' = [d \in Talk!Days |-> IF d \in old THEN 0
                                               ELSE IF d = today THEN id ELSE said[d]]
                /\ gaps' = (gaps \ old) \cup (IF k < Len(new) THEN {today} ELSE {})
           /\ today' = today
  BY DEF Talk!AppendToMemory
<1>. DEFINE r == [id |-> said[today] + 1, size |-> size]
            b == Append(sessionFile[today], r)
            new == Talk!Condensed(b)
            m == said[today] + 1
<1>2. HcFile(today) /\ today \in Talk!Days
  BY DEF HcInv
<1>3. r \in HcBlock /\ r.id = m /\ m \in Nat
  <2>1. said[today] + 1 \in Nat
    BY <1>2 DEF HcFile
  <2>2. size \in Nat
    OBVIOUS
  <2>3. \A p \in Nat, k \in Nat : [id |-> p, size |-> k] \in HcBlock
    BY DEF HcBlock
  <2>. QED
    BY <2>1, <2>2, <2>3
<1>4. PICK old \in SUBSET (IF due THEN Talk!Oldest(Talk!Written \cup {today}) ELSE {}),
           k \in 0 .. Len(new) :
        /\ sessionFile' = [d \in Talk!Days |-> IF d \in old THEN <<>>
                               ELSE IF d = today THEN Talk!Put(new, k) ELSE sessionFile[d]]
        /\ said' = [d \in Talk!Days |-> IF d \in old THEN 0 ELSE IF d = today THEN m ELSE said[d]]
        /\ gaps' = (gaps \ old) \cup (IF k < Len(new) THEN {today} ELSE {})
        /\ today' = today
  BY <1>1, Zenon
<1>5. today \notin old
  <2>. DEFINE written == Talk!Written \cup {today}
  <2>1. written \in SUBSET Talk!Days /\ \A e \in written : e <= today
    <3>1. ASSUME NEW e \in written PROVE e \in Talk!Days /\ e <= today
      <4>1. e \in Talk!Days /\ e \in Int /\ today \in Int
        BY <1>2 DEF Talk!Days, Talk!Written, HcInv
      <4>2. ~(e > today)
        BY <4>1 DEF HcInv, Talk!Written
      <4>. QED
        BY <4>1, <4>2
    <3>. QED
      BY <1>2, <3>1
  <2>. HIDE DEF written
  <2>2. today \notin Talk!Oldest(written)
    BY <1>2, <2>1, HcTodayStays
  <2>. QED
    BY <2>2 DEF written
<1>6. b \in Seq(HcBlock) /\ b # <<>> /\ HcHolds(today \notin gaps, b, m)
  BY <1>2, <1>3, HcSaid DEF HcFile
<1>. HIDE DEF r, b, m
<1>7. new \in Seq(HcBlock) /\ new # <<>> /\ HcHolds(today \notin gaps, new, m)
  BY <1>3, <1>6, HcCondensed
<1>. HIDE DEF new
<1>8. /\ Talk!Put(new, k) \in Seq(HcBlock)
      /\ k = Len(new) => Talk!Put(new, k) = new
      /\ HcHolds(today \notin gaps /\ k = Len(new), Talk!Put(new, k), m)
  BY <1>3, <1>7, HcPut
<1>9. (today \notin gaps /\ k = Len(new)) <=> today \notin gaps'
  BY <1>4, <1>5, <1>7
<1>10. ASSUME NEW d \in Talk!Days PROVE HcFile(d)'
  <2>1. CASE d \in old
    <3>1. sessionFile'[d] = <<>> /\ said'[d] = 0
      BY <1>4, <2>1
    <3>. QED
      BY <3>1, HcNone
  <2>2. CASE d = today
    <3>1. sessionFile'[d] = Talk!Put(new, k) /\ said'[d] = m
      BY <1>4, <1>5, <2>2
    <3>2. HcHolds(d \notin gaps', sessionFile'[d], said'[d])
      BY <1>8, <1>9, <2>2, <3>1 DEF HcHolds
    <3>3. sessionFile'[d] # <<>> \/ d \in gaps'
      BY <1>7, <1>8, <1>9, <2>2, <3>1
    <3>. QED
      BY <1>3, <1>8, <3>1, <3>2, <3>3 DEF HcFile, HcHolds
  <2>3. CASE d \notin old /\ d # today
    <3>1. /\ sessionFile'[d] = sessionFile[d] /\ said'[d] = said[d] /\ HcFile(d)
          /\ d \in gaps' <=> d \in gaps
      BY <1>4, <2>3 DEF HcInv
    <3>. QED
      BY <3>1 DEF HcFile, HcHolds
  <2>. QED
    BY <2>1, <2>2, <2>3
<1>11. ASSUME NEW d \in Talk!Days, d > today'
       PROVE  sessionFile'[d] = <<>> /\ said'[d] = 0 /\ d \notin gaps'
  <2>1. d # today /\ d > today
    BY <1>2, <1>4, <1>11 DEF Talk!Days
  <2>2. sessionFile[d] = <<>> /\ said[d] = 0 /\ d \notin gaps
    BY <2>1 DEF HcInv
  <2>. QED
    BY <1>4, <2>1, <2>2
<1>. QED
  BY <1>2, <1>4, <1>10, <1>11 DEF HcInv

(* The blocks before a place are messages of those that were said up to it *)
LEMMA HcCut ==
  ASSUME NEW whole \in BOOLEAN, NEW b \in Seq(HcBlock), NEW n \in Nat, HcHolds(whole, b, n),
         NEW k \in 1 .. Len(b) - 1
  PROVE  /\ SubSeq(b, 1, k) \in Seq(HcBlock) /\ Len(SubSeq(b, 1, k)) = k
         /\ n - (Len(b) - k) \in Nat
         /\ HcHolds(whole, SubSeq(b, 1, k), n - (Len(b) - k))
<1>. DEFINE c == SubSeq(b, 1, k)
            m == n - (Len(b) - k)
<1>1. Len(b) \in Nat /\ k \in Int /\ \A i \in 1 .. k : b[i] \in HcBlock
  OBVIOUS
<1>2. /\ c \in Seq(HcBlock) /\ Len(c) = IF 1 <= k THEN k - 1 + 1 ELSE 0
      /\ \A i \in 1 .. k - 1 + 1 : c[i] = b[1 + i - 1]
  BY <1>1, SubSeqProperties
<1>. HIDE DEF c
<1>3. /\ Len(c) = k /\ DOMAIN c = 1 .. k
      /\ \A i \in 1 .. k : i \in DOMAIN b /\ c[i] = b[i]
  BY <1>1, <1>2
<1>4. Len(b) <= n + 1
  BY DEF HcHolds, Talk!AreLatest, Talk!AreSome
<1>5. m \in Nat /\ k <= m + 1 /\ \A i \in Int : n + i - Len(b) = m + i - k
  BY <1>1, <1>4
<1>. HIDE DEF m
<1>6. ASSUME whole PROVE Talk!AreLatest(c, m)
  <2>1. ASSUME NEW i \in 1 .. k PROVE c[i].id = m + i - k \/ (i = 1 /\ c[i].id = 0)
    <3>1. b[i].id = n + i - Len(b) \/ (i = 1 /\ b[i].id = 0)
      BY <1>3, <1>6 DEF HcHolds, Talk!AreLatest
    <3>2. n + i - Len(b) = m + i - k
      BY <1>1, <1>5
    <3>. QED
      BY <1>3, <3>1, <3>2
  <2>. QED
    BY <1>3, <1>5, <2>1 DEF Talk!AreLatest
<1>7. ASSUME ~whole PROVE Talk!AreSome(c, m)
  <2>1. /\ \A i \in DOMAIN b : b[i].id <= n + i - Len(b)
        /\ \A i, j \in DOMAIN b : i < j => b[i].id < b[j].id
    BY <1>7 DEF HcHolds, Talk!AreSome
  <2>2. ASSUME NEW i \in 1 .. k PROVE c[i].id <= m + i - k
    <3>1. n + i - Len(b) = m + i - k
      BY <1>1, <1>5
    <3>. QED
      BY <1>3, <2>1, <3>1
  <2>3. \A i, j \in 1 .. k : i < j => c[i].id < c[j].id
    BY <1>3, <2>1
  <2>. QED
    BY <1>3, <1>5, <2>2, <2>3 DEF Talk!AreSome
<1>. QED
  BY <1>2, <1>3, <1>5, <1>6, <1>7 DEF c, m, HcHolds

LEMMA HcTruncate == ASSUME HcInv, Talk!TruncateMemoryAt PROVE HcInv'
<1>1. PICK index \in 0 .. Len(sessionFile[today]) - 1 : \E k \in 0 .. index :
        /\ sessionFile' = [sessionFile EXCEPT ![today] = Talk!Put(@, k)]
        /\ said' = [said EXCEPT ![today] =
                       IF index = 0 THEN 0 ELSE @ - (Len(sessionFile[today]) - index)]
        /\ gaps' = IF index = 0 THEN gaps \ {today}
                   ELSE IF k < index THEN gaps \cup {today} ELSE gaps
        /\ today' = today
  BY DEF Talk!TruncateMemoryAt
<1>2. PICK k \in 0 .. index :
        /\ sessionFile' = [sessionFile EXCEPT ![today] = Talk!Put(@, k)]
        /\ said' = [said EXCEPT ![today] =
                       IF index = 0 THEN 0 ELSE @ - (Len(sessionFile[today]) - index)]
        /\ gaps' = IF index = 0 THEN gaps \ {today}
                   ELSE IF k < index THEN gaps \cup {today} ELSE gaps
        /\ today' = today
  BY <1>1
<1>. DEFINE b == sessionFile[today]
            n == said[today]
<1>3. /\ today \in Talk!Days /\ HcFile(today) /\ b \in Seq(HcBlock) /\ n \in Nat
      /\ HcHolds(today \notin gaps, b, n)
  BY DEF HcInv, HcFile
<1>4. /\ DOMAIN sessionFile' = Talk!Days /\ DOMAIN said' = Talk!Days /\ gaps' \subseteq Talk!Days
      /\ \A d \in Talk!Days \ {today} : /\ sessionFile'[d] = sessionFile[d] /\ said'[d] = said[d]
                                        /\ d \in gaps' <=> d \in gaps
  BY <1>2, <1>3 DEF HcInv
<1>5. sessionFile'[today] = SubSeq(b, 1, k)
  BY <1>2, <1>3 DEF HcInv, Talk!Put
<1>6. said'[today] = IF index = 0 THEN 0 ELSE n - (Len(b) - index)
  BY <1>2, <1>3 DEF HcInv
<1>. HIDE DEF n
<1>7. ASSUME NEW d \in {today} PROVE HcFile(d)'
  <2>1. CASE index = 0
    <3>1. SubSeq(b, 1, 0) = <<>> /\ k = 0
      BY <1>3, <2>1
    <3>2. sessionFile'[today] = <<>> /\ said'[today] = 0
      BY <1>5, <1>6, <2>1, <3>1
    <3>. QED
      BY <3>2, HcNone
  <2>2. CASE index # 0
    <3>. DEFINE c == SubSeq(b, 1, index)
                m == n - (Len(b) - index)
    <3>1. index \in 1 .. Len(b) - 1 /\ index \in Nat /\ k \in Nat /\ k <= index
      BY <1>3, <2>2
    <3>. HIDE DEF b
    <3>2. /\ c \in Seq(HcBlock) /\ Len(c) = index
          /\ m \in Nat /\ HcHolds(today \notin gaps, c, m)
      BY <1>3, <3>1, HcCut
    <3>. HIDE DEF m
    <3>3. /\ Talk!Put(c, k) \in Seq(HcBlock)
          /\ k = index => Talk!Put(c, k) = c
          /\ HcHolds(today \notin gaps /\ k = index, Talk!Put(c, k), m)
      BY <3>1, <3>2, HcPut
    <3>4. Talk!Put(c, k) = SubSeq(b, 1, k)
      <4>1. /\ Len(c) = index /\ \A i \in 1 .. index : c[i] = b[i]
        BY <1>3, <3>1, SubSeqProperties
      <4>2. /\ SubSeq(c, 1, k) = [i \in 1 .. k |-> c[i]] /\ SubSeq(b, 1, k) = [i \in 1 .. k |-> b[i]]
        BY <1>3, <3>1, <3>2
      <4>3. \A i \in 1 .. k : c[i] = b[i]
        BY <3>1, <4>1
      <4>. QED
        BY <4>2, <4>3 DEF Talk!Put
    <3>5. (today \notin gaps /\ k = index) <=> today \notin gaps'
      BY <1>2, <2>2, <3>1
    <3>6. HcHolds(d \notin gaps', sessionFile'[d], said'[d])
      BY <1>5, <1>6, <2>2, <3>3, <3>4, <3>5 DEF HcHolds, m
    <3>7. sessionFile'[d] # <<>> \/ d \in gaps'
      BY <1>5, <3>1, <3>2, <3>3, <3>4, <3>5, EmptySeq
    <3>. QED
      BY <1>5, <1>6, <2>2, <3>2, <3>3, <3>4, <3>6, <3>7 DEF HcFile, HcHolds, m
  <2>. QED
    BY <2>1, <2>2
<1>8. \A d \in Talk!Days \ {today} : HcFile(d)'
  BY <1>4 DEF HcInv, HcFile, HcHolds
<1>9. \A d \in Talk!Days : d > today => d # today
  BY <1>3 DEF Talk!Days
<1>. QED
  BY <1>2, <1>3, <1>4, <1>7, <1>8, <1>9 DEF HcInv

LEMMA HcClear == ASSUME HcInv, Talk!ClearMemory PROVE HcInv'
<1>1. /\ sessionFile' = [sessionFile EXCEPT ![today] = <<>>]
      /\ said' = [said EXCEPT ![today] = 0] /\ today' = today /\ gaps' = gaps \ {today}
  BY DEF Talk!ClearMemory
<1>2. today \in Talk!Days /\ DOMAIN sessionFile = Talk!Days /\ DOMAIN said = Talk!Days
  BY DEF HcInv
<1>3. sessionFile'[today] = <<>> /\ said'[today] = 0
  BY <1>1, <1>2
<1>4. /\ DOMAIN sessionFile' = Talk!Days /\ DOMAIN said' = Talk!Days
      /\ \A d \in Talk!Days \ {today} : /\ sessionFile'[d] = sessionFile[d] /\ said'[d] = said[d]
                                        /\ d \in gaps' <=> d \in gaps
  BY <1>1, <1>2
<1>5. ASSUME NEW d \in {today} PROVE HcFile(d)'
  BY <1>3, HcNone
<1>6. \A d \in Talk!Days \ {today} : HcFile(d)'
  BY <1>4 DEF HcInv, HcFile, HcHolds
<1>7. \A d \in Talk!Days : d > today => d # today
  BY <1>2 DEF Talk!Days
<1>. QED
  BY <1>1, <1>2, <1>4, <1>5, <1>6, <1>7 DEF HcInv

LEMMA HcMidnight == ASSUME HcInv, Talk!Midnight PROVE HcInv'
<1>1. /\ today < MaxDays /\ today' = today + 1 /\ sessionFile' = sessionFile /\ said' = said
      /\ gaps' = gaps
  BY DEF Talk!Midnight
<1>2. today' \in Talk!Days
  BY <1>1, HouseholdAssumption DEF HouseholdAssumption, HcInv, Talk!Days
<1>3. \A d \in Talk!Days : HcFile(d)'
  BY <1>1 DEF HcInv, HcFile, HcHolds
<1>4. \A d \in Talk!Days : d > today' => d > today
  BY <1>1 DEF HcInv, Talk!Days
<1>. QED
  BY <1>1, <1>2, <1>3, <1>4 DEF HcInv

LEMMA HcStep == HcInv /\ (Talk!Next \/ UNCHANGED conversation) => HcInv'
<1>. SUFFICES ASSUME HcInv, Talk!Next \/ UNCHANGED conversation PROVE HcInv'
  OBVIOUS
<1>1. ASSUME sessionFile' = sessionFile, said' = said, today' = today, gaps' = gaps PROVE HcInv'
  <2>1. \A d \in Talk!Days : HcFile(d)'
    BY <1>1 DEF HcInv, HcFile, HcHolds
  <2>. QED
    BY <1>1, <2>1 DEF HcInv
<1>2. CASE Talk!Restart
  BY <1>1, <1>2 DEF Talk!Restart
<1>3. CASE UNCHANGED conversation
  BY <1>1, <1>3 DEF conversation
<1>. QED
  BY <1>2, <1>3, HcAppend, HcClear, HcTruncate, HcMidnight DEF Talk!Next

(* A conversation has no hole but those that failed writes made: what a    *)
(* file holds, and what of it the model is shown, are the latest messages  *)
(* of its day, and after a failed write some of them in their order; the   *)
(* last block is always shown, and the file of today survives the clean-up *)
(* for any lengths of messages and limits of a file, a context, the files. *)
THEOREM HistoryWithoutHole == HouseholdSpec => []HistoryHasNoHole
<1>1. HouseholdInit => HcInv
  BY HcInit DEF HouseholdInit
<1>2. HcInv /\ [HouseholdNext]_household => HcInv'
  BY RoomSteps, HcStep
<1>3. HcInv => HistoryHasNoHole
  <2>. SUFFICES ASSUME HcInv, NEW d \in Talk!Days
                PROVE  /\ HcHolds(d \notin gaps, sessionFile[d], said[d])
                       /\ HcHolds(d \notin gaps, Talk!Recent(sessionFile[d]), said[d])
                       /\ sessionFile[d] # <<>> => Talk!Recent(sessionFile[d]) # <<>>
                       /\ d = today /\ said[d] # 0 => d \in Talk!Written
    BY DEF HistoryHasNoHole, Talk!HistoryHasNoHole, Talk!Kept, HcHolds
  <2>1. HcFile(d)
    BY DEF HcInv
  <2>. QED
    BY <2>1, HcRecent DEF HcFile, Talk!Written
<1>. QED
  BY <1>1, <1>2, <1>3, PTL DEF HouseholdSpec

-----------------------------------------------------------------------------
(* The users: a copy that is younger than the last edit by hand is true;   *)
(* messages are in directories, and out of their user's tier only where    *)
(* they were left behind.                                                  *)
UsTiers == Tiers \cup {People!Fallback}

UsRegister ==
  /\ registry \in [People!Everyone -> UsTiers]
  /\ cache \in [People!Everyone -> UsTiers]
  /\ sinceLoad \in 0 .. Reload /\ sinceEdit \in 0 .. Reload /\ uptime \in 0 .. Reload

UsFolders ==
  /\ turn \in [Users -> UsTiers \cup {"none"}]
  /\ dirs \in [Users -> SUBSET UsTiers]
  /\ DOMAIN history = Users /\ DOMAIN left = Users

UsCached == readable /\ sinceLoad < sinceEdit /\ sinceLoad < uptime => cache = registry

UsAtHome(u) ==
  /\ history[u] \subseteq dirs[u]
  /\ history[u] \subseteq {registry[u]} \cup left[u]

UsInv == UsRegister /\ UsFolders /\ UsCached /\ \A u \in Users : UsAtHome(u)

LEMMA UsInit == People!Init => UsInv
<1>. SUFFICES ASSUME People!Init PROVE UsInv
  OBVIOUS
<1>1. UsRegister
  BY HouseholdAssumption DEF People!Init, UsRegister, UsTiers, People!Strangers
<1>2. UsFolders /\ UsCached
  BY HouseholdAssumption DEF People!Init, UsFolders, UsCached
<1>3. \A u \in Users : UsAtHome(u)
  BY DEF People!Init, UsAtHome
<1>. QED
  BY <1>1, <1>2, <1>3 DEF UsInv

LEMMA UsRead ==
  ASSUME UsRegister
  PROVE  /\ People!Read \in [People!Everyone -> UsTiers]
         /\ People!Loaded \in [People!Everyone -> UsTiers]
         /\ readable => People!Read = registry
         /\ \A u \in People!Everyone : People!Read[u] # People!Fallback => People!Read = registry
  BY DEF UsRegister, UsTiers, People!Read, People!Loaded, People!Strangers

LEMMA UsUsers == Users \subseteq People!Everyone /\ Devices \subseteq People!Everyone
  BY DEF People!Everyone

LEMMA UsLoads ==
  ASSUME UsRegister, UsCached, People!EnsureLoaded, UNCHANGED People!register
  PROVE  UsRegister' /\ UsCached'
<1>1. /\ cache' = People!Loaded /\ sinceLoad' = IF sinceLoad < Reload THEN sinceLoad ELSE 0
      /\ UNCHANGED <<registry, readable, sinceEdit, uptime>>
  BY DEF People!EnsureLoaded, People!register
<1>2. UsRegister'
  BY <1>1, UsRead, HouseholdAssumption DEF UsRegister
<1>3. UsCached'
  BY <1>1, UsRead DEF UsRegister, UsCached, People!Loaded
<1>. QED
  BY <1>2, <1>3

LEMMA UsResolve ==
  ASSUME UsInv, NEW u \in Users, NEW byLid \in BOOLEAN, People!Resolve(u, byLid)
  PROVE  UsInv'
<1>1. People!EnsureLoaded /\ UNCHANGED <<People!register, People!folders>>
  BY DEF People!Resolve
<1>2. UsRegister' /\ UsCached'
  BY <1>1, UsLoads DEF UsInv
<1>3. PICK t : turn' = [turn EXCEPT ![u] = t] /\ t \in {People!Fallback, People!Loaded[u]}
  BY DEF People!Resolve
<1>4. t \in UsTiers
  BY <1>3, UsRead, UsUsers DEF UsInv, UsTiers
<1>5. UsFolders'
  BY <1>1, <1>3, <1>4 DEF UsInv, UsFolders, People!folders
<1>6. \A v \in Users : UsAtHome(v)'
  BY <1>1 DEF UsInv, UsAtHome, People!folders, People!register
<1>. QED
  BY <1>2, <1>5, <1>6 DEF UsInv

LEMMA UsAppend ==
  ASSUME UsInv, NEW u \in Users, turn[u] # "none", People!Append(u),
         UNCHANGED <<People!register, People!copies>>, turn' \in [Users -> UsTiers \cup {"none"}]
  PROVE  UsInv'
<1>. DEFINE t == turn[u]
<1>1. UsRegister' /\ UsCached'
  BY DEF UsInv, UsRegister, UsCached, People!register, People!copies
<1>2. t \in UsTiers
  BY DEF UsInv, UsFolders
<1>3. /\ dirs' = [dirs EXCEPT ![u] = @ \cup {t}] /\ history' = [history EXCEPT ![u] = @ \cup {t}]
      /\ left' = [left EXCEPT ![u] = @ \cup ({t} \ {registry[u]})]
  BY DEF People!Append
<1>4. registry' = registry
  BY DEF People!register
<1>. HIDE DEF t
<1>5. UsFolders'
  BY <1>2, <1>3 DEF UsInv, UsFolders
<1>6. \A v \in Users : UsAtHome(v)'
  BY <1>3, <1>4 DEF UsInv, UsFolders, UsAtHome
<1>. QED
  BY <1>1, <1>5, <1>6 DEF UsInv

LEMMA UsTurns ==
  ASSUME UsInv, NEW u \in Users,
         People!Question(u) \/ People!Answer(u) \/ People!Ends(u)
  PROVE  UsInv'
<1>1. UNCHANGED <<People!register, People!copies>>
  BY DEF People!Question, People!Answer, People!Ends, People!Over
<1>2. turn' \in [Users -> UsTiers \cup {"none"}]
  BY DEF UsInv, UsFolders, People!Question, People!Answer, People!Ends, People!Over
<1>3. CASE People!Append(u) /\ turn[u] # "none"
  BY <1>1, <1>2, <1>3, UsAppend
<1>4. CASE People!Append(u) /\ turn[u] = "none"
  BY <1>4 DEF People!Question, People!Answer, People!Ends
<1>5. CASE UNCHANGED People!folders
  BY <1>1, <1>2, <1>5
     DEF UsInv, UsRegister, UsFolders, UsCached, UsAtHome, People!register, People!copies,
         People!folders
<1>. QED
  BY <1>3, <1>4, <1>5 DEF People!Question, People!Answer, People!Ends

(* The admin writes the register: the next request reads it. *)
LEMMA UsWrite ==
  ASSUME UsInv, NEW u \in People!Everyone, NEW t \in UsTiers, People!Write(u, t)
  PROVE  /\ UsRegister' /\ UsCached' /\ turn' = turn
         /\ registry'[u] = t /\ \A v \in People!Everyone \ {u} : registry'[v] = People!Read[v]
<1>1. registry' = [People!Read EXCEPT ![u] = t] /\ sinceLoad' = uptime
  BY DEF People!Write
<1>2. UNCHANGED <<cache, uptime, sinceEdit, turn>>
  BY DEF People!Write, People!requests
<1>3. UsCached'
  BY <1>1, <1>2 DEF UsInv, UsRegister, UsCached
<1>4. People!Read \in [People!Everyone -> UsTiers]
  BY UsRead DEF UsInv
<1>. QED
  BY <1>1, <1>2, <1>3, <1>4 DEF UsInv, UsRegister

(* What the ghost says of a user whose messages stay where they are. *)
LEMMA UsStays ==
  ASSUME UsInv, NEW S, People!LeavesBehind(S), NEW v \in Users, history'[v] = history[v],
         dirs'[v] = dirs[v], v \notin S => registry'[v] = registry[v]
  PROVE  UsAtHome(v)'
<1>1. left'[v] = history'[v] \cap
                   (left[v] \cup IF v \in S THEN history[v] \ {registry'[v]} ELSE {})
  BY DEF People!LeavesBehind
<1>2. CASE v \in S
  BY <1>1, <1>2 DEF UsInv, UsAtHome
<1>3. CASE v \notin S
  BY <1>1, <1>3 DEF UsInv, UsAtHome
<1>. QED
  BY <1>2, <1>3

(* A write that moves no directory, and leaves behind what it moves a user *)
(* away from and what an unreadable register makes it forget.              *)
LEMMA UsListed ==
  ASSUME UsInv, NEW u \in People!Everyone, NEW t \in UsTiers, NEW S,
         People!Write(u, t), People!LeavesBehind(S), UNCHANGED <<dirs, history>>,
         \A v \in Users \ S : v # u /\ People!Read[v] = registry[v]
  PROVE  UsInv'
<1>1. /\ UsRegister' /\ UsCached' /\ turn' = turn
      /\ \A v \in People!Everyone \ {u} : registry'[v] = People!Read[v]
  BY UsWrite
<1>2. UsFolders'
  BY <1>1 DEF UsInv, UsFolders, People!LeavesBehind
<1>3. \A v \in Users : UsAtHome(v)'
  BY <1>1, UsUsers, UsStays
<1>. QED
  BY <1>1, <1>2, <1>3 DEF UsInv

LEMMA UsRegisters ==
  ASSUME UsInv,
         \/ \E u \in Users : People!RegisterUser(u) \/ People!UnregisterUser(u)
         \/ \E d \in Devices : People!RegisterDevice(d) \/ People!RemoveDevice(d)
  PROVE  UsInv'
<1>1. /\ Users \subseteq People!Everyone /\ Devices \subseteq People!Everyone
      /\ Tiers \subseteq UsTiers /\ People!Fallback \in UsTiers
  BY UsUsers DEF UsTiers
<1>2. ASSUME NEW u \in Users, People!RegisterUser(u)
      PROVE  UsInv'
  <2>1. PICK t \in Tiers : People!Write(u, t)
    BY <1>2 DEF People!RegisterUser
  <2>2. People!LeavesBehind({u} \cup People!Lost(u)) /\ UNCHANGED <<dirs, history>>
    BY <1>2 DEF People!RegisterUser
  <2>3. \A v \in Users \ ({u} \cup People!Lost(u)) : v # u /\ People!Read[v] = registry[v]
    BY DEF People!Lost
  <2>. QED
    BY <1>1, <2>1, <2>2, <2>3, UsListed
<1>3. ASSUME NEW u \in Users, People!UnregisterUser(u)
      PROVE  UsInv'
  <2>1. /\ People!Write(u, People!Fallback) /\ People!Read[u] # People!Fallback
        /\ People!LeavesBehind({u}) /\ UNCHANGED <<dirs, history>>
    BY <1>3 DEF People!UnregisterUser
  <2>2. People!Read = registry
    BY <1>1, <2>1, UsRead DEF UsInv
  <2>3. \A v \in Users \ {u} : v # u /\ People!Read[v] = registry[v]
    BY <2>2
  <2>. QED
    BY <1>1, <2>1, <2>3, UsListed
<1>4. ASSUME NEW d \in Devices, People!RegisterDevice(d)
      PROVE  UsInv'
  <2>1. PICK t \in Tiers : People!Write(d, t)
    BY <1>4 DEF People!RegisterDevice
  <2>2. People!LeavesBehind(People!Lost(d)) /\ UNCHANGED <<dirs, history>> /\ d \notin Users
    BY <1>4, HouseholdAssumption DEF People!RegisterDevice
  <2>3. \A v \in Users \ People!Lost(d) : v # d /\ People!Read[v] = registry[v]
    BY <2>2 DEF People!Lost
  <2>. QED
    BY <1>1, <2>1, <2>2, <2>3, UsListed
<1>5. ASSUME NEW d \in Devices, People!RemoveDevice(d)
      PROVE  UsInv'
  <2>1. /\ People!Write(d, People!Fallback) /\ People!Read[d] # People!Fallback
        /\ UNCHANGED People!folders /\ d \notin Users
    BY <1>5, HouseholdAssumption DEF People!RemoveDevice
  <2>2. People!Read = registry
    BY <1>1, <2>1, UsRead DEF UsInv
  <2>3. /\ UsRegister' /\ UsCached' /\ turn' = turn
        /\ \A v \in Users : registry'[v] = registry[v]
    BY <1>1, <2>1, <2>2, UsWrite
  <2>. QED
    BY <2>1, <2>3 DEF UsInv, UsFolders, UsAtHome, People!folders
<1>. QED
  BY <1>2, <1>3, <1>4, <1>5

LEMMA UsChange ==
  ASSUME UsInv, NEW u \in Users, People!ChangeUserTier(u)
  PROVE  UsInv'
<1>. DEFINE old == People!Read[u]
            relocated(S, t) == IF old \in S THEN (S \ {old}) \cup {t} ELSE S
<1>1. u \in People!Everyone
  BY UsUsers
<1>2. PICK t \in Tiers :
        /\ People!Write(u, t)
        /\ IF People!Moved(u, old, t)
           THEN /\ dirs' = [dirs EXCEPT ![u] = relocated(@, t)]
                /\ history' = [history EXCEPT ![u] = relocated(@, t)]
           ELSE UNCHANGED <<dirs, history>>
        /\ People!LeavesBehind(People!Lost(u) \cup {v \in {u} : old = People!Fallback \/ t \in dirs[u]})
  BY DEF People!ChangeUserTier
<1>3. t \in UsTiers
  BY DEF UsTiers
<1>4. /\ UsRegister' /\ UsCached' /\ turn' = turn /\ registry'[u] = t
      /\ \A v \in People!Everyone \ {u} : registry'[v] = People!Read[v]
  BY <1>1, <1>2, <1>3, UsWrite
<1>5. UsFolders'
  BY <1>2, <1>3, <1>4 DEF UsInv, UsFolders, People!LeavesBehind
<1>6. ASSUME NEW v \in Users \ {u} PROVE UsAtHome(v)'
  <2>1. history'[v] = history[v] /\ dirs'[v] = dirs[v]
    BY <1>2 DEF UsInv, UsFolders
  <2>2. v \notin People!Lost(u) => registry'[v] = registry[v]
    BY <1>4, UsUsers DEF People!Lost
  <2>. QED
    BY <1>2, <2>1, <2>2, UsStays
<1>7. UsAtHome(u)'
  <2>1. old # People!Fallback => old = registry[u]
    BY <1>1, UsRead DEF UsInv
  <2>2. u \notin People!Lost(u)
    BY DEF People!Lost
  <2>3. UsAtHome(u)
    BY DEF UsInv
  <2>4. CASE People!Moved(u, old, t)
    <3>1. /\ dirs'[u] = relocated(dirs[u], t) /\ history'[u] = relocated(history[u], t)
          /\ left'[u] = history'[u] \cap left[u]
      BY <1>2, <2>2, <2>4 DEF UsInv, UsFolders, People!Moved, People!LeavesBehind
    <3>2. old # People!Fallback /\ old \in dirs[u]
      BY <2>4 DEF People!Moved
    <3>. HIDE DEF old
    <3>3. history'[u] \subseteq dirs'[u]
      BY <2>3, <3>1, <3>2 DEF UsAtHome
    <3>. QED
      BY <1>4, <2>1, <2>3, <3>1, <3>2, <3>3 DEF UsAtHome
  <2>5. CASE ~People!Moved(u, old, t) /\ (old = People!Fallback \/ t \in dirs[u])
    BY <1>2, <2>5, UsStays
  <2>6. CASE ~People!Moved(u, old, t) /\ ~(old = People!Fallback \/ t \in dirs[u])
    <3>1. /\ dirs'[u] = dirs[u] /\ history'[u] = history[u]
          /\ left'[u] = history[u] \cap left[u]
      BY <1>2, <2>2, <2>6 DEF UsInv, UsFolders, People!LeavesBehind
    <3>2. old = registry[u] /\ (old = t \/ old \notin dirs[u])
      BY <2>1, <2>6 DEF People!Moved
    <3>. HIDE DEF old
    <3>. QED
      BY <1>4, <2>3, <3>1, <3>2 DEF UsAtHome
  <2>. QED
    BY <2>4, <2>5, <2>6
<1>. QED
  BY <1>4, <1>5, <1>6, <1>7 DEF UsInv

LEMMA UsStep ==
  ASSUME UsInv, People!Next
  PROVE  UsInv'
<1>1. ASSUME NEW u \in Users, People!ClearUserHistory(u)
      PROVE  UsInv'
  <2>1. PICK t : /\ history' = [history EXCEPT ![u] = @ \ {t}]
                 /\ left' = [left EXCEPT ![u] = @ \ {t}]
    BY <1>1 DEF People!ClearUserHistory
  <2>2. UNCHANGED <<People!register, People!copies, People!requests, dirs>>
    BY <1>1 DEF People!ClearUserHistory
  <2>3. UNCHANGED <<registry, readable, cache, uptime, sinceLoad, sinceEdit, turn>>
    BY <2>2 DEF People!register, People!copies, People!requests
  <2>4. DOMAIN history' = Users /\ DOMAIN left' = Users
    BY <2>1 DEF UsInv, UsFolders
  <2>5. ASSUME NEW v \in Users PROVE UsAtHome(v)'
    BY <2>1, <2>2, <2>3 DEF UsInv, UsFolders, UsAtHome
  <2>. QED
    BY <2>2, <2>3, <2>4, <2>5 DEF UsInv, UsRegister, UsFolders, UsCached
<1>2. ASSUME People!EditByHand
      PROVE  UsInv'
  <2>1. PICK u \in People!Everyone, t \in UsTiers :
          registry' = [registry EXCEPT ![u] = t] /\ People!LeavesBehind(Users \cap {u})
    BY <1>2 DEF People!EditByHand, UsTiers
  <2>2. /\ sinceEdit' = 0
        /\ UNCHANGED <<cache, uptime, sinceLoad, turn, dirs, history>>
    BY <1>2 DEF People!EditByHand, People!copies, People!requests
  <2>3. UsRegister' /\ UsCached'
    BY <2>1, <2>2, HouseholdAssumption DEF UsInv, UsRegister, UsCached
  <2>4. UsFolders'
    BY <2>1, <2>2 DEF UsInv, UsFolders, People!LeavesBehind
  <2>5. ASSUME NEW v \in Users PROVE UsAtHome(v)'
    <3>1. v \notin Users \cap {u} => registry'[v] = registry[v]
      BY <2>1, UsUsers DEF UsInv, UsRegister
    <3>. QED
      BY <2>1, <2>2, <3>1, UsStays
  <2>. QED
    BY <2>3, <2>4, <2>5 DEF UsInv
<1>3. ASSUME People!Tick
      PROVE  UsInv'
  <2>1. /\ uptime' = People!Lowest(uptime + 1) /\ sinceLoad' = People!Lowest(sinceLoad + 1)
        /\ sinceEdit' = People!Lowest(sinceEdit + 1)
        /\ UNCHANGED <<registry, readable, cache, turn, dirs, history, left>>
    BY <1>3 DEF People!Tick, People!requests, People!folders
  <2>2. /\ uptime' \in 0 .. Reload /\ sinceLoad' \in 0 .. Reload /\ sinceEdit' \in 0 .. Reload
        /\ sinceLoad' < sinceEdit' => sinceLoad < sinceEdit
        /\ sinceLoad' < uptime' => sinceLoad < uptime
    BY <2>1, HouseholdAssumption DEF UsInv, UsRegister, People!Lowest
  <2>. QED
    BY <2>1, <2>2 DEF UsInv, UsRegister, UsFolders, UsCached, UsAtHome
<1>4. ASSUME People!Restart
      PROVE  UsInv'
  <2>1. /\ cache' = People!Strangers /\ sinceLoad' = uptime /\ turn' = [v \in Users |-> "none"]
        /\ UNCHANGED <<registry, readable, uptime, sinceEdit, dirs, history, left>>
    BY <1>4 DEF People!Restart, People!register, People!folders
  <2>2. cache' \in [People!Everyone -> UsTiers]
    BY <2>1 DEF People!Strangers, UsTiers
  <2>. QED
    BY <2>1, <2>2 DEF UsInv, UsRegister, UsFolders, UsCached, UsAtHome
<1>5. ASSUME People!ResolveDevice
      PROVE  UsInv'
  <2>1. UsRegister' /\ UsCached'
    BY <1>5, UsLoads DEF UsInv, People!ResolveDevice
  <2>. QED
    BY <1>5, <2>1 DEF UsInv, UsFolders, UsAtHome, People!ResolveDevice, People!register,
                      People!requests, People!folders
<1>6. ASSUME People!SyncEnds
      PROVE  UsInv'
  BY <1>6 DEF UsInv, UsRegister, UsFolders, UsCached, UsAtHome, People!SyncEnds,
              People!register, People!requests, People!folders
<1>. QED
  BY <1>1, <1>2, <1>3, <1>4, <1>5, <1>6, UsResolve, UsTurns, UsRegisters, UsChange
     DEF People!Next

LEMMA UsRests == UsInv /\ UNCHANGED users => UsInv'
  BY DEF UsInv, UsRegister, UsFolders, UsCached, UsAtHome, users

(* Once the file has rested for RELOAD_INTERVAL, what is loaded is true. *)
LEMMA UsTrue ==
  ASSUME UsInv, readable, sinceEdit = Reload, uptime = Reload
  PROVE  People!Loaded = registry
<1>1. People!Read = registry
  BY UsRead DEF UsInv
<1>2. sinceLoad < Reload => cache = registry
  BY HouseholdAssumption DEF UsInv, UsRegister, UsCached
<1>. QED
  BY <1>1, <1>2, Zenon DEF People!Loaded

LEMMA UsServed ==
  ASSUME UsInv, [HouseholdNext]_household
  PROVE  [readable /\ sinceEdit = Reload /\ uptime = Reload =>
            /\ \A d \in Devices : People!Loaded[d] = registry[d]
            /\ \A u \in Users :
                 turn[u] = "none" /\ turn'[u] # "none" =>
                   \/ turn'[u] = registry[u]
                   \/ turn'[u] = People!Fallback /\ u \in hidden' \ lidMap]_(People!users)
<1>1. CASE UNCHANGED users
  BY <1>1 DEF users, People!users, People!register, People!copies, People!requests, People!folders
<1>2. CASE People!Next
  <2>. SUFFICES ASSUME readable, sinceEdit = Reload, uptime = Reload
                PROVE  /\ \A d \in Devices : People!Loaded[d] = registry[d]
                       /\ \A u \in Users :
                            turn[u] = "none" /\ turn'[u] # "none" =>
                              \/ turn'[u] = registry[u]
                              \/ turn'[u] = People!Fallback /\ u \in hidden' \ lidMap
    OBVIOUS
  <2>1. People!Loaded = registry
    BY UsTrue
  <2>2. ASSUME NEW u \in Users, turn[u] = "none", turn'[u] # "none"
        PROVE  turn'[u] = registry[u] \/ (turn'[u] = People!Fallback /\ u \in hidden' \ lidMap)
    <3>1. CASE \E v \in Users, byLid \in BOOLEAN : People!Resolve(v, byLid)
      <4>1. PICK v \in Users, byLid \in BOOLEAN : People!Resolve(v, byLid)
        BY <3>1
      <4>2. u = v
        BY <2>2, <4>1 DEF UsInv, UsFolders, People!Resolve
      <4>3. turn'[u] = IF byLid /\ u \notin lidMap THEN People!Fallback ELSE registry[u]
        BY <2>1, <4>1, <4>2 DEF UsInv, UsFolders, People!Resolve
      <4>4. byLid => u \in hidden'
        BY <4>1, <4>2 DEF People!Resolve
      <4>. QED
        BY <4>3, <4>4
    <3>2. CASE \E v \in Users : People!Answer(v) \/ People!Ends(v)
      <4>1. PICK v \in Users : People!Over(v)
        BY <3>2 DEF People!Answer, People!Ends
      <4>. QED
        BY <2>2, <4>1 DEF UsInv, UsFolders, People!Over
    <3>3. CASE People!Restart
      BY <2>2, <3>3 DEF People!Restart
    <3>4. CASE turn' = turn
      BY <2>2, <3>4
    <3>. QED
      BY <1>2, <3>1, <3>2, <3>3, <3>4
         DEF People!Next, People!Question, People!ResolveDevice, People!RegisterUser,
             People!UnregisterUser, People!ChangeUserTier, People!ClearUserHistory,
             People!RegisterDevice, People!RemoveDevice, People!SyncEnds, People!EditByHand,
             People!Tick, People!Write, People!requests
  <2>. QED
    BY <2>1, <2>2
<1>. QED
  BY <1>1, <1>2, RoomSteps

(* The history of a user is in its tier, but for the messages that a step  *)
(* left behind, each of them a cause that HistoryTogether names: for any   *)
(* users, tiers and moves, with caches, restarts and unreadable registers  *)
(* (api/v1/admin.py, orchestrator.py).                                     *)
THEOREM HistoryInOnePlace == HouseholdSpec => []HistoryTogether
<1>1. HouseholdInit => UsInv
  BY UsInit DEF HouseholdInit
<1>2. UsInv /\ [HouseholdNext]_household => UsInv'
  BY RoomSteps, UsStep, UsRests
<1>3. UsInv => HistoryTogether
  BY DEF UsInv, UsAtHome, HistoryTogether, People!HistoryTogether
<1>. QED
  BY <1>1, <1>2, <1>3, PTL DEF HouseholdSpec

(* A request is served in the tier that the admin gave last, whatever the  *)
(* cache holds, or as a stranger's while the gateway does not know whose   *)
(* hidden id it came by, for any users, devices and reload interval        *)
(* (user_registry.py).                                                     *)
THEOREM TierServedIsCurrent == HouseholdSpec => TierIsCurrent
<1>1. HouseholdInit => UsInv
  BY UsInit DEF HouseholdInit
<1>2. UsInv /\ [HouseholdNext]_household => UsInv'
  BY RoomSteps, UsStep, UsRests
<1>. QED
  BY <1>1, <1>2, UsServed, PTL DEF HouseholdSpec, TierIsCurrent, People!TierIsCurrent

-----------------------------------------------------------------------------
(* The facts: the holder of a process's lock is the one at work in it; and *)
(* without overlap the one edit at work read what was acknowledged.        *)
FaTables == [Topics -> SUBSET FactValues]

FaEdits ==
  [topic : Topics \cup {"none"}, value : SUBSET FactValues, append : BOOLEAN, data : FaTables]

FaTypes ==
  /\ json \in FaTables \cup {Facts!Torn} /\ truth \in FaTables
  /\ edit \in [Facts!Threads -> FaEdits]
  /\ editAt \in [Facts!Threads -> {"idle", "loaded", "emptied", "written"}]
  /\ DOMAIN lock = Facts!Processes

FaLocked ==
  \A w \in Facts!Threads :
    editAt[w] # "idle" => lock[Facts!Process(w)] = w /\ edit[w].topic \in Topics

FaApart ==
  /\ \A w, x \in Facts!Threads : editAt[w] # "idle" /\ editAt[x] # "idle" => w = x
  /\ md = truth
  /\ \A w \in Facts!Threads :
       /\ editAt[w] # "idle" => edit[w].data = truth
       /\ editAt[w] = "written" => json = Facts!Edited(w, truth)
  /\ (\A w \in Facts!Threads : editAt[w] \in {"idle", "loaded"}) => json = truth

FaInv == FaTypes /\ FaLocked /\ (~mixed => FaApart)

LEMMA FaInit == Facts!Init => FaInv
<1>. SUFFICES ASSUME Facts!Init PROVE FaInv
  OBVIOUS
<1>1. Facts!None \in FaTables
  BY DEF Facts!None, FaTables
<1>2. /\ json = Facts!None /\ md = Facts!None /\ truth = Facts!None
      /\ \A w \in Facts!Threads : editAt[w] = "idle"
  BY DEF Facts!Init
<1>3. edit \in [Facts!Threads -> FaEdits]
  <2>1. [topic |-> "none", value |-> {}, append |-> FALSE, data |-> Facts!None] \in FaEdits
    BY <1>1 DEF FaEdits
  <2>. QED
    BY <2>1 DEF Facts!Init
<1>4. editAt \in [Facts!Threads -> {"idle", "loaded", "emptied", "written"}]
      /\ DOMAIN lock = Facts!Processes
  BY DEF Facts!Init
<1>. QED
  BY <1>1, <1>2, <1>3, <1>4 DEF FaInv, FaTypes, FaLocked, FaApart

(* A table of facts is never taken for a torn file. *)
LEMMA FaLoad ==
  ASSUME FaTypes
  PROVE  Facts!Load \in FaTables /\ (json \in FaTables => Facts!Load = json)
<1>1. ASSUME json \in FaTables, json = Facts!Torn PROVE json = Facts!None
  <2>1. ASSUME NEW t \in Topics PROVE FALSE
    <3>1. json[t] = {"torn"} /\ json[t] \subseteq FactValues
      BY <1>1, <2>1 DEF Facts!Torn, FaTables
    <3>. QED
      BY <3>1, HouseholdAssumption
  <2>2. Topics = {}
    BY <2>1
  <2>. QED
    BY <1>1, <2>2 DEF Facts!Torn, Facts!None
<1>2. Facts!None \in FaTables
  BY DEF Facts!None, FaTables
<1>. QED
  BY <1>1, <1>2 DEF FaTypes, Facts!Load

LEMMA FaEdited ==
  ASSUME FaTypes, NEW w \in Facts!Threads, NEW data \in FaTables
  PROVE  Facts!Edited(w, data) \in FaTables
<1>1. edit[w].value \subseteq FactValues
  BY DEF FaTypes, FaEdits
<1>. QED
  BY <1>1 DEF Facts!Edited, FaTables

LEMMA FaProcess ==
  /\ \A w \in Facts!Threads : Facts!Process(w) \in Facts!Processes
  /\ \A w \in ToolProcesses : w \in Facts!Threads /\ Facts!Process(w) = w
  /\ \A w \in Facts!Threads : w # "free"
  BY HouseholdAssumption DEF Facts!Processes, Facts!Process, Facts!Threads

LEMMA FaBegin ==
  ASSUME FaInv, NEW w \in Facts!Threads, NEW t \in Topics, NEW v \in SUBSET FactValues,
         NEW append \in BOOLEAN, Facts!Begin(w, t, v, append)
  PROVE  FaInv'
<1>. DEFINE new == [topic |-> t, value |-> v, append |-> append, data |-> Facts!Load]
<1>1. /\ editAt[w] = "idle" /\ lock[Facts!Process(w)] = "free"
      /\ edit' = [edit EXCEPT ![w] = new] /\ editAt' = [editAt EXCEPT ![w] = "loaded"]
      /\ lock' = [lock EXCEPT ![Facts!Process(w)] = w]
      /\ UNCHANGED <<json, md, truth>>
  BY DEF Facts!Begin, Facts!Free
<1>2. FaTypes /\ Facts!Load \in FaTables
  BY FaLoad DEF FaInv
<1>3. new \in FaEdits /\ new.topic = t /\ new.data = Facts!Load
  BY <1>2 DEF FaEdits
<1>. HIDE DEF new
<1>4. PICK n \in FaEdits : n = new
  BY <1>3
<1>5. /\ edit' \in [Facts!Threads -> FaEdits] /\ edit'[w] = n
      /\ \A x \in Facts!Threads \ {w} : edit'[x] = edit[x]
  BY <1>1, <1>2, <1>4 DEF FaTypes
<1>6. /\ editAt' \in [Facts!Threads -> {"idle", "loaded", "emptied", "written"}]
      /\ editAt'[w] = "loaded" /\ \A x \in Facts!Threads \ {w} : editAt'[x] = editAt[x]
  BY <1>1, <1>2 DEF FaTypes
<1>7. /\ DOMAIN lock' = Facts!Processes /\ lock'[Facts!Process(w)] = w
      /\ \A p \in Facts!Processes \ {Facts!Process(w)} : lock'[p] = lock[p]
  BY <1>1, <1>2, FaProcess DEF FaTypes
<1>8. FaTypes'
  BY <1>1, <1>2, <1>5, <1>6, <1>7 DEF FaTypes
<1>9. \A x \in Facts!Threads \ {w} : editAt[x] # "idle" => Facts!Process(x) # Facts!Process(w)
  BY <1>1, FaProcess DEF FaInv, FaLocked
<1>10. FaLocked'
  BY <1>3, <1>4, <1>5, <1>6, <1>7, <1>9, FaProcess DEF FaInv, FaLocked
<1>11. ASSUME ~mixed'
       PROVE  FaApart'
  <2>1. ~mixed /\ \A x \in Facts!Threads \ {w} : editAt[x] = "idle"
    <3>1. ~mixed /\ \A x \in Facts!Threads : Facts!Process(x) # Facts!Process(w) => editAt[x] = "idle"
      BY <1>11, Zenon DEF Facts!Begin
    <3>. QED
      BY <1>9, <3>1
  <2>2. FaApart /\ json = truth
    BY <1>1, <2>1 DEF FaInv, FaApart
  <2>3. n.data = truth
    BY <1>2, <1>3, <1>4, <2>2, FaLoad DEF FaTypes
  <2>. QED
    BY <1>1, <1>5, <1>6, <2>1, <2>2, <2>3 DEF FaApart
<1>. QED
  BY <1>8, <1>10, <1>11 DEF FaInv

(* The writes of an edit: the file is emptied, and filled again. *)
LEMMA FaWrite ==
  ASSUME FaInv, NEW w \in Facts!Threads, Facts!Empty(w) \/ Facts!Save(w)
  PROVE  FaInv'
<1>1. PICK to \in {"emptied", "written"} :
        /\ editAt[w] # "idle" /\ editAt' = [editAt EXCEPT ![w] = to]
        /\ json' = IF to = "emptied" THEN Facts!Torn ELSE Facts!Edited(w, edit[w].data)
        /\ UNCHANGED <<md, edit, lock, truth, mixed>>
  BY DEF Facts!Empty, Facts!Save
<1>2. FaTypes /\ edit[w].data \in FaTables
  BY DEF FaInv, FaTypes, FaEdits
<1>3. json' \in FaTables \cup {Facts!Torn}
  BY <1>1, <1>2, FaEdited
<1>4. /\ editAt' \in [Facts!Threads -> {"idle", "loaded", "emptied", "written"}]
      /\ editAt'[w] = to /\ \A x \in Facts!Threads \ {w} : editAt'[x] = editAt[x]
  BY <1>1, <1>2 DEF FaTypes
<1>5. Facts!Torn' = Facts!Torn
  BY DEF Facts!Torn
<1>6. FaTypes'
  BY <1>1, <1>2, <1>3, <1>4, <1>5 DEF FaTypes
<1>7. FaLocked'
  BY <1>1, <1>4 DEF FaInv, FaLocked
<1>8. ASSUME ~mixed'
      PROVE  FaApart'
  <2>1. FaApart /\ \A x \in Facts!Threads \ {w} : editAt[x] = "idle"
    BY <1>1, <1>8 DEF FaInv, FaApart
  <2>2. edit[w].data = truth
    BY <1>1, <2>1 DEF FaApart
  <2>3. to = "written" => json' = Facts!Edited(w, truth)'
    BY <1>1, <2>2 DEF Facts!Edited
  <2>. QED
    BY <1>1, <1>4, <2>1, <2>2, <2>3 DEF FaApart
<1>. QED
  BY <1>6, <1>7, <1>8 DEF FaInv

LEMMA FaSaved ==
  ASSUME FaInv, NEW w \in Facts!Threads, Facts!SaveMd(w)
  PROVE  FaInv'
<1>1. /\ editAt[w] = "written" /\ editAt' = [editAt EXCEPT ![w] = "idle"]
      /\ md' = Facts!Edited(w, edit[w].data) /\ truth' = Facts!Edited(w, truth)
      /\ lock' = [lock EXCEPT ![Facts!Process(w)] = "free"]
      /\ UNCHANGED <<json, edit, mixed>>
  BY DEF Facts!SaveMd
<1>2. FaTypes /\ truth' \in FaTables
  BY <1>1, FaEdited DEF FaInv, FaTypes
<1>3. /\ editAt' \in [Facts!Threads -> {"idle", "loaded", "emptied", "written"}]
      /\ editAt'[w] = "idle" /\ \A x \in Facts!Threads \ {w} : editAt'[x] = editAt[x]
  BY <1>1, <1>2 DEF FaTypes
<1>4. /\ DOMAIN lock' = Facts!Processes
      /\ \A p \in Facts!Processes \ {Facts!Process(w)} : lock'[p] = lock[p]
  BY <1>1, <1>2 DEF FaTypes
<1>5. Facts!Torn' = Facts!Torn
  BY DEF Facts!Torn
<1>6. FaTypes'
  BY <1>1, <1>2, <1>3, <1>4, <1>5 DEF FaTypes
<1>7. \A x \in Facts!Threads \ {w} : editAt[x] # "idle" => Facts!Process(x) # Facts!Process(w)
  BY <1>1 DEF FaInv, FaLocked
<1>8. FaLocked'
  BY <1>1, <1>3, <1>4, <1>7, FaProcess DEF FaInv, FaLocked
<1>9. ASSUME ~mixed'
      PROVE  FaApart'
  <2>1. FaApart
    BY <1>1, <1>9 DEF FaInv
  <2>2. \A x \in Facts!Threads : editAt'[x] = "idle"
    BY <1>1, <1>3, <2>1 DEF FaApart
  <2>3. json' = truth' /\ md' = truth'
    BY <1>1, <2>1 DEF FaApart
  <2>. QED
    BY <2>2, <2>3 DEF FaApart
<1>. QED
  BY <1>6, <1>8, <1>9 DEF FaInv

LEMMA FaDied ==
  ASSUME FaInv, NEW w \in Facts!Threads, Facts!Die(w)
  PROVE  FaInv'
<1>1. /\ w \in ToolProcesses /\ editAt[w] # "idle" /\ editAt' = [editAt EXCEPT ![w] = "idle"]
      /\ lock' = [lock EXCEPT ![w] = "free"] /\ mixed' = TRUE
      /\ UNCHANGED <<json, edit, truth>>
  BY DEF Facts!Die
<1>2. FaTypes /\ Facts!Process(w) = w
  BY <1>1, FaProcess DEF FaInv
<1>3. /\ editAt' \in [Facts!Threads -> {"idle", "loaded", "emptied", "written"}]
      /\ editAt'[w] = "idle" /\ \A x \in Facts!Threads \ {w} : editAt'[x] = editAt[x]
  BY <1>1, <1>2 DEF FaTypes
<1>4. /\ DOMAIN lock' = Facts!Processes
      /\ \A p \in Facts!Processes \ {w} : lock'[p] = lock[p]
  BY <1>1, <1>2 DEF FaTypes
<1>5. Facts!Torn' = Facts!Torn
  BY DEF Facts!Torn
<1>6. FaTypes'
  BY <1>1, <1>2, <1>3, <1>4, <1>5 DEF FaTypes
<1>7. \A x \in Facts!Threads \ {w} : editAt[x] # "idle" => Facts!Process(x) # w
  BY <1>1, <1>2 DEF FaInv, FaLocked
<1>8. FaLocked'
  BY <1>1, <1>3, <1>4, <1>7, FaProcess DEF FaInv, FaLocked
<1>. QED
  BY <1>1, <1>6, <1>8 DEF FaInv

LEMMA FaStep ==
  ASSUME FaInv, Facts!Next
  PROVE  FaInv'
<1>1. ASSUME NEW w \in Facts!Threads,
             \/ Facts!ManageKnowledgeBase(w) \/ Facts!DirectStoreFact(w)
             \/ Facts!UpdateFact(w) \/ Facts!DeleteFact(w)
      PROVE  FaInv'
  <2>1. PICK t \in Topics, v \in SUBSET FactValues, append \in BOOLEAN :
          Facts!Begin(w, t, v, append)
    <3>1. {} \in SUBSET FactValues /\ \A x \in FactValues : {x} \in SUBSET FactValues
      OBVIOUS
    <3>2. CASE Facts!ManageKnowledgeBase(w)
      <4>1. PICK t \in Topics, v \in {{x} : x \in FactValues} \cup {{}} :
              Facts!Begin(w, t, v, FALSE)
        BY <3>2 DEF Facts!ManageKnowledgeBase
      <4>2. v \in SUBSET FactValues
        BY <3>1
      <4>. QED
        BY <4>1, <4>2
    <3>3. CASE Facts!DirectStoreFact(w)
      <4>1. PICK t \in Topics, x \in FactValues : Facts!Begin(w, t, {x}, t \in ListTopics)
        BY <3>3, Zenon DEF Facts!DirectStoreFact
      <4>2. {x} \in SUBSET FactValues /\ (t \in ListTopics) \in BOOLEAN
        OBVIOUS
      <4>. QED
        BY <4>1, <4>2, Zenon
    <3>4. CASE Facts!UpdateFact(w)
      BY <3>1, <3>4 DEF Facts!UpdateFact
    <3>5. CASE Facts!DeleteFact(w)
      BY <3>1, <3>5 DEF Facts!DeleteFact
    <3>. QED
      BY <1>1, <3>2, <3>3, <3>4, <3>5
  <2>. QED
    BY <2>1, FaBegin
<1>. QED
  BY <1>1, FaWrite, FaSaved, FaDied DEF Facts!Next

LEMMA FaRests == FaInv /\ UNCHANGED facts => FaInv'
<1>. SUFFICES ASSUME FaInv, UNCHANGED facts PROVE FaInv'
  OBVIOUS
<1>1. UNCHANGED <<json, md, edit, editAt, lock, truth, mixed>>
  BY DEF facts
<1>2. FaTypes' /\ FaLocked'
  BY <1>1 DEF FaInv, FaTypes, FaLocked, Facts!Torn
<1>3. \A w \in Facts!Threads : Facts!Edited(w, truth)' = Facts!Edited(w, truth)
  BY <1>1 DEF Facts!Edited
<1>4. FaApart => FaApart'
  BY <1>1, <1>3 DEF FaApart
<1>. QED
  BY <1>1, <1>2, <1>4 DEF FaInv

(* As long as no edits of two processes overlap and none is cut off, no    *)
(* acknowledged fact is lost and both files agree, for any facts and any   *)
(* threads of the gateway at work at once (updater.py, api/v1/memory.py).  *)
THEOREM AcknowledgedFactsStay == HouseholdSpec => []FactsAgree
<1>1. HouseholdInit => FaInv
  BY FaInit DEF HouseholdInit
<1>2. FaInv /\ [HouseholdNext]_household => FaInv'
  BY RoomSteps, FaStep, FaRests
<1>3. FaInv => FactsAgree
  BY DEF FaInv, FaApart, FactsAgree, Facts!FactsAgree
<1>. QED
  BY <1>1, <1>2, <1>3, PTL DEF HouseholdSpec

-----------------------------------------------------------------------------
(* WhatsApp: unless the phone was disconnected there is one connection, or *)
(* one to come; a delivery is with its handler, or processed, or lost; and *)
(* what was processed is owed an answer, or answered, or not.              *)
WbNetwork ==
  /\ timers \in Nat /\ connecting \in Nat /\ sockets \in Nat
  /\ bridgeAt # "on" => timers = 0 /\ connecting = 0 /\ sockets = 0
  /\ ~loggedOut => timers + connecting + sockets <= 1

WbJobs == [queued : Nat, running : Nat, reply : Nat]

WbStages == [step : {"read", "post"}, attempt : Nat]

WbTypes ==
  /\ loggedOut \in BOOLEAN
  /\ DOMAIN handlers = Bridge!Msgs
  /\ \A m \in Bridge!Msgs : handlers[m] \in Seq(WbStages)
  /\ job \in [Bridge!Msgs -> WbJobs]
  /\ delivered \in [Bridge!Msgs -> Nat]
  /\ posted \in [Bridge!Msgs -> Nat] /\ replies \in [Bridge!Msgs -> Nat]

WbSum(j) == j.queued + j.running + j.reply

WbOwed(m) == WbSum(job[m])

WbCount(m) ==
  /\ posted[m] + Len(handlers[m]) <= delivered[m]
  /\ replies[m] + WbOwed(m) <= posted[m]

WbInv == WbNetwork /\ WbTypes /\ \A m \in Bridge!Msgs : WbCount(m)

LEMMA WbInit == Bridge!Init => WbInv
<1>. SUFFICES ASSUME Bridge!Init PROVE WbInv
  OBVIOUS
<1>1. WbNetwork
  BY DEF Bridge!Init, WbNetwork
<1>2. /\ loggedOut = FALSE /\ handlers = [m \in Bridge!Msgs |-> << >>]
      /\ delivered = [m \in Bridge!Msgs |-> 0]
      /\ job = [m \in Bridge!Msgs |-> Bridge!Idle]
      /\ posted = [m \in Bridge!Msgs |-> 0] /\ replies = [m \in Bridge!Msgs |-> 0]
  BY DEF Bridge!Init
<1>3. Bridge!Idle \in WbJobs
  BY DEF Bridge!Idle, WbJobs
<1>4. WbTypes
  <2>1. loggedOut \in BOOLEAN /\ DOMAIN handlers = Bridge!Msgs
    BY <1>2
  <2>2. \A m \in Bridge!Msgs : handlers[m] \in Seq(WbStages)
    BY <1>2
  <2>3. job \in [Bridge!Msgs -> WbJobs]
    BY <1>2, <1>3
  <2>4. delivered \in [Bridge!Msgs -> Nat]
    BY <1>2
  <2>5. posted \in [Bridge!Msgs -> Nat] /\ replies \in [Bridge!Msgs -> Nat]
    BY <1>2
  <2>. QED
    BY <2>1, <2>2, <2>3, <2>4, <2>5 DEF WbTypes
<1>5. ASSUME NEW m \in Bridge!Msgs PROVE WbCount(m)
  <2>1. handlers[m] = << >> /\ delivered[m] = 0 /\ posted[m] = 0 /\ replies[m] = 0
    BY <1>2
  <2>2. job[m] = Bridge!Idle
    BY <1>2
  <2>3. WbOwed(m) = 0
    BY <2>2 DEF WbOwed, WbSum, Bridge!Idle
  <2>. QED
    BY <2>1, <2>3 DEF WbCount
<1>. QED
  BY <1>1, <1>4, <1>5 DEF WbInv

(* What a step does with the handlers: it moves one on, or ends it. *)
LEMMA WbMoved ==
  ASSUME NEW S, NEW s \in Seq(S), NEW i \in DOMAIN s, NEW h \in S
  PROVE  [s EXCEPT ![i] = h] \in Seq(S) /\ Len([s EXCEPT ![i] = h]) = Len(s)
  OBVIOUS

LEMMA WbRemoved ==
  ASSUME NEW S, NEW s \in Seq(S), NEW i \in DOMAIN s
  PROVE  Bridge!RemoveAt(s, i) \in Seq(S) /\ Len(Bridge!RemoveAt(s, i)) = Len(s) - 1
<1>. DEFINE a == SubSeq(s, 1, i - 1)
            b == SubSeq(s, i + 1, Len(s))
<1>1. a \in Seq(S) /\ Len(a) = i - 1
  OBVIOUS
<1>2. b \in Seq(S) /\ Len(b) = Len(s) - i
  OBVIOUS
<1>3. Bridge!RemoveAt(s, i) = a \o b
  BY DEF Bridge!RemoveAt
<1>. HIDE DEF a, b
<1>. QED
  BY <1>1, <1>2, <1>3

(* A step of the handlers of one message. *)
LEMMA WbHandled ==
  ASSUME WbInv, NEW m \in Bridge!Msgs, NEW hs \in Seq(WbStages),
         handlers' = [handlers EXCEPT ![m] = hs],
         posted' \in [Bridge!Msgs -> Nat], delivered' \in [Bridge!Msgs -> Nat],
         job' \in [Bridge!Msgs -> WbJobs], replies' = replies,
         posted'[m] + Len(hs) <= delivered'[m],
         replies[m] + WbOwed(m)' <= posted'[m],
         \A n \in Bridge!Msgs \ {m} : /\ posted'[n] = posted[n] /\ delivered'[n] = delivered[n]
                                      /\ job'[n] = job[n],
         UNCHANGED <<bridgeAt, timers, connecting, sockets, loggedOut>>
  PROVE  WbInv'
<1>1. /\ DOMAIN handlers' = Bridge!Msgs /\ handlers'[m] = hs
      /\ \A n \in Bridge!Msgs \ {m} : handlers'[n] = handlers[n]
  BY DEF WbInv, WbTypes
<1>2. WbNetwork'
  BY DEF WbInv, WbNetwork
<1>3. \A n \in Bridge!Msgs : handlers'[n] \in Seq(WbStages)
  BY <1>1 DEF WbInv, WbTypes
<1>4. WbTypes'
  BY <1>1, <1>3 DEF WbInv, WbTypes
<1>5. ASSUME NEW n \in Bridge!Msgs PROVE WbCount(n)'
  <2>1. CASE n = m
    BY <1>1, <2>1 DEF WbCount
  <2>2. CASE n # m
    <3>1. /\ posted'[n] = posted[n] /\ delivered'[n] = delivered[n] /\ job'[n] = job[n]
          /\ handlers'[n] = handlers[n] /\ replies'[n] = replies[n]
      BY <1>1, <2>2
    <3>. QED
      BY <3>1 DEF WbInv, WbCount, WbOwed
  <2>. QED
    BY <2>1, <2>2
<1>. QED
  BY <1>2, <1>4, <1>5 DEF WbInv

LEMMA WbHandlers ==
  ASSUME WbInv, NEW m \in Bridge!Msgs, NEW i \in DOMAIN handlers[m],
         \/ Bridge!Receipt(m, i) \/ Bridge!Refused(m, i) \/ Bridge!PostFails(m, i)
  PROVE  WbInv'
<1>1. UNCHANGED <<bridgeAt, timers, connecting, sockets, loggedOut, delivered, job, posted, replies>>
  BY DEF Bridge!Receipt, Bridge!Refused, Bridge!PostFails, Bridge!network, Bridge!gateway
<1>2. handlers[m] \in Seq(WbStages) /\ DOMAIN handlers = Bridge!Msgs
  BY DEF WbInv, WbTypes
<1>3. handlers[m][i].attempt \in Nat
  <2>1. handlers[m][i] \in WbStages
    BY <1>2
  <2>. QED
    BY <2>1 DEF WbStages
<1>4. \E hs \in Seq(WbStages) : Len(hs) <= Len(handlers[m]) /\ handlers' = [handlers EXCEPT ![m] = hs]
  <2>1. ASSUME NEW n \in Nat, handlers' = [handlers EXCEPT ![m][i] = Bridge!At("post", n)]
        PROVE  <1>4!:
    <3>. DEFINE h == Bridge!At("post", n)
    <3>1. h \in WbStages
      BY DEF Bridge!At, WbStages
    <3>2. handlers' = [handlers EXCEPT ![m] = [handlers[m] EXCEPT ![i] = h]]
      BY <2>1
    <3>. HIDE DEF h
    <3>3. [handlers[m] EXCEPT ![i] = h] \in Seq(WbStages)
          /\ Len([handlers[m] EXCEPT ![i] = h]) = Len(handlers[m])
      BY <1>2, <3>1, WbMoved
    <3>. DEFINE hs == [handlers[m] EXCEPT ![i] = h]
    <3>4. hs \in Seq(WbStages) /\ Len(hs) <= Len(handlers[m]) /\ handlers' = [handlers EXCEPT ![m] = hs]
      <4>1. Len(handlers[m]) \in Nat
        BY <1>2
      <4>. QED
        BY <3>2, <3>3, <4>1
    <3>. HIDE DEF hs
    <3>. QED
      BY <3>4
  <2>2. ASSUME Bridge!Done(m, i)
        PROVE  <1>4!:
    <3>1. handlers' = [handlers EXCEPT ![m] = Bridge!RemoveAt(handlers[m], i)]
      BY <2>2 DEF Bridge!Done
    <3>2. /\ Bridge!RemoveAt(handlers[m], i) \in Seq(WbStages)
          /\ Len(Bridge!RemoveAt(handlers[m], i)) = Len(handlers[m]) - 1
      BY <1>2, WbRemoved
    <3>3. Len(handlers[m]) \in Nat
      BY <1>2
    <3>. DEFINE hs == Bridge!RemoveAt(handlers[m], i)
    <3>4. hs \in Seq(WbStages) /\ Len(hs) <= Len(handlers[m]) /\ handlers' = [handlers EXCEPT ![m] = hs]
      <4>. HIDE DEF hs
      <4>. QED
        BY <3>1, <3>2, <3>3 DEF hs
    <3>. HIDE DEF hs
    <3>. QED
      BY <3>4
  <2>3. \/ Bridge!Done(m, i)
        \/ handlers' = [handlers EXCEPT ![m][i] = Bridge!At("post", 1)]
        \/ handlers' = [handlers EXCEPT ![m][i] = Bridge!At("post", handlers[m][i].attempt + 1)]
    BY <1>2 DEF Bridge!Receipt, Bridge!Refused, Bridge!PostFails
  <2>. QED
    BY <1>3, <2>1, <2>2, <2>3
<1>5. PICK hs \in Seq(WbStages) :
        Len(hs) <= Len(handlers[m]) /\ handlers' = [handlers EXCEPT ![m] = hs]
  BY <1>4
<1>6. /\ posted[m] + Len(handlers[m]) <= delivered[m] /\ replies[m] + WbOwed(m) <= posted[m]
      /\ posted[m] \in Nat /\ delivered[m] \in Nat
  BY DEF WbInv, WbCount, WbTypes
<1>7. Len(hs) \in Nat /\ Len(handlers[m]) \in Nat
  BY <1>2
<1>8. posted'[m] + Len(hs) <= delivered'[m]
  BY <1>1, <1>5, <1>6, <1>7
<1>9. replies[m] + WbOwed(m)' <= posted'[m]
  BY <1>1, <1>6 DEF WbOwed
<1>10. /\ posted' \in [Bridge!Msgs -> Nat] /\ delivered' \in [Bridge!Msgs -> Nat]
       /\ job' \in [Bridge!Msgs -> WbJobs]
  BY <1>1 DEF WbInv, WbTypes
<1>. QED
  BY <1>1, <1>5, <1>8, <1>9, <1>10, WbHandled

LEMMA WbPost ==
  ASSUME WbInv, NEW m \in Bridge!Msgs, NEW i \in DOMAIN handlers[m], Bridge!Post(m, i)
  PROVE  WbInv'
<1>1. /\ handlers' = [handlers EXCEPT ![m] = Bridge!RemoveAt(handlers[m], i)]
      /\ posted' = [posted EXCEPT ![m] = @ + 1] /\ job' = [job EXCEPT ![m].queued = @ + 1]
      /\ UNCHANGED <<bridgeAt, timers, connecting, sockets, loggedOut, delivered, replies>>
  BY DEF Bridge!Post, Bridge!Done, Bridge!Accepted, Bridge!network
<1>. DEFINE hs == Bridge!RemoveAt(handlers[m], i)
<1>2. handlers[m] \in Seq(WbStages) /\ Len(handlers[m]) \in Nat
  BY DEF WbInv, WbTypes
<1>3. hs \in Seq(WbStages) /\ Len(hs) = Len(handlers[m]) - 1
  BY <1>2, WbRemoved
<1>. HIDE DEF hs
<1>4. /\ posted' \in [Bridge!Msgs -> Nat] /\ posted'[m] = posted[m] + 1
      /\ \A n \in Bridge!Msgs \ {m} : posted'[n] = posted[n]
  BY <1>1 DEF WbInv, WbTypes
<1>5. job[m] \in WbJobs /\ job'[m] = [job[m] EXCEPT !.queued = @ + 1]
  BY <1>1 DEF WbInv, WbTypes
<1>6. job'[m] \in WbJobs
  BY <1>5 DEF WbJobs
<1>7. job' \in [Bridge!Msgs -> WbJobs] /\ \A n \in Bridge!Msgs \ {m} : job'[n] = job[n]
  <2>1. job' = [job EXCEPT ![m] = job'[m]]
    BY <1>1, <1>5
  <2>. QED
    BY <1>6, <2>1 DEF WbInv, WbTypes
<1>8. WbOwed(m)' = WbOwed(m) + 1 /\ WbOwed(m) \in Nat
  BY <1>5 DEF WbOwed, WbSum, WbJobs
<1>9. /\ posted[m] + Len(handlers[m]) <= delivered[m] /\ replies[m] + WbOwed(m) <= posted[m]
      /\ posted[m] \in Nat /\ delivered[m] \in Nat /\ replies[m] \in Nat
  BY DEF WbInv, WbCount, WbTypes
<1>10. posted'[m] + Len(hs) <= delivered'[m]
  BY <1>1, <1>2, <1>3, <1>4, <1>9
<1>11. replies[m] + WbOwed(m)' <= posted'[m]
  BY <1>4, <1>8, <1>9
<1>12. delivered' \in [Bridge!Msgs -> Nat] /\ \A n \in Bridge!Msgs : delivered'[n] = delivered[n]
  BY <1>1 DEF WbInv, WbTypes
<1>13. handlers' = [handlers EXCEPT ![m] = hs]
  BY <1>1 DEF hs
<1>. QED
  BY <1>1, <1>3, <1>4, <1>7, <1>10, <1>11, <1>12, <1>13, WbHandled

LEMMA WbUpsert ==
  ASSUME WbInv, NEW m \in Bridge!Msgs, Bridge!Upsert(m)
  PROVE  WbInv'
<1>1. /\ delivered' = [delivered EXCEPT ![m] = @ + 1]
      /\ UNCHANGED <<bridgeAt, timers, connecting, sockets, loggedOut, job, posted, replies>>
  BY DEF Bridge!Upsert, Bridge!network, Bridge!gateway
<1>. DEFINE h == Bridge!At("read", 1)
            hs == Append(handlers[m], h)
<1>2. handlers[m] \in Seq(WbStages) /\ h \in WbStages
  BY DEF WbInv, WbTypes, WbStages, Bridge!At
<1>3. handlers' = [handlers EXCEPT ![m] = hs]
  BY DEF Bridge!Upsert
<1>. HIDE DEF h
<1>4. hs \in Seq(WbStages) /\ Len(hs) = Len(handlers[m]) + 1 /\ Len(handlers[m]) \in Nat
  BY <1>2
<1>. HIDE DEF hs
<1>5. /\ delivered' \in [Bridge!Msgs -> Nat] /\ delivered'[m] = delivered[m] + 1
      /\ \A n \in Bridge!Msgs \ {m} : delivered'[n] = delivered[n]
  BY <1>1 DEF WbInv, WbTypes
<1>6. /\ posted[m] + Len(handlers[m]) <= delivered[m] /\ replies[m] + WbOwed(m) <= posted[m]
      /\ posted[m] \in Nat /\ delivered[m] \in Nat
  BY DEF WbInv, WbCount, WbTypes
<1>7. posted'[m] + Len(hs) <= delivered'[m]
  BY <1>1, <1>4, <1>5, <1>6
<1>8. replies[m] + WbOwed(m)' <= posted'[m]
  BY <1>1, <1>6 DEF WbOwed
<1>9. posted' \in [Bridge!Msgs -> Nat] /\ job' \in [Bridge!Msgs -> WbJobs]
  BY <1>1 DEF WbInv, WbTypes
<1>. QED
  BY <1>1, <1>3, <1>4, <1>5, <1>7, <1>8, <1>9, WbHandled

(* The bridge and its connection. *)
LEMMA WbConnection ==
  ASSUME WbInv,
         \/ Bridge!StartBridge \/ Bridge!ApiReady \/ Bridge!Connected
         \/ Bridge!Closed \/ Bridge!TimerFires \/ Bridge!Logout
  PROVE  WbInv'
<1>1. /\ UNCHANGED <<handlers, delivered, job, posted, replies>> /\ loggedOut' \in {TRUE, loggedOut}
  BY DEF Bridge!StartBridge, Bridge!ApiReady, Bridge!Connected, Bridge!Closed,
     Bridge!TimerFires, Bridge!Logout, Bridge!inbox, Bridge!gateway
<1>2. WbNetwork'
  <2>1. CASE Bridge!StartBridge \/ Bridge!ApiReady
    BY <2>1 DEF WbInv, WbNetwork, Bridge!StartBridge, Bridge!ApiReady, Bridge!network
  <2>2. CASE Bridge!Connected \/ Bridge!Closed \/ Bridge!TimerFires
    BY <2>2 DEF WbInv, WbNetwork, Bridge!Connected, Bridge!Closed, Bridge!TimerFires
  <2>3. CASE Bridge!Logout
    BY <2>3 DEF WbInv, WbNetwork, Bridge!Logout
  <2>. QED
    BY <2>1, <2>2, <2>3
<1>3. WbTypes'
  BY <1>1 DEF WbInv, WbTypes
<1>4. \A n \in Bridge!Msgs : WbCount(n)'
  BY <1>1 DEF WbInv, WbCount, WbOwed
<1>. QED
  BY <1>2, <1>3, <1>4 DEF WbInv

LEMMA WbEnds ==
  ASSUME WbInv, Bridge!BridgeEnds
  PROVE  WbInv'
<1>1. /\ bridgeAt' = "off" /\ timers' = 0 /\ connecting' = 0 /\ sockets' = 0
      /\ handlers' = [m \in Bridge!Msgs |-> <<>>]
      /\ UNCHANGED <<loggedOut, delivered, job, posted, replies>>
  BY DEF Bridge!BridgeEnds, Bridge!gateway
<1>2. /\ DOMAIN handlers' = Bridge!Msgs /\ \A m \in Bridge!Msgs : handlers'[m] = <<>>
  BY <1>1
<1>3. \A m \in Bridge!Msgs : handlers'[m] \in Seq(WbStages) /\ Len(handlers'[m]) = 0
  <2>1. << >> \in Seq(WbStages) /\ Len(<< >>) = 0
    OBVIOUS
  <2>. QED
    BY <1>2, <2>1
<1>4. WbNetwork' /\ WbTypes'
  BY <1>1, <1>2, <1>3 DEF WbInv, WbNetwork, WbTypes
<1>5. ASSUME NEW n \in Bridge!Msgs PROVE WbCount(n)'
  <2>1. /\ WbCount(n) /\ handlers[n] \in Seq(WbStages) /\ posted[n] \in Nat /\ delivered[n] \in Nat
    BY DEF WbInv, WbTypes
  <2>2. Len(handlers[n]) \in Nat /\ Len(handlers'[n]) = 0
    BY <1>3, <2>1
  <2>3. WbOwed(n)' = WbOwed(n)
    BY <1>1 DEF WbOwed
  <2>. QED
    BY <1>1, <2>1, <2>2, <2>3 DEF WbCount
<1>. QED
  BY <1>4, <1>5 DEF WbInv

(* The gateway: what it owes an answer is paid once. *)
LEMMA WbSums == \A j \in WbJobs : WbSum(j) \in Nat
  BY DEF WbJobs, WbSum

LEMMA WbBegun ==
  ASSUME NEW j \in WbJobs, j.queued > 0
  PROVE  /\ [j EXCEPT !.queued = @ - 1, !.running = @ + 1] \in WbJobs
         /\ WbSum([j EXCEPT !.queued = @ - 1, !.running = @ + 1]) = WbSum(j)
<1>. DEFINE k == [j EXCEPT !.queued = @ - 1, !.running = @ + 1]
            i == [j EXCEPT !.queued = @ - 1]
<1>1. j.queued \in Nat /\ j.running \in Nat /\ j.reply \in Nat
  BY DEF WbJobs
<1>2. i \in WbJobs /\ i.queued = j.queued - 1 /\ i.running = j.running /\ i.reply = j.reply
  BY DEF WbJobs
<1>3. k = [i EXCEPT !.running = i.running + 1]
  BY <1>2
<1>. HIDE DEF i, k
<1>4. k \in WbJobs /\ k.queued = j.queued - 1 /\ k.running = j.running + 1 /\ k.reply = j.reply
  BY <1>1, <1>2, <1>3 DEF WbJobs
<1>5. WbSum(k) = WbSum(j)
  BY <1>1, <1>4 DEF WbSum
<1>. QED
  BY <1>4, <1>5 DEF k

LEMMA WbAnswered ==
  ASSUME NEW j \in WbJobs, j.running > 0
  PROVE  /\ [j EXCEPT !.running = @ - 1, !.reply = @ + 1] \in WbJobs
         /\ WbSum([j EXCEPT !.running = @ - 1, !.reply = @ + 1]) = WbSum(j)
         /\ [j EXCEPT !.running = @ - 1] \in WbJobs
         /\ WbSum([j EXCEPT !.running = @ - 1]) = WbSum(j) - 1
<1>. DEFINE k == [j EXCEPT !.running = @ - 1, !.reply = @ + 1]
            i == [j EXCEPT !.running = @ - 1]
<1>1. j.queued \in Nat /\ j.running \in Nat /\ j.reply \in Nat
  BY DEF WbJobs
<1>2. i \in WbJobs /\ i.queued = j.queued /\ i.running = j.running - 1 /\ i.reply = j.reply
  BY DEF WbJobs
<1>3. k = [i EXCEPT !.reply = i.reply + 1]
  BY <1>2
<1>. HIDE DEF i, k
<1>4. k \in WbJobs /\ k.queued = j.queued /\ k.running = j.running - 1 /\ k.reply = j.reply + 1
  BY <1>1, <1>2, <1>3 DEF WbJobs
<1>5. WbSum(k) = WbSum(j) /\ WbSum(i) = WbSum(j) - 1
  BY <1>1, <1>2, <1>4 DEF WbSum
<1>. QED
  BY <1>2, <1>4, <1>5 DEF i, k

LEMMA WbReplied ==
  ASSUME NEW j \in WbJobs, j.reply > 0
  PROVE  /\ [j EXCEPT !.reply = @ - 1] \in WbJobs
         /\ WbSum([j EXCEPT !.reply = @ - 1]) = WbSum(j) - 1
  BY DEF WbJobs, WbSum

LEMMA WbPaid ==
  ASSUME WbInv, NEW m \in Bridge!Msgs, NEW j \in WbJobs, job' = [job EXCEPT ![m] = j],
         replies' \in [Bridge!Msgs -> Nat],
         \A n \in Bridge!Msgs \ {m} : replies'[n] = replies[n],
         replies'[m] + WbSum(j) <= replies[m] + WbOwed(m),
         UNCHANGED <<bridgeAt, timers, connecting, sockets, loggedOut, delivered, handlers, posted>>
  PROVE  WbInv'
<1>1. /\ job' \in [Bridge!Msgs -> WbJobs] /\ job'[m] = j
      /\ \A n \in Bridge!Msgs \ {m} : job'[n] = job[n]
  BY DEF WbInv, WbTypes
<1>2. WbNetwork' /\ WbTypes'
  BY <1>1 DEF WbInv, WbNetwork, WbTypes
<1>3. ASSUME NEW n \in Bridge!Msgs PROVE WbCount(n)'
  <2>1. WbCount(n)
    BY DEF WbInv
  <2>2. CASE n = m
    <3>1. replies[m] \in Nat /\ replies'[m] \in Nat /\ job[m] \in WbJobs /\ posted[m] \in Nat
      BY DEF WbInv, WbTypes
    <3>2. WbOwed(m) \in Nat /\ WbOwed(m)' = WbSum(j) /\ WbOwed(m)' \in Nat
      BY <1>1, <3>1, WbSums DEF WbOwed
    <3>3. replies'[m] + WbOwed(m)' <= posted'[m]
      BY <2>1, <2>2, <3>1, <3>2 DEF WbCount
    <3>. QED
      BY <2>1, <2>2, <3>3 DEF WbCount
  <2>3. CASE n # m
    BY <1>1, <2>1, <2>3 DEF WbCount, WbOwed
  <2>. QED
    BY <2>2, <2>3
<1>. QED
  BY <1>2, <1>3 DEF WbInv

LEMMA WbJob ==
  ASSUME WbInv, NEW m \in Bridge!Msgs,
         Bridge!Begin(m) \/ Bridge!Answered(m) \/ Bridge!Reply(m)
  PROVE  WbInv'
<1>. DEFINE j == job[m]
<1>1. /\ j \in WbJobs /\ replies \in [Bridge!Msgs -> Nat] /\ DOMAIN job = Bridge!Msgs
      /\ WbOwed(m) = WbSum(j) /\ WbSum(j) \in Nat
  BY WbSums DEF WbInv, WbTypes, WbOwed
<1>2. UNCHANGED <<bridgeAt, timers, connecting, sockets, loggedOut, delivered, handlers, posted>>
  BY DEF Bridge!Begin, Bridge!Answered, Bridge!Reply, Bridge!network, Bridge!inbox
<1>3. CASE Bridge!Begin(m)
  <2>. DEFINE k == [j EXCEPT !.queued = @ - 1, !.running = @ + 1]
  <2>1. j.queued > 0 /\ job' = [job EXCEPT ![m] = k] /\ replies' = replies
    BY <1>1, <1>3 DEF Bridge!Begin
  <2>2. k \in WbJobs /\ WbSum(k) = WbSum(j)
    BY <1>1, <2>1, WbBegun
  <2>. HIDE DEF k, j
  <2>3. replies'[m] + WbSum(k) <= replies[m] + WbOwed(m)
    BY <1>1, <2>1, <2>2
  <2>. QED
    BY <1>1, <1>2, <2>1, <2>2, <2>3, WbPaid
<1>4. CASE Bridge!Answered(m)
  <2>. DEFINE k == [j EXCEPT !.running = @ - 1, !.reply = @ + 1]
              l == [j EXCEPT !.running = @ - 1]
  <2>1. j.running > 0 /\ replies' = replies
        /\ (job' = [job EXCEPT ![m] = k] \/ job' = [job EXCEPT ![m] = l])
    BY <1>1, <1>4 DEF Bridge!Answered
  <2>2. k \in WbJobs /\ WbSum(k) = WbSum(j) /\ l \in WbJobs /\ WbSum(l) = WbSum(j) - 1
    BY <1>1, <2>1, WbAnswered
  <2>. HIDE DEF k, l, j
  <2>3. CASE job' = [job EXCEPT ![m] = k]
    <3>1. replies'[m] + WbSum(k) <= replies[m] + WbOwed(m)
      BY <1>1, <2>1, <2>2
    <3>. QED
      BY <1>1, <1>2, <2>1, <2>2, <2>3, <3>1, WbPaid
  <2>4. CASE job' = [job EXCEPT ![m] = l]
    <3>1. replies[m] \in Nat
      BY <1>1
    <3>2. replies'[m] + WbSum(l) <= replies[m] + WbOwed(m)
      BY <1>1, <2>1, <2>2, <3>1
    <3>. QED
      BY <1>1, <1>2, <2>1, <2>2, <2>4, <3>2, WbPaid
  <2>. QED
    BY <2>1, <2>3, <2>4
<1>5. CASE Bridge!Reply(m)
  <2>. DEFINE k == [j EXCEPT !.reply = @ - 1]
  <2>1. /\ j.reply > 0 /\ job' = [job EXCEPT ![m] = k]
        /\ (replies' = replies \/ replies' = [replies EXCEPT ![m] = @ + 1])
    BY <1>1, <1>5 DEF Bridge!Reply
  <2>2. k \in WbJobs /\ WbSum(k) = WbSum(j) - 1
    BY <1>1, <2>1, WbReplied
  <2>3. /\ replies' \in [Bridge!Msgs -> Nat] /\ replies'[m] <= replies[m] + 1
        /\ replies[m] \in Nat /\ replies'[m] \in Nat
        /\ \A n \in Bridge!Msgs \ {m} : replies'[n] = replies[n]
    BY <1>1, <2>1
  <2>. HIDE DEF k, j
  <2>4. replies'[m] + WbSum(k) <= replies[m] + WbOwed(m)
    BY <1>1, <2>2, <2>3
  <2>. QED
    BY <1>2, <2>1, <2>2, <2>3, <2>4, WbPaid
<1>. QED
  BY <1>3, <1>4, <1>5

LEMMA WbGateway ==
  ASSUME WbInv, Bridge!GatewayStarts \/ Bridge!GatewayEnds
  PROVE  WbInv'
<1>1. UNCHANGED <<bridgeAt, timers, connecting, sockets, loggedOut, delivered, handlers, posted,
                  replies>>
  BY DEF Bridge!GatewayStarts, Bridge!GatewayEnds, Bridge!network, Bridge!inbox, Bridge!gateway
<1>2. job' = job \/ job' = [m \in Bridge!Msgs |-> Bridge!Idle]
  BY DEF Bridge!GatewayStarts, Bridge!GatewayEnds, Bridge!gateway
<1>3. Bridge!Idle \in WbJobs
  BY DEF Bridge!Idle, WbJobs
<1>4. WbNetwork' /\ WbTypes'
  BY <1>1, <1>2, <1>3 DEF WbInv, WbNetwork, WbTypes
<1>5. ASSUME NEW n \in Bridge!Msgs PROVE WbCount(n)'
  <2>1. WbCount(n) /\ replies[n] \in Nat /\ posted[n] \in Nat /\ job[n] \in WbJobs
    BY DEF WbInv, WbTypes
  <2>2. WbOwed(n) \in Nat
    BY <2>1, WbSums DEF WbOwed
  <2>3. WbOwed(n)' = WbOwed(n) \/ WbOwed(n)' = 0
    <3>1. job'[n] = job[n] \/ job'[n] = Bridge!Idle
      BY <1>2
    <3>. QED
      BY <3>1 DEF WbOwed, WbSum, Bridge!Idle
  <2>. QED
    BY <1>1, <2>1, <2>2, <2>3 DEF WbCount
<1>. QED
  BY <1>4, <1>5 DEF WbInv

LEMMA WbStep ==
  ASSUME WbInv, Bridge!Next
  PROVE  WbInv'
<1>1. ASSUME NEW m \in Bridge!Msgs, NEW i \in DOMAIN handlers[m],
             \/ Bridge!Receipt(m, i) \/ Bridge!Refused(m, i)
             \/ Bridge!Post(m, i) \/ Bridge!PostFails(m, i)
      PROVE  WbInv'
  BY <1>1, WbHandlers, WbPost
<1>. QED
  BY <1>1, WbUpsert, WbJob, WbConnection, WbEnds, WbGateway, Zenon DEF Bridge!Next

LEMMA WbRests == WbInv /\ UNCHANGED whatsapp => WbInv'
<1>. SUFFICES ASSUME WbInv, UNCHANGED whatsapp PROVE WbInv'
  OBVIOUS
<1>1. UNCHANGED <<bridgeAt, timers, connecting, sockets, loggedOut, delivered, handlers, job, posted,
                  replies>>
  BY DEF whatsapp
<1>2. WbNetwork' /\ WbTypes'
  BY <1>1 DEF WbInv, WbNetwork, WbTypes
<1>3. \A n \in Bridge!Msgs : WbCount(n)'
  BY <1>1 DEF WbInv, WbCount, WbOwed
<1>. QED
  BY <1>2, <1>3 DEF WbInv

(* Unless the phone was disconnected, there is one connection at most; and *)
(* each delivery of a message is processed, and answered, at most once,    *)
(* for any messages, attempts, deliveries and restarts of bridge and       *)
(* gateway (whatsapp-bridge.js, whatsapp.py).                              *)
THEOREM AnsweredOncePerDelivery == HouseholdSpec => []OncePerDelivery
<1>1. HouseholdInit => WbInv
  BY WbInit DEF HouseholdInit
<1>2. WbInv /\ [HouseholdNext]_household => WbInv'
  BY RoomSteps, WbStep, WbRests
<1>3. WbInv => OncePerDelivery
  <2>. SUFFICES ASSUME WbInv, NEW m \in Bridge!Msgs
                PROVE  /\ loggedOut \/ timers + connecting + sockets <= 1
                       /\ replies[m] <= posted[m] /\ posted[m] <= delivered[m]
    BY DEF OncePerDelivery, Bridge!OncePerDelivery, WbInv, WbNetwork
  <2>1. /\ WbCount(m) /\ replies[m] \in Nat /\ posted[m] \in Nat /\ delivered[m] \in Nat
        /\ handlers[m] \in Seq(WbStages) /\ job[m] \in WbJobs
    BY DEF WbInv, WbTypes
  <2>2. Len(handlers[m]) \in Nat /\ WbOwed(m) \in Nat
    BY <2>1, WbSums DEF WbOwed
  <2>. QED
    BY <2>1, <2>2 DEF WbInv, WbNetwork, WbCount
<1>. QED
  BY <1>1, <1>2, <1>3, PTL DEF HouseholdSpec

-----------------------------------------------------------------------------
(* Episodes: the table holds records that were written, and one that it    *)
(* lost was deleted by a user or had passed the age of its kind.           *)
EpLost(e) ==
  \/ e \in rows
  \/ e.id \in erased
  \/ e.type # "daily_summary"
     /\ daytime.day - e.day > IF e.type = "monitor_event" THEN MonitorAge ELSE MaxAge

EpInv ==
  /\ daytime.day \in Nat
  /\ daytime = [day |-> daytime.day, late |-> daytime.late]
  /\ \A e \in ever : e.day \in Nat
  /\ \A e \in ever : EpLost(e)

LEMMA EpStep == ASSUME EpInv, Memory!Next PROVE EpInv'
<1>. USE HouseholdAssumption DEF HouseholdAssumption
<1>1. ASSUME NEW type, Memory!Insert(type), UNCHANGED <<erased, daytime>> PROVE EpInv'
  <2>. DEFINE r == [id |-> Memory!Cardinality(ever) + 1, type |-> type, day |-> daytime.day]
  <2>1. rows' = rows \cup {r} /\ ever' = ever \cup {r}
    BY <1>1 DEF Memory!Insert
  <2>2. r.day = daytime.day
    OBVIOUS
  <2>. HIDE DEF r
  <2>3. \A e \in ever' : e.day \in Nat
    BY <2>1, <2>2 DEF EpInv
  <2>4. \A e \in ever' : EpLost(e)'
    BY <1>1, <2>1 DEF EpInv, EpLost
  <2>. QED
    BY <1>1, <2>3, <2>4 DEF EpInv
<1>2. ASSUME NEW some, Memory!Forget(some) PROVE EpInv'
  BY <1>2 DEF EpInv, EpLost, Memory!Forget
<1>3. CASE Memory!Midnight
  <2>1. /\ daytime' = [day |-> daytime.day + 1, late |-> FALSE]
        /\ UNCHANGED <<rows, ever, erased>>
    BY <1>3 DEF Memory!Midnight
  <2>2. /\ daytime'.day = daytime.day + 1 /\ daytime'.day \in Nat
        /\ daytime' = [day |-> daytime'.day, late |-> daytime'.late]
    BY <2>1 DEF EpInv
  <2>3. ASSUME NEW e \in ever PROVE EpLost(e)'
    BY <2>1, <2>2 DEF EpInv, EpLost
  <2>. QED
    BY <2>1, <2>2, <2>3 DEF EpInv
<1>4. CASE Memory!Missed \/ Memory!Consolidate \/ Memory!NoSummary
  <2>1. daytime' = [daytime EXCEPT !.late = TRUE] \/ daytime' = daytime
    BY <1>4 DEF Memory!Missed, Memory!Consolidate, Memory!NoSummary
  <2>2. daytime'.day = daytime.day /\ daytime' = [day |-> daytime'.day, late |-> daytime'.late]
    BY <2>1 DEF EpInv
  <2>3. UNCHANGED <<rows, ever, erased>>
    BY <1>4 DEF Memory!Missed, Memory!Consolidate, Memory!NoSummary
  <2>. QED
    BY <2>2, <2>3 DEF EpInv, EpLost
<1>5. CASE Memory!PruneOld
  <2>1. /\ UNCHANGED <<ever, erased, daytime>>
        /\ \A e \in rows : e \in rows' \/ Memory!Old(e)
    BY <1>5 DEF Memory!PruneOld
  <2>2. ASSUME NEW e \in ever PROVE EpLost(e)'
    BY <2>1 DEF EpInv, EpLost, Memory!Old
  <2>. QED
    BY <2>1, <2>2 DEF EpInv
<1>. QED
  BY <1>1, <1>2, <1>3, <1>4, <1>5 DEF Memory!Next, Memory!Record, Memory!Summarise

(* Only age and the user make the store of episodes forget: a record that  *)
(* was written is in the table, unless a user deleted it or it is older    *)
(* than its kind is kept; a daily summary stays (episodes.py,              *)
(* memory_agent.py).                                                       *)
THEOREM EpisodesRemembered == HouseholdSpec => []Remembered
<1>1. HouseholdInit => EpInv
  <2>. SUFFICES ASSUME Memory!Init PROVE EpInv
    BY DEF HouseholdInit
  <2>1. daytime = [day |-> 1, late |-> TRUE] /\ ever = {}
    BY DEF Memory!Init
  <2>. QED
    BY <2>1 DEF EpInv
<1>2. EpInv /\ [HouseholdNext]_household => EpInv'
  <2>. SUFFICES ASSUME EpInv, [HouseholdNext]_household PROVE EpInv'
    OBVIOUS
  <2>1. CASE Memory!Next
    BY <2>1, EpStep
  <2>2. CASE UNCHANGED episodes
    BY <2>2 DEF EpInv, EpLost, episodes
  <2>. QED
    BY <2>1, <2>2, RoomSteps
<1>3. EpInv => Remembered
  BY DEF EpInv, EpLost, Remembered, Memory!Remembered
<1>. QED
  BY <1>1, <1>2, <1>3, PTL DEF HouseholdSpec

-----------------------------------------------------------------------------
(* Spotify: unless something overlapped, what is stored is what Spotify    *)
(* accepts, and a tool is at work only while Spotify is connected.         *)
SpTokens == [access : Nat, refresh : Nat]

SpActors == Flows \cup Music!Tools

SpTypes ==
  /\ issued \in Nat /\ accepted \in Nat
  /\ saved \in SpTokens
  /\ copy \in [Music!Processes -> SpTokens]
  /\ held \in [SpActors -> SpTokens]
  /\ DOMAIN spotifyAt = SpActors

SpWorking == \A t \in Music!Tools : spotifyAt[t] # "idle" => connected

SpInv ==
  /\ SpTypes
  /\ ~tokensMuddled => TokensKept /\ SpWorking

LEMMA SpInit == Music!Init => SpInv
<1>. SUFFICES ASSUME Music!Init PROVE SpInv
  OBVIOUS
<1>. USE HouseholdAssumption DEF HouseholdAssumption
<1>1. Music!NoTokens \in SpTokens /\ Music!Unread \in SpTokens
  BY DEF Music!NoTokens, Music!Unread, SpTokens
<1>2. copy = [p \in Music!Processes |-> Music!Unread] /\ held = [a \in SpActors |-> Music!NoTokens]
  BY DEF Music!Init, SpActors
<1>3. spotifyAt = [a \in SpActors |-> "idle"]
  BY DEF Music!Init, SpActors
<1>4. issued \in Nat /\ accepted \in Nat /\ saved = Music!NoTokens
  BY DEF Music!Init
<1>5. SpTypes
  BY <1>1, <1>2, <1>3, <1>4 DEF SpTypes
<1>6. SpWorking
  BY <1>3 DEF SpWorking, SpActors
<1>7. TokensKept
  BY <1>4 DEF TokensKept, Music!TokensKept, Music!Init
<1>. QED
  BY <1>5, <1>6, <1>7 DEF SpInv

LEMMA SpTools ==
  /\ "gateway" \in Music!Processes /\ Music!Tools \subseteq Music!Processes
  /\ Music!Tools \subseteq SpActors /\ Flows \subseteq SpActors
  /\ Flows \cap Music!Tools = {}
BY HouseholdAssumption DEF HouseholdAssumption, Music!Processes, Music!Tools, SpActors

(* Reading and saving keep the types. *)
LEMMA SpCached ==
  ASSUME SpTypes, NEW p \in Music!Processes
  PROVE  /\ Music!Cached(p) \in SpTokens
         /\ Music!Reads(p) => copy' \in [Music!Processes -> SpTokens]
<1>1. Music!Cached(p) \in SpTokens
  BY DEF SpTypes, Music!Cached
<1>. QED
  BY <1>1 DEF SpTypes, Music!Reads

LEMMA SpSaves ==
  ASSUME SpTypes, NEW p \in Music!Processes, NEW x \in SpTokens, Music!Saves(p, x)
  PROVE  /\ saved' = x /\ saved' \in SpTokens
         /\ copy' \in [Music!Processes -> SpTokens]
BY DEF SpTypes, Music!Saves

LEMMA SpMoves ==
  ASSUME SpTypes, NEW a \in SpActors, NEW to, Music!Moves(a, to)
  PROVE  /\ DOMAIN spotifyAt' = SpActors
         /\ spotifyAt'[a] = to
         /\ \A b \in SpActors \ {a} : spotifyAt'[b] = spotifyAt[b]
BY DEF SpTypes, Music!Moves

LEMMA SpHolds ==
  ASSUME SpTypes, NEW a \in SpActors, NEW x \in SpTokens, Music!Holds(a, x)
  PROVE  held' \in [SpActors -> SpTokens]
BY DEF SpTypes, Music!Holds

LEMMA SpEnds ==
  ASSUME SpTypes, NEW a \in SpActors, Music!Ends(a)
  PROVE  /\ held' \in [SpActors -> SpTokens]
         /\ DOMAIN spotifyAt' = SpActors
         /\ spotifyAt'[a] = "idle"
         /\ \A b \in SpActors \ {a} : spotifyAt'[b] = spotifyAt[b]
<1>1. Music!NoTokens \in SpTokens
  BY DEF Music!NoTokens, SpTokens
<1>. QED
  BY <1>1, SpHolds, SpMoves DEF Music!Ends

(* The steps of a flow. *)
LEMMA SpFlow ==
  ASSUME SpInv, NEW f \in Flows,
         \/ Music!Auth(f) \/ Music!TimeOut(f) \/ Music!Callback(f)
         \/ Music!Exchanged(f) \/ Music!ExchangeFails(f)
  PROVE  SpInv'
<1>. USE SpTools
<1>1. CASE Music!Auth(f) \/ Music!TimeOut(f)
  <2>1. UNCHANGED <<saved, copy, accepted, issued, spotifyAt, held, connected, tokensMuddled>>
    BY <1>1 DEF Music!Auth, Music!TimeOut
  <2>. QED
    BY <2>1 DEF SpInv, SpTypes, SpWorking, TokensKept, Music!TokensKept
<1>2. CASE Music!Callback(f)
  <2>1. UNCHANGED <<saved, accepted, issued, connected>> /\ (tokensMuddled => tokensMuddled')
    BY <1>2 DEF Music!Callback
  <2>2. SpTypes' /\ \A t \in Music!Tools : spotifyAt'[t] = spotifyAt[t]
    <3>1. CASE UNCHANGED <<copy, spotifyAt, held>>
      BY <2>1, <3>1 DEF SpInv, SpTypes
    <3>2. CASE /\ Music!Reads("gateway") /\ Music!Holds(f, Music!Cached("gateway"))
               /\ Music!Moves(f, "exchanging")
      <4>1. copy' \in [Music!Processes -> SpTokens] /\ Music!Cached("gateway") \in SpTokens
        BY <3>2, SpCached DEF SpInv
      <4>2. held' \in [SpActors -> SpTokens]
        BY <3>2, <4>1, SpHolds DEF SpInv
      <4>3. DOMAIN spotifyAt' = SpActors /\ \A b \in SpActors \ {f} : spotifyAt'[b] = spotifyAt[b]
        BY <3>2, SpMoves DEF SpInv
      <4>. QED
        BY <2>1, <4>1, <4>2, <4>3 DEF SpInv, SpTypes
    <3>. QED
      BY <1>2, <3>1, <3>2 DEF Music!Callback
  <2>. QED
    BY <2>1, <2>2 DEF SpInv, SpWorking, TokensKept, Music!TokensKept
<1>3. CASE Music!Exchanged(f)
  <2>. DEFINE x == [held[f] EXCEPT !.access = issued', !.refresh = issued']
  <2>1. /\ issued' = issued + 1 /\ accepted' = issued' /\ connected' = TRUE
        /\ Music!Saves("gateway", x) /\ Music!Ends(f) /\ tokensMuddled' = tokensMuddled
    BY <1>3 DEF Music!Exchanged
  <2>2. issued' \in Nat /\ held[f] \in SpTokens
    BY <2>1 DEF SpInv, SpTypes
  <2>3. x \in SpTokens /\ x.refresh = issued'
    BY <2>2 DEF SpTokens
  <2>. HIDE DEF x
  <2>4. saved' = x /\ saved' \in SpTokens /\ copy' \in [Music!Processes -> SpTokens]
    BY <2>1, <2>3, SpSaves DEF SpInv
  <2>5. SpTypes'
    BY <2>1, <2>2, <2>4, SpEnds DEF SpInv, SpTypes
  <2>6. SpWorking' /\ TokensKept'
    BY <2>1, <2>3, <2>4 DEF SpWorking, TokensKept, Music!TokensKept
  <2>. QED
    BY <2>5, <2>6 DEF SpInv
<1>4. CASE Music!ExchangeFails(f)
  <2>1. Music!Ends(f) /\ UNCHANGED <<saved, copy, accepted, issued, connected, tokensMuddled>>
    BY <1>4 DEF Music!ExchangeFails
  <2>2. SpTypes' /\ \A t \in Music!Tools : spotifyAt'[t] = spotifyAt[t]
    BY <2>1, SpEnds DEF SpInv, SpTypes
  <2>. QED
    BY <2>1, <2>2 DEF SpInv, SpWorking, TokensKept, Music!TokensKept
<1>. QED
  BY <1>1, <1>2, <1>3, <1>4

(* The other steps of the gateway. *)
LEMMA SpGateway ==
  ASSUME SpInv, Music!Disconnect \/ Music!OtherService \/ Music!GatewayRestarts \/ Music!Expires
  PROVE  SpInv'
<1>. USE SpTools
<1>1. CASE Music!Disconnect
  <2>1. Music!NoTokens \in SpTokens
    BY DEF Music!NoTokens, SpTokens
  <2>2. /\ Music!Saves("gateway", Music!NoTokens) /\ connected' = FALSE
        /\ UNCHANGED <<accepted, issued, spotifyAt, held>>
        /\ ~tokensMuddled' => \A a \in SpActors : spotifyAt[a] = "idle"
    BY <1>1 DEF Music!Disconnect, SpActors
  <2>3. SpTypes' /\ saved' = Music!NoTokens
    BY <2>1, <2>2, SpSaves DEF SpInv, SpTypes
  <2>. QED
    BY <2>2, <2>3 DEF SpInv, SpWorking, TokensKept, Music!TokensKept, Music!NoTokens
<1>2. CASE Music!OtherService
  <2>1. /\ Music!Saves("gateway", Music!Cached("gateway"))
        /\ UNCHANGED <<accepted, issued, spotifyAt, held, connected>>
        /\ ~tokensMuddled' => ~tokensMuddled /\ Music!Cached("gateway") = saved
    BY <1>2 DEF Music!OtherService
  <2>2. SpTypes' /\ saved' = Music!Cached("gateway")
    BY <2>1, SpCached, SpSaves DEF SpInv, SpTypes
  <2>. QED
    BY <2>1, <2>2 DEF SpInv, SpWorking, TokensKept, Music!TokensKept, Music!NoTokens
<1>3. CASE Music!GatewayRestarts
  <2>. USE HouseholdAssumption DEF HouseholdAssumption
  <2>1. /\ copy' = [copy EXCEPT !["gateway"] = Music!Unread]
        /\ UNCHANGED <<saved, accepted, issued, connected, tokensMuddled>>
        /\ spotifyAt' = [a \in SpActors |-> IF a \in Flows THEN "idle" ELSE spotifyAt[a]]
        /\ held' = [a \in SpActors |-> IF a \in Flows THEN Music!NoTokens ELSE held[a]]
    BY <1>3 DEF Music!GatewayRestarts, SpActors
  <2>2. Music!NoTokens \in SpTokens /\ Music!Unread \in SpTokens
    BY DEF Music!NoTokens, Music!Unread, SpTokens
  <2>3. copy' \in [Music!Processes -> SpTokens]
    BY <2>1, <2>2 DEF SpInv, SpTypes
  <2>4. held' \in [SpActors -> SpTokens]
    BY <2>1, <2>2 DEF SpInv, SpTypes
  <2>5. DOMAIN spotifyAt' = SpActors /\ \A t \in Music!Tools : spotifyAt'[t] = spotifyAt[t]
    BY <2>1
  <2>6. SpTypes'
    BY <2>1, <2>3, <2>4, <2>5 DEF SpInv, SpTypes
  <2>. QED
    BY <2>1, <2>5, <2>6 DEF SpInv, SpWorking, TokensKept, Music!TokensKept, Music!NoTokens
<1>4. CASE Music!Expires
  BY <1>4 DEF Music!Expires, SpInv, SpTypes, SpWorking, TokensKept, Music!TokensKept
<1>. QED
  BY <1>1, <1>2, <1>3, <1>4

(* A tool reads the tokens. *)
LEMMA SpGets ==
  ASSUME SpInv, NEW t \in Music!Tools, Music!GetValidToken(t) \/ Music!Unauthorized(t)
  PROVE  SpInv'
<1>. USE SpTools
<1>1. /\ Music!Reads(t)
      /\ UNCHANGED <<saved, accepted, issued, connected>>
      /\ ~tokensMuddled' => ~tokensMuddled /\ Music!Cached(t) = saved
  BY DEF Music!GetValidToken, Music!Unauthorized
<1>2. copy' \in [Music!Processes -> SpTokens] /\ Music!Cached(t) \in SpTokens
  BY <1>1, SpCached DEF SpInv
<1>3. held' \in [SpActors -> SpTokens]
  <2>1. UNCHANGED held \/ Music!Holds(t, Music!Cached(t))
    BY DEF Music!GetValidToken, Music!Unauthorized
  <2>. QED
    BY <1>2, <2>1, SpHolds DEF SpInv, SpTypes
<1>4. /\ DOMAIN spotifyAt' = SpActors
      /\ \A b \in Music!Tools \ {t} : spotifyAt'[b] = spotifyAt[b]
  <2>1. PICK to : Music!Moves(t, to)
    BY DEF Music!GetValidToken, Music!Unauthorized
  <2>. QED
    BY <2>1, SpMoves DEF SpInv
<1>5. SpTypes'
  BY <1>1, <1>2, <1>3, <1>4 DEF SpInv, SpTypes
<1>6. ASSUME ~tokensMuddled' PROVE TokensKept' /\ SpWorking'
  <2>1. ~tokensMuddled /\ TokensKept /\ SpWorking
    BY <1>1, <1>6 DEF SpInv
  <2>2. connected
    <3>1. CASE Music!GetValidToken(t)
      <4>1. saved.refresh # 0
        BY <1>1, <1>6, <3>1 DEF Music!GetValidToken
      <4>. QED
        BY <2>1, <4>1 DEF TokensKept, Music!TokensKept, Music!NoTokens
    <3>2. CASE Music!Unauthorized(t)
      BY <2>1, <3>2 DEF SpWorking, Music!Unauthorized
    <3>. QED
      BY <3>1, <3>2
  <2>. QED
    BY <1>1, <2>1, <2>2 DEF SpWorking, TokensKept, Music!TokensKept
<1>. QED
  BY <1>5, <1>6 DEF SpInv

(* Spotify refreshes the tokens of a tool. *)
LEMMA SpRefreshed ==
  ASSUME SpInv, NEW t \in Music!Tools, Music!Refreshed(t)
  PROVE  SpInv'
<1>. USE SpTools
<1>. DEFINE x == [access |-> issued', refresh |-> accepted']
<1>1. /\ spotifyAt[t] # "idle" /\ issued' = issued + 1 /\ accepted' \in {accepted, issued'}
      /\ Music!Kept(t, x) /\ connected' = connected
  BY DEF Music!Refreshed, Music!Refreshing
<1>2. ~tokensMuddled' => ~tokensMuddled /\ (t \in Containers => accepted' = accepted)
  BY DEF Music!Refreshed
<1>3. issued' \in Nat /\ accepted' \in Nat
  BY <1>1 DEF SpInv, SpTypes
<1>4. x \in SpTokens /\ x.refresh = accepted'
  BY <1>3 DEF SpTokens
<1>. HIDE DEF x
<1>5. Music!NoTokens \in SpTokens
  BY DEF Music!NoTokens, SpTokens
<1>6. CASE t \in Containers
  <2>1. Music!Ends(t) /\ UNCHANGED <<saved, copy>>
    BY <1>1, <1>6 DEF Music!Kept
  <2>2. /\ SpTypes' /\ spotifyAt'[t] = "idle"
        /\ \A b \in Music!Tools \ {t} : spotifyAt'[b] = spotifyAt[b]
    BY <1>3, <2>1, SpEnds DEF SpInv, SpTypes
  <2>. QED
    BY <1>1, <1>2, <1>6, <2>1, <2>2 DEF SpInv, SpWorking, TokensKept, Music!TokensKept
<1>7. CASE t \notin Containers
  <2>1. PICK to : Music!Saves(t, x) /\ Music!Holds(t, Music!NoTokens) /\ Music!Moves(t, to)
    BY <1>1, <1>7 DEF Music!Kept
  <2>2. saved' = x /\ saved' \in SpTokens /\ copy' \in [Music!Processes -> SpTokens]
    BY <1>4, <2>1, SpSaves DEF SpInv
  <2>3. held' \in [SpActors -> SpTokens]
    BY <1>5, <2>1, SpHolds DEF SpInv
  <2>4. /\ DOMAIN spotifyAt' = SpActors
        /\ \A b \in Music!Tools \ {t} : spotifyAt'[b] = spotifyAt[b]
    BY <2>1, SpMoves DEF SpInv
  <2>5. SpTypes'
    BY <1>3, <2>2, <2>3, <2>4 DEF SpTypes
  <2>6. ASSUME ~tokensMuddled' PROVE TokensKept' /\ SpWorking'
    <3>1. connected' /\ SpWorking
      BY <1>1, <1>2, <2>6 DEF SpInv, SpWorking
    <3>. QED
      BY <1>4, <2>2, <2>4, <3>1 DEF SpWorking, TokensKept, Music!TokensKept
  <2>. QED
    BY <2>5, <2>6 DEF SpInv
<1>. QED
  BY <1>6, <1>7

(* The other steps of a tool. *)
LEMMA SpTool ==
  ASSUME SpInv, NEW t \in Music!Tools,
         \/ Music!RefreshFails(t) \/ Music!RateLimited(t) \/ Music!Answered(t)
         \/ Music!WorkerEnds(t)
  PROVE  SpInv'
<1>. USE SpTools
<1>1. CASE Music!RefreshFails(t)
  <2>1. /\ Music!Ends(t) /\ UNCHANGED <<saved, copy, connected>>
        /\ issued' \in {issued, issued + 1} /\ accepted' \in {accepted, issued + 1}
        /\ ~tokensMuddled' => ~tokensMuddled /\ UNCHANGED accepted
    BY <1>1 DEF Music!RefreshFails
  <2>2. issued' \in Nat /\ accepted' \in Nat
    BY <2>1 DEF SpInv, SpTypes
  <2>3. /\ SpTypes' /\ spotifyAt'[t] = "idle"
        /\ \A b \in Music!Tools \ {t} : spotifyAt'[b] = spotifyAt[b]
    BY <2>1, <2>2, SpEnds DEF SpInv, SpTypes
  <2>. QED
    BY <2>1, <2>3 DEF SpInv, SpWorking, TokensKept, Music!TokensKept
<1>2. CASE Music!RateLimited(t)
  <2>1. /\ spotifyAt[t] # "idle" /\ Music!Moves(t, "asking later")
        /\ UNCHANGED <<saved, copy, accepted, issued, held, connected, tokensMuddled>>
    BY <1>2 DEF Music!RateLimited
  <2>2. SpTypes' /\ \A b \in Music!Tools \ {t} : spotifyAt'[b] = spotifyAt[b]
    BY <2>1, SpMoves DEF SpInv, SpTypes
  <2>. QED
    BY <2>1, <2>2 DEF SpInv, SpWorking, TokensKept, Music!TokensKept
<1>3. CASE Music!Answered(t)
  <2>1. Music!Ends(t) /\ UNCHANGED <<saved, copy, accepted, issued, connected, tokensMuddled>>
    BY <1>3 DEF Music!Answered
  <2>2. /\ SpTypes' /\ spotifyAt'[t] = "idle"
        /\ \A b \in Music!Tools \ {t} : spotifyAt'[b] = spotifyAt[b]
    BY <2>1, SpEnds DEF SpInv, SpTypes
  <2>. QED
    BY <2>1, <2>2 DEF SpInv, SpWorking, TokensKept, Music!TokensKept
<1>4. CASE Music!WorkerEnds(t)
  <2>. USE HouseholdAssumption DEF HouseholdAssumption
  <2>1. Music!Unread \in SpTokens
    BY DEF Music!Unread, SpTokens
  <2>2. /\ copy' = [copy EXCEPT ![t] = Music!Unread]
        /\ UNCHANGED <<saved, accepted, issued, spotifyAt, held, connected, tokensMuddled>>
    BY <1>4 DEF Music!WorkerEnds
  <2>3. SpTypes'
    BY <2>1, <2>2 DEF SpInv, SpTypes
  <2>. QED
    BY <2>2, <2>3 DEF SpInv, SpWorking, TokensKept, Music!TokensKept
<1>. QED
  BY <1>1, <1>2, <1>3, <1>4

(* While connected the stored refresh token is the one Spotify accepts,    *)
(* and after a disconnection none is stored, for any flows, workers and    *)
(* containers, as long as nothing of them overlaps and no copy older than  *)
(* the file is used (spotify_auth.py, spotify.py, credentials.py).         *)
THEOREM StoredTokensAccepted == HouseholdSpec => []TokensKept
<1>1. HouseholdInit => SpInv
  BY SpInit DEF HouseholdInit
<1>2. SpInv /\ [HouseholdNext]_household => SpInv'
  <2>. SUFFICES ASSUME SpInv, [HouseholdNext]_household PROVE SpInv'
    OBVIOUS
  <2>1. CASE Music!Next
    BY <2>1, SpFlow, SpGateway, SpGets, SpRefreshed, SpTool DEF Music!Next
  <2>2. CASE UNCHANGED spotify
    BY <2>2 DEF spotify, SpInv, SpTypes, SpWorking, TokensKept, Music!TokensKept
  <2>. QED
    BY <2>1, <2>2, RoomSteps
<1>3. SpInv => TokensKept
  BY DEF SpInv, TokensKept, Music!TokensKept
<1>. QED
  BY <1>1, <1>2, <1>3, PTL DEF HouseholdSpec

-----------------------------------------------------------------------------
(* The indexer: unless a commit was cut off or failed, an entry of the     *)
(* collection is in table chunks or on its way; and while every change     *)
(* waits for the one before, one thread at most is at work.                *)
IxThreads == Index!Threads

IxShape ==
  /\ source.sig \in Nat /\ source.sig >= 1 /\ (~source.there => source.text = {})
  /\ DOMAIN phase = IxThreads /\ DOMAIN stat = IxThreads /\ DOMAIN seenChunks = IxThreads
  /\ DOMAIN batch = IxThreads /\ DOMAIN purge = IxThreads /\ DOMAIN erase = IxThreads
  /\ phase[Boot] = "off" => \A t \in IxThreads : phase[t] = "off"
  /\ phase[Boot] # "off" => \A t \in IxThreads : phase[t] # "off"
  /\ \A t \in IxThreads : phase[t] \notin {"erase", "forget"} => erase[t] = {}
  /\ \A t \in Workers : phase[t] # "done"
  /\ phase[Boot] # "idle"

IxOnItsWay(c) ==
  \E t \in IxThreads : (phase[t] = "record" /\ c \in Index!New(batch[t])) \/ c \in erase[t]

IxTracked == \A c \in vector : c \in chunks \/ IxOnItsWay(c)

(* What the index takes for the text of the file. *)
IxAlike(a, b) == Index!RawHash(a) = Index!RawHash(b) /\ (b = {} => a = {})

(* The row of the file is about the chunks, and they are alike the file's  *)
(* text if it has the stat of the file.                                    *)
IxRecorded ==
  /\ row.ids = chunks /\ row.hash = Index!RawHash(chunks)
  /\ ~row.known => chunks = {}
  /\ row.sig \in Nat /\ row.sig <= source.sig
  /\ row.sig = source.sig => IxAlike(chunks, source.text)

IxStored == IxRecorded /\ vector = chunks

IxResult(t) ==
  LET r == batch[t][1] IN
  /\ batch[t] = <<r>>
  /\ r.ids = (chunks \cup r.new) \ r.old /\ IxAlike(r.ids, source.text)
  /\ r.hash = Index!RawHash(source.text) /\ r.sig = source.sig

IxRests(t) == phase[t] \in {"off", "idle", "done"} /\ batch[t] = <<>> /\ ~purge[t]

IxBusy(t) ==
  \/ /\ phase[t] \in {"walk", "purge", "end"} /\ t = Boot /\ batch[t] = <<>> /\ IxStored
     /\ phase[t] = "purge" => source.text = {}
     /\ phase[t] = "end" => IxAlike(chunks, source.text)
  \/ /\ phase[t] \in {"examine", "extract"} /\ batch[t] = <<>> /\ IxStored
     /\ stat[t] = source.sig /\ source.text # {}
     /\ phase[t] = "extract" =>
          seenChunks[t].rows = chunks /\ seenChunks[t].hash = Index!RawHash(source.text)
  \/ phase[t] = (IF t = Boot THEN "commit" ELSE "idle") /\ IxStored /\ IxResult(t)
  \/ phase[t] = "record" /\ IxRecorded /\ IxResult(t) /\ vector = chunks \cup Index!New(batch[t])
  \/ /\ phase[t] \in {"erase", "forget"} /\ batch[t] = <<>> /\ IxRecorded
     /\ IxAlike(chunks, source.text) /\ vector \ erase[t] = chunks

IxWorks(t) ==
  \/ /\ purge[t] /\ t # Boot /\ phase[t] = "idle" /\ batch[t] = <<>>
     /\ IxStored /\ source.text = {}
  \/ ~purge[t] /\ IxBusy(t)

IxNone ==
  /\ \A t \in IxThreads : IxRests(t)
  /\ IxStored
  /\ phase[Boot] = "off" => eventQueue = <<>>
  /\ phase[Boot] # "off" =>
       /\ phase[Boot] = "done" /\ ~booting
       /\ \/ eventQueue = <<>> /\ IxAlike(chunks, source.text)
          \/ eventQueue = <<"changed">> /\ source.text # {}
          \/ eventQueue = <<"deleted">> /\ source.text = {}

IxOne(t) ==
  /\ IxWorks(t) /\ \A u \in IxThreads \ {t} : IxRests(u)
  /\ eventQueue = <<>> /\ phase[Boot] # "off"
  /\ t = Boot => booting
  /\ t # Boot => ~booting /\ phase[Boot] = "done"

IxCalm == calm /\ ~recreated => ~torn /\ (IxNone \/ \E t \in IxThreads : IxOne(t))

IxInv == IxShape /\ (torn \/ IxTracked) /\ IxCalm

LEMMA IxConstants ==
  /\ IxThreads = Workers \cup {Boot} /\ Boot \notin Workers /\ Boot \in IxThreads
  /\ Workers # {} /\ MaxQueue \in Nat /\ MaxQueue # 0
BY HouseholdAssumption DEF HouseholdAssumption, IxThreads, Index!Threads

(* A batch of one result. *)
LEMMA IxSingle ==
  ASSUME NEW r
  PROVE  /\ Index!New(<<r>>) = r.new /\ Index!Old(<<r>>) = r.old
         /\ Index!Last(<<r>>) = r /\ Append(<<>>, r) = <<r>>
         /\ Tail(<<r>>) = <<>> /\ <<r>> # <<>> /\ <<r>>[1] = r
<1>1. DOMAIN <<r>> = {1} /\ <<r>>[1] = r /\ Len(<<r>>) = 1
  OBVIOUS
<1>2. Index!New(<<r>>) = r.new /\ Index!Old(<<r>>) = r.old
  BY <1>1 DEF Index!New, Index!Old
<1>3. Index!Last(<<r>>) = r
  BY <1>1 DEF Index!Last
<1>4. <<r>> # <<>>
  BY <1>1
<1>5. Append(<<>>, r) = <<r>>
  OBVIOUS
<1>6. Tail(<<r>>) = <<>>
  OBVIOUS
<1>. QED
  BY <1>1, <1>2, <1>3, <1>4, <1>5, <1>6

LEMMA IxInit == Index!Init => IxInv
<1>. SUFFICES ASSUME Index!Init PROVE IxInv
  OBVIOUS
<1>. USE IxConstants
<1>1. /\ phase = [t \in IxThreads |-> "off"] /\ stat = [t \in IxThreads |-> 0]
      /\ seenChunks = [t \in IxThreads |-> Index!NothingSeen] /\ batch = [t \in IxThreads |-> <<>>]
      /\ purge = [t \in IxThreads |-> FALSE] /\ erase = [t \in IxThreads |-> {}]
  BY DEF Index!Init, IxThreads
<1>2. /\ source.sig = 1 /\ (~source.there => source.text = {})
      /\ row = Index!NoRow /\ chunks = {} /\ vector = {} /\ eventQueue = <<>> /\ torn = FALSE
  BY DEF Index!Init
<1>3. IxShape
  BY <1>1, <1>2 DEF IxShape
<1>4. IxTracked
  BY <1>2 DEF IxTracked
<1>5. IxStored
  BY <1>2 DEF IxStored, IxRecorded, Index!NoRow
<1>6. \A t \in IxThreads : IxRests(t)
  BY <1>1 DEF IxRests
<1>7. IxNone
  BY <1>1, <1>2, <1>5, <1>6 DEF IxNone
<1>. QED
  BY <1>2, <1>3, <1>4, <1>7 DEF IxInv, IxCalm

(* A step of one thread: the other threads stay as they are, and the shape *)
(* is kept.                                                                *)
IxActs(t) ==
  \/ t = Boot /\ (Index!Walk \/ Index!EndBoot \/ Index!BootFails)
  \/ Index!WorkerDies(t)
  \/ Index!Get(t) \/ Index!Examine(t) \/ Index!Extract(t) \/ Index!Upsert(t)
  \/ Index!Record(t) \/ Index!Erase(t) \/ Index!Purge(t)

IxOthersStay(t) ==
  \A u \in IxThreads \ {t} :
    /\ phase'[u] = phase[u] /\ batch'[u] = batch[u] /\ purge'[u] = purge[u] /\ erase'[u] = erase[u]

LEMMA IxMoves ==
  ASSUME IxShape, NEW t \in IxThreads, IxActs(t)
  PROVE  IxOthersStay(t) /\ IxShape'
<1>. USE IxConstants
<1>1. /\ UNCHANGED source
      /\ DOMAIN phase' = IxThreads /\ DOMAIN stat' = IxThreads /\ DOMAIN seenChunks' = IxThreads
      /\ DOMAIN batch' = IxThreads /\ DOMAIN purge' = IxThreads /\ DOMAIN erase' = IxThreads
  BY DEF IxShape, IxActs, Index!Walk, Index!EndBoot, Index!BootFails, Index!WorkerDies,
     Index!Get, Index!Examine, Index!Extract,
     Index!Upsert, Index!Record, Index!Erase, Index!Purge
<1>2. \A u \in IxThreads \ {t} : phase'[u] = phase[u]
  BY DEF IxShape, IxActs, Index!Walk, Index!EndBoot, Index!BootFails, Index!WorkerDies,
     Index!Get, Index!Examine, Index!Extract,
     Index!Upsert, Index!Record, Index!Erase, Index!Purge
<1>3. \A u \in IxThreads \ {t} :
        batch'[u] = batch[u] /\ purge'[u] = purge[u] /\ erase'[u] = erase[u]
  BY DEF IxShape, IxActs, Index!Walk, Index!EndBoot, Index!BootFails, Index!WorkerDies,
     Index!Get, Index!Examine, Index!Extract,
     Index!Upsert, Index!Record, Index!Erase, Index!Purge
<1>4. /\ phase[t] # "off" /\ phase'[t] # "off" /\ (phase'[t] = "idle" => t # Boot)
      /\ (phase'[t] = "done" => t = Boot)
  BY DEF IxShape, IxActs, Index!Walk, Index!EndBoot, Index!BootFails, Index!WorkerDies,
     Index!Get, Index!Examine, Index!Extract,
     Index!Upsert, Index!Record, Index!Erase, Index!Purge, Index!Next1
<1>5. phase'[t] \notin {"erase", "forget"} => erase'[t] = {}
  BY DEF IxShape, IxActs, Index!Walk, Index!EndBoot, Index!BootFails, Index!WorkerDies,
     Index!Get, Index!Examine, Index!Extract,
     Index!Upsert, Index!Record, Index!Erase, Index!Purge
<1>6. phase[Boot] # "off"
  BY <1>4 DEF IxShape
<1>. QED
  BY <1>1, <1>2, <1>3, <1>4, <1>5, <1>6 DEF IxShape, IxOthersStay

LEMMA IxShapeStep == ASSUME IxShape, Index!Next PROVE IxShape'
<1>. USE IxConstants
<1>1. CASE Index!Start
  <2>1. /\ phase' = [t \in IxThreads |-> IF t = Boot THEN "walk" ELSE "idle"] /\ phase[Boot] = "off"
        /\ UNCHANGED <<source, stat, seenChunks, batch, purge, erase>>
    BY <1>1 DEF Index!Start, IxThreads
  <2>2. \A t \in IxThreads : erase[t] = {}
    BY <2>1 DEF IxShape
  <2>. QED
    BY <2>1, <2>2 DEF IxShape
<1>2. CASE Index!Exit
  <2>1. /\ phase' = [t \in IxThreads |-> "off"] /\ stat' = [t \in IxThreads |-> 0]
        /\ seenChunks' = [t \in IxThreads |-> Index!NothingSeen] /\ batch' = [t \in IxThreads |-> <<>>]
        /\ purge' = [t \in IxThreads |-> FALSE] /\ erase' = [t \in IxThreads |-> {}]
        /\ UNCHANGED source
    BY <1>2 DEF Index!Exit, IxThreads
  <2>. QED
    BY <2>1 DEF IxShape
<1>3. CASE Index!Change
  <2>1. /\ source'.sig = source.sig + 1 /\ (~source'.there => source'.text = {})
        /\ UNCHANGED <<phase, stat, seenChunks, batch, purge, erase>>
    BY <1>3 DEF Index!Change, Index!work
  <2>. QED
    BY <2>1 DEF IxShape
<1>4. CASE Index!Debounced
  BY <1>4 DEF IxShape, Index!Debounced, Index!work
<1>5. ASSUME NEW t \in IxThreads, IxActs(t) PROVE IxShape'
  BY <1>5, IxMoves
<1>. QED
  BY <1>1, <1>2, <1>3, <1>4, <1>5 DEF Index!Next, IxActs, IxThreads

(* An entry stays in table chunks or on its way. *)
LEMMA IxTrackedStep ==
  ASSUME IxShape, torn \/ IxTracked, Index!Next
  PROVE  torn' \/ IxTracked'
<1>. SUFFICES ASSUME ~torn' PROVE IxTracked'
  OBVIOUS
<1>. USE IxConstants
<1>1. ~torn
  BY DEF Index!Next, Index!Start, Index!Exit, Index!Change, Index!Debounced, Index!Walk,
     Index!EndBoot, Index!BootFails, Index!WorkerDies, Index!Get, Index!Examine, Index!Extract, Index!Upsert, Index!Record,
     Index!Erase, Index!Purge, Index!history
<1>2. IxTracked
  BY <1>1
<1>3. CASE Index!Start
  <2>1. \A t \in IxThreads : phase[t] = "off" /\ erase[t] = {}
    BY <1>3 DEF IxShape, Index!Start
  <2>2. vector' = {} \/ UNCHANGED <<chunks, vector>>
    BY <1>3 DEF Index!Start, Index!Recreate
  <2>. QED
    BY <1>2, <2>1, <2>2 DEF IxTracked, IxOnItsWay
<1>4. CASE Index!Exit
  <2>1. \A t \in IxThreads : phase[t] \notin {"record", "erase", "forget"}
    BY <1>4 DEF Index!Exit, IxThreads
  <2>2. \A t \in IxThreads : erase[t] = {}
    BY <2>1 DEF IxShape
  <2>3. UNCHANGED <<chunks, vector>>
    BY <1>4 DEF Index!Exit, Index!store
  <2>. QED
    BY <1>2, <2>1, <2>2, <2>3 DEF IxTracked, IxOnItsWay
<1>5. CASE Index!Change \/ Index!Debounced
  <2>1. UNCHANGED <<chunks, vector, phase, batch, erase>>
    BY <1>5 DEF Index!Change, Index!Debounced, Index!store, Index!work
  <2>. QED
    BY <1>2, <2>1 DEF IxTracked, IxOnItsWay
<1>6. ASSUME NEW t \in IxThreads, IxActs(t) PROVE IxTracked'
  <2>1. IxOthersStay(t)
    BY <1>6, IxMoves
  <2>2. ASSUME NEW c, IxOnItsWay(c), c \notin erase[t],
               ~(phase[t] = "record" /\ c \in Index!New(batch[t]))
        PROVE  IxOnItsWay(c)'
    <3>1. PICK u \in IxThreads : (phase[u] = "record" /\ c \in Index!New(batch[u])) \/ c \in erase[u]
      BY <2>2 DEF IxOnItsWay
    <3>2. u # t
      BY <2>2, <3>1
    <3>3. phase'[u] = phase[u] /\ batch'[u] = batch[u] /\ erase'[u] = erase[u]
      BY <2>1, <3>2 DEF IxOthersStay
    <3>4. Index!New(batch[u])' = Index!New(batch[u])
      BY <3>3 DEF Index!New
    <3>. QED
      BY <3>1, <3>3, <3>4 DEF IxOnItsWay
  <2>3. CASE \/ t = Boot /\ (Index!Walk \/ Index!EndBoot \/ Index!BootFails)
             \/ Index!WorkerDies(t) \/ Index!Get(t) \/ Index!Examine(t) \/ Index!Extract(t)
    <3>1. UNCHANGED <<chunks, vector>> /\ phase[t] \notin {"record", "erase", "forget"}
      BY <2>3 DEF Index!Walk, Index!EndBoot, Index!BootFails, Index!WorkerDies, Index!Get, Index!Examine, Index!Extract, Index!store
    <3>2. erase[t] = {}
      BY <3>1 DEF IxShape
    <3>. QED
      BY <1>2, <2>2, <3>1, <3>2 DEF IxTracked
  <2>4. CASE Index!Upsert(t)
    <3>1. /\ phase[t] \notin {"record", "erase", "forget"} /\ phase'[t] = "record"
          /\ batch' = batch /\ chunks' = chunks
          /\ vector' \in {vector, vector \cup Index!New(batch[t])}
      BY <2>4 DEF Index!Upsert, IxShape
    <3>2. erase[t] = {}
      BY <3>1 DEF IxShape
    <3>3. Index!New(batch[t])' = Index!New(batch[t])
      BY <3>1 DEF Index!New
    <3>4. \A c \in Index!New(batch[t]) : IxOnItsWay(c)'
      BY <3>1, <3>3 DEF IxOnItsWay
    <3>. QED
      BY <1>2, <2>2, <3>1, <3>2, <3>4 DEF IxTracked
  <2>5. CASE Index!Record(t)
    <3>1. /\ phase[t] = "record" /\ vector' = vector
          /\ chunks' = (chunks \cup Index!New(batch[t])) \ Index!Old(batch[t])
          /\ erase'[t] = Index!Old(batch[t])
      BY <1>1, <2>5 DEF Index!Record, IxShape
    <3>2. erase[t] = {}
      BY <3>1 DEF IxShape
    <3>3. \A c \in erase'[t] : IxOnItsWay(c)'
      BY DEF IxOnItsWay
    <3>. QED
      BY <1>2, <2>2, <3>1, <3>2, <3>3 DEF IxTracked
  <2>6. CASE Index!Erase(t)
    <3>1. phase[t] # "record" /\ vector' = vector \ erase[t] /\ chunks' = chunks
      BY <1>1, <2>6 DEF Index!Erase
    <3>. QED
      BY <1>2, <2>2, <3>1 DEF IxTracked
  <2>7. CASE Index!Purge(t)
    <3>1. /\ phase[t] \notin {"record", "erase", "forget"} /\ vector' = vector
          /\ chunks' = chunks \ row.ids /\ erase'[t] = row.ids
      BY <2>7 DEF Index!Purge, IxShape
    <3>2. erase[t] = {}
      BY <3>1 DEF IxShape
    <3>3. \A c \in erase'[t] : IxOnItsWay(c)'
      BY DEF IxOnItsWay
    <3>. QED
      BY <1>2, <2>2, <3>1, <3>2, <3>3 DEF IxTracked
  <2>. QED
    BY <1>6, <2>3, <2>4, <2>5, <2>6, <2>7 DEF IxActs
<1>. QED
  BY <1>3, <1>4, <1>5, <1>6 DEF Index!Next, IxActs, IxThreads

(* While it is calm: the steps of the thread at work. *)
LEMMA IxAlone ==
  ASSUME IxShape, NEW t \in IxThreads, IxOne(t), IxActs(t), UNCHANGED eventQueue,
         \/ IxWorks(t)' /\ booting' = booting
         \/ /\ IxRests(t)' /\ IxStored' /\ IxAlike(chunks', source'.text)
            /\ phase'[Boot] = "done" /\ ~booting'
  PROVE  IxNone' \/ IxOne(t)'
<1>. USE IxConstants
<1>1. IxOthersStay(t)
  BY IxMoves
<1>2. \A u \in IxThreads \ {t} : IxRests(u)'
  BY <1>1 DEF IxOne, IxRests, IxOthersStay
<1>3. IxShape'
  BY IxMoves
<1>4. CASE IxWorks(t)' /\ booting' = booting
  <2>1. phase'[Boot] # "off" /\ (t # Boot => phase'[Boot] = "done")
    <3>1. CASE t # Boot
      BY <1>1, <3>1 DEF IxOne, IxOthersStay
    <3>2. CASE t = Boot
      <4>1. phase'[t] # "off"
        BY <1>4 DEF IxWorks, IxBusy
      <4>. QED
        BY <3>2, <4>1
    <3>. QED
      BY <3>1, <3>2
  <2>. QED
    BY <1>2, <1>4, <2>1 DEF IxOne
<1>5. CASE /\ IxRests(t)' /\ IxStored' /\ IxAlike(chunks', source'.text)
           /\ phase'[Boot] = "done" /\ ~booting'
  BY <1>2, <1>5 DEF IxOne, IxNone
<1>. QED
  BY <1>4, <1>5

LEMMA IxBoot ==
  ASSUME IxShape, IxOne(Boot), Index!Walk \/ Index!EndBoot
  PROVE  IxNone' \/ IxOne(Boot)'
<1>. USE IxConstants
<1>1. IxActs(Boot)
  BY DEF IxActs
<1>2. CASE Index!Walk
  <2>1. /\ phase[Boot] = "walk" /\ batch[Boot] = <<>> /\ ~purge[Boot] /\ IxStored
    BY <1>2 DEF Index!Walk, IxOne, IxWorks, IxBusy
  <2>2. /\ phase'[Boot] = IF Index!Valid THEN "examine" ELSE IF row.known THEN "purge" ELSE "end"
        /\ stat'[Boot] = source.sig
        /\ UNCHANGED <<source, row, chunks, vector, eventQueue, booting, batch, purge>>
    BY <1>2 DEF Index!Walk, IxShape, Index!store
  <2>3. IxStored'
    BY <2>1, <2>2 DEF IxStored, IxRecorded
  <2>4. /\ Index!Valid => source.text # {}
        /\ ~Index!Valid => source.text = {}
    BY DEF Index!Valid, IxShape
  <2>5. ~row.known => chunks = {}
    BY <2>1 DEF IxStored, IxRecorded
  <2>6. IxWorks(Boot)'
    BY <2>1, <2>2, <2>3, <2>4, <2>5 DEF IxWorks, IxBusy, IxAlike
  <2>. QED
    BY <1>1, <2>2, <2>6, IxAlone
<1>3. CASE Index!EndBoot
  <2>1. /\ phase[Boot] = "end" /\ batch[Boot] = <<>> /\ ~purge[Boot] /\ IxStored
        /\ IxAlike(chunks, source.text)
    BY <1>3 DEF Index!EndBoot, IxOne, IxWorks, IxBusy
  <2>2. /\ phase'[Boot] = "done" /\ ~booting'
        /\ UNCHANGED <<source, row, chunks, vector, eventQueue, batch, purge>>
    BY <1>3 DEF Index!EndBoot, IxShape, Index!store
  <2>3. IxStored' /\ IxRests(Boot)'
    BY <2>1, <2>2 DEF IxStored, IxRecorded, IxRests
  <2>. QED
    BY <1>1, <2>1, <2>2, <2>3, IxAlone
<1>. QED
  BY <1>2, <1>3

LEMMA IxExamine ==
  ASSUME IxShape, NEW t \in IxThreads, IxOne(t), Index!Examine(t), calm'
  PROVE  IxNone' \/ IxOne(t)'
<1>. USE IxConstants
<1>1. /\ phase[t] = "examine" /\ batch[t] = <<>> /\ ~purge[t] /\ IxStored
      /\ stat[t] = source.sig /\ source.text # {}
  BY DEF Index!Examine, IxOne, IxWorks, IxBusy
<1>2. UNCHANGED <<source, row, chunks, vector, eventQueue, booting, purge, stat>>
  BY DEF Index!Examine, Index!store
<1>3. IxStored'
  BY <1>1, <1>2 DEF IxStored, IxRecorded
<1>4. Index!Valid
  BY <1>1 DEF Index!Valid, IxShape
<1>5. IxActs(t)
  BY DEF IxActs
<1>6. CASE /\ row.known /\ row.sig = stat[t]
           /\ phase' = [phase EXCEPT ![t] = Index!Next1(t)] /\ batch' = batch
  <2>1. IxAlike(chunks, source.text)
    BY <1>1, <1>6 DEF IxStored, IxRecorded
  <2>2. phase'[t] = IF t = Boot THEN "end" ELSE "idle"
    BY <1>6 DEF IxShape, Index!Next1
  <2>3. CASE t = Boot
    <3>1. IxWorks(t)'
      BY <1>1, <1>2, <1>3, <1>6, <2>1, <2>2, <2>3 DEF IxWorks, IxBusy
    <3>. QED
      BY <1>2, <1>5, <3>1, IxAlone
  <2>4. CASE t # Boot
    <3>1. phase'[Boot] = "done" /\ ~booting'
      BY <1>2, <1>6, <2>4 DEF IxOne, IxShape
    <3>2. IxRests(t)'
      BY <1>1, <1>2, <1>6, <2>2, <2>4 DEF IxRests
    <3>. QED
      BY <1>2, <1>3, <1>5, <2>1, <3>1, <3>2, IxAlone
  <2>. QED
    BY <2>3, <2>4
<1>7. CASE /\ row.known /\ chunks # {} /\ row.hash = Index!RawHash(source.text)
           /\ batch' = [batch EXCEPT
                ![t] = Append(@, Index!Item("update_stat", t, row.hash, row.ids, {}, {}))]
           /\ phase' = [phase EXCEPT ![t] = IF t = Boot THEN "commit" ELSE "idle"]
  <2>. DEFINE r == Index!Item("update_stat", t, row.hash, row.ids, {}, {})
  <2>1. /\ r.hash = row.hash /\ r.ids = row.ids /\ r.sig = stat[t]
        /\ r.new = {} /\ r.old = {}
    BY DEF Index!Item
  <2>2. batch'[t] = Append(batch[t], r)
    BY <1>7 DEF IxShape
  <2>. HIDE DEF r
  <2>3. batch'[t] = <<r>> /\ batch'[t][1] = r
    BY <1>1, <2>2, IxSingle
  <2>4. IxAlike(chunks, source.text) /\ row.ids = chunks
    BY <1>1, <1>7 DEF IxStored, IxRecorded, IxAlike
  <2>5. IxResult(t)'
    <3>1. (chunks' \cup r.new) \ r.old = chunks
      BY <1>2, <2>1
    <3>. QED
      BY <1>1, <1>2, <1>7, <2>1, <2>3, <2>4, <3>1 DEF IxResult
  <2>6. phase'[t] = IF t = Boot THEN "commit" ELSE "idle"
    BY <1>7 DEF IxShape
  <2>7. IxWorks(t)'
    BY <1>1, <1>2, <1>3, <2>5, <2>6 DEF IxWorks, IxBusy
  <2>. QED
    BY <1>2, <1>5, <2>7, IxAlone
<1>8. CASE /\ seenChunks' = [seenChunks EXCEPT
                ![t] = [rows |-> chunks, hash |-> Index!RawHash(source.text)]]
           /\ phase' = [phase EXCEPT ![t] = "extract"] /\ batch' = batch
  <2>1. /\ seenChunks'[t] = [rows |-> chunks, hash |-> Index!RawHash(source.text)]
        /\ phase'[t] = "extract"
    BY <1>8 DEF IxShape
  <2>2. IxWorks(t)'
    BY <1>1, <1>2, <1>3, <1>8, <2>1 DEF IxWorks, IxBusy
  <2>. QED
    BY <1>2, <1>5, <2>2, IxAlone
<1>. QED
  BY <1>4, <1>6, <1>7, <1>8 DEF Index!Examine

LEMMA IxExtract ==
  ASSUME IxShape, NEW t \in IxThreads, IxOne(t), Index!Extract(t), calm'
  PROVE  IxNone' \/ IxOne(t)'
<1>. USE IxConstants
<1>. DEFINE r == Index!Extracted(t)
<1>1. /\ phase[t] = "extract" /\ batch[t] = <<>> /\ ~purge[t] /\ IxStored
      /\ stat[t] = source.sig /\ source.text # {} /\ seenChunks[t].rows = chunks
      /\ seenChunks[t].hash = Index!RawHash(source.text)
  BY DEF Index!Extract, IxOne, IxWorks, IxBusy
<1>2. Index!Valid
  BY <1>1 DEF Index!Valid, IxShape
<1>3. /\ batch'[t] = Append(batch[t], r)
      /\ phase'[t] = IF t = Boot THEN "commit" ELSE "idle"
      /\ UNCHANGED <<source, row, chunks, vector, eventQueue, booting, purge>>
  BY <1>2 DEF Index!Extract, IxShape, Index!store
<1>4. /\ r.hash = seenChunks[t].hash /\ r.ids = source.text /\ r.sig = stat[t]
      /\ r.new = source.text \ chunks /\ r.old = chunks \ source.text
  <2>1. CASE source.text \ chunks = {} /\ chunks \ source.text = {}
    <3>1. r = Index!Item("update_stat", t, seenChunks[t].hash, source.text, {}, {})
      BY <1>1, <2>1 DEF Index!Extracted
    <3>. QED
      BY <2>1, <3>1 DEF Index!Item
  <2>2. CASE ~(source.text \ chunks = {} /\ chunks \ source.text = {})
    <3>1. r = Index!Item("ingest", t, seenChunks[t].hash, source.text,
                         source.text \ chunks, chunks \ source.text)
      BY <1>1, <2>2 DEF Index!Extracted
    <3>. QED
      BY <3>1 DEF Index!Item
  <2>. QED
    BY <2>1, <2>2
<1>. HIDE DEF r
<1>5. batch'[t] = <<r>> /\ batch'[t][1] = r
  BY <1>1, <1>3, IxSingle
<1>6. (chunks \cup r.new) \ r.old = source.text
  BY <1>4
<1>7. IxResult(t)'
  <2>1. IxAlike(source.text, source.text)
    BY DEF IxAlike
  <2>. QED
    BY <1>1, <1>3, <1>4, <1>5, <1>6, <2>1 DEF IxResult
<1>8. IxStored'
  BY <1>1, <1>3 DEF IxStored, IxRecorded
<1>9. IxWorks(t)'
  BY <1>1, <1>3, <1>7, <1>8 DEF IxWorks, IxBusy
<1>10. IxActs(t)
  BY DEF IxActs
<1>. QED
  BY <1>3, <1>9, <1>10, IxAlone

LEMMA IxUpsert ==
  ASSUME IxShape, NEW t \in IxThreads, IxOne(t), Index!Upsert(t), calm'
  PROVE  IxNone' \/ IxOne(t)'
<1>. USE IxConstants
<1>1. /\ phase[t] \in {"idle", "commit"} /\ ~purge[t] /\ IxStored /\ IxResult(t)
  <2>1. phase[t] \in {"idle", "commit"} /\ batch[t] # <<>>
    BY DEF Index!Upsert
  <2>. QED
    BY <2>1 DEF IxOne, IxWorks, IxBusy
<1>2. /\ vector' = vector \cup Index!New(batch[t]) /\ phase'[t] = "record"
      /\ UNCHANGED <<source, row, chunks, eventQueue, booting, batch, purge>>
  BY DEF Index!Upsert, IxShape
<1>3. Index!New(batch[t])' = Index!New(batch[t])
  BY <1>2 DEF Index!New
<1>4. IxRecorded' /\ IxResult(t)'
  BY <1>1, <1>2 DEF IxStored, IxRecorded, IxResult
<1>5. vector' = chunks' \cup Index!New(batch[t])'
  BY <1>1, <1>2, <1>3 DEF IxStored
<1>6. IxWorks(t)'
  BY <1>1, <1>2, <1>4, <1>5 DEF IxWorks, IxBusy
<1>7. IxActs(t)
  BY DEF IxActs
<1>. QED
  BY <1>2, <1>6, <1>7, IxAlone

LEMMA IxRecord ==
  ASSUME IxShape, NEW t \in IxThreads, IxOne(t), Index!Record(t), calm'
  PROVE  IxNone' \/ IxOne(t)'
<1>. USE IxConstants
<1>1. /\ phase[t] = "record" /\ ~purge[t] /\ IxRecorded /\ IxResult(t)
      /\ vector = chunks \cup Index!New(batch[t])
  BY DEF Index!Record, IxOne, IxWorks, IxBusy
<1>. DEFINE r == batch[t][1]
<1>2. /\ batch[t] = <<r>> /\ r.hash = Index!RawHash(source.text) /\ r.sig = source.sig
      /\ r.ids = (chunks \cup r.new) \ r.old /\ IxAlike(r.ids, source.text)
  BY <1>1 DEF IxResult
<1>3. Index!New(batch[t]) = r.new /\ Index!Old(batch[t]) = r.old /\ Index!Last(batch[t]) = r
  <2>. HIDE DEF r
  <2>1. Index!New(<<r>>) = r.new /\ Index!Old(<<r>>) = r.old /\ Index!Last(<<r>>) = r
    BY IxSingle
  <2>. QED
    BY <1>2, <2>1
<1>. HIDE DEF r
<1>4. /\ row' = [known |-> TRUE, hash |-> Index!Last(batch[t]).hash,
                 sig |-> Index!Last(batch[t]).sig, ids |-> Index!Last(batch[t]).ids]
      /\ chunks' = (chunks \cup Index!New(batch[t])) \ Index!Old(batch[t])
      /\ UNCHANGED <<source, vector, eventQueue, booting, purge>>
  BY DEF Index!Record
<1>5. erase'[t] = Index!Old(batch[t]) /\ batch'[t] = <<>> /\ phase'[t] = "erase"
  BY DEF Index!Record, IxShape
<1>6. chunks' = r.ids /\ IxAlike(chunks', source.text)
  BY <1>2, <1>3, <1>4
<1>7. IxRecorded'
  <2>1. /\ row'.known = TRUE /\ row'.hash = Index!RawHash(chunks')
        /\ row'.ids = chunks' /\ row'.sig = source.sig
    BY <1>2, <1>3, <1>4, <1>6 DEF IxAlike
  <2>2. source.sig \in Nat
    BY DEF IxShape
  <2>. QED
    BY <1>4, <1>6, <2>1, <2>2 DEF IxRecorded
<1>8. vector' \ erase'[t] = chunks'
  BY <1>1, <1>3, <1>4, <1>5
<1>9. IxWorks(t)'
  BY <1>1, <1>4, <1>5, <1>6, <1>7, <1>8 DEF IxWorks, IxBusy
<1>10. IxActs(t)
  BY DEF IxActs
<1>. QED
  BY <1>4, <1>9, <1>10, IxAlone

LEMMA IxErase ==
  ASSUME IxShape, NEW t \in IxThreads, IxOne(t), Index!Erase(t), calm'
  PROVE  IxNone' \/ IxOne(t)'
<1>. USE IxConstants
<1>1. /\ phase[t] \in {"erase", "forget"} /\ batch[t] = <<>> /\ ~purge[t] /\ IxRecorded
      /\ IxAlike(chunks, source.text) /\ vector \ erase[t] = chunks
  BY DEF Index!Erase, IxOne, IxWorks, IxBusy
<1>2. /\ vector' = vector \ erase[t] /\ phase' = [phase EXCEPT ![t] = Index!Next1(t)]
      /\ UNCHANGED <<source, row, chunks, eventQueue, booting, batch, purge>>
  BY DEF Index!Erase
<1>3. phase'[t] = IF t = Boot THEN "end" ELSE "idle"
  BY <1>2 DEF IxShape, Index!Next1
<1>4. IxStored' /\ IxAlike(chunks', source'.text)
  BY <1>1, <1>2 DEF IxStored, IxRecorded
<1>5. IxActs(t)
  BY DEF IxActs
<1>6. CASE t = Boot
  <2>1. IxWorks(t)'
    BY <1>1, <1>2, <1>3, <1>4, <1>6 DEF IxWorks, IxBusy
  <2>. QED
    BY <1>2, <1>5, <2>1, IxAlone
<1>7. CASE t # Boot
  <2>1. phase'[Boot] = "done" /\ ~booting'
    BY <1>2, <1>7 DEF IxOne, IxShape
  <2>2. IxRests(t)'
    BY <1>1, <1>2, <1>3, <1>7 DEF IxRests
  <2>. QED
    BY <1>2, <1>4, <1>5, <2>1, <2>2, IxAlone
<1>. QED
  BY <1>6, <1>7

LEMMA IxPurge ==
  ASSUME IxShape, NEW t \in IxThreads, IxOne(t), Index!Purge(t)
  PROVE  IxNone' \/ IxOne(t)'
<1>. USE IxConstants
<1>1. batch[t] = <<>> /\ IxStored /\ source.text = {}
  BY DEF Index!Purge, IxOne, IxWorks, IxBusy
<1>2. /\ row' = Index!NoRow /\ chunks' = chunks \ row.ids
      /\ UNCHANGED <<source, vector, eventQueue, booting, batch>>
  BY DEF Index!Purge
<1>3. erase'[t] = row.ids /\ purge'[t] = FALSE /\ phase'[t] = "forget"
  BY DEF Index!Purge, IxShape
<1>4. chunks' = {} /\ vector' \ erase'[t] = {} /\ IxAlike(chunks', source'.text)
  BY <1>1, <1>2, <1>3 DEF IxStored, IxRecorded, IxAlike
<1>5. IxRecorded'
  BY <1>2, <1>4 DEF IxRecorded, IxShape, Index!NoRow
<1>6. IxWorks(t)'
  BY <1>1, <1>2, <1>3, <1>4, <1>5 DEF IxWorks, IxBusy
<1>7. IxActs(t)
  BY DEF IxActs
<1>. QED
  BY <1>2, <1>6, <1>7, IxAlone

(* A worker takes the event of the last change. *)
LEMMA IxGet ==
  ASSUME IxShape, IxNone, NEW t \in IxThreads, Index!Get(t)
  PROVE  IxOne(t)'
<1>. USE IxConstants
<1>1. /\ t # Boot /\ batch[t] = <<>> /\ ~purge[t] /\ IxStored
      /\ phase[Boot] = "done" /\ ~booting
      /\ \/ eventQueue = <<"changed">> /\ source.text # {}
         \/ eventQueue = <<"deleted">> /\ source.text = {}
  BY DEF Index!Get, IxNone, IxRests
<1>2. /\ eventQueue' = Tail(eventQueue)
      /\ UNCHANGED <<source, row, chunks, vector, booting, batch>>
  BY DEF Index!Get, Index!store
<1>3. eventQueue' = <<>>
  <2>1. Tail(<<"changed">>) = <<>> /\ Tail(<<"deleted">>) = <<>>
    BY IxSingle
  <2>. QED
    BY <1>1, <1>2, <2>1
<1>4. IxActs(t)
  BY DEF IxActs
<1>5. /\ \A u \in IxThreads \ {t} : IxRests(u)'
      /\ phase'[Boot] = "done"
  <2>1. IxOthersStay(t)
    BY <1>4, IxMoves
  <2>. QED
    BY <1>1, <2>1 DEF IxNone, IxRests, IxOthersStay
<1>6. IxStored'
  BY <1>1, <1>2 DEF IxStored, IxRecorded
<1>7. IxWorks(t)'
  <2>1. CASE Head(eventQueue) = "deleted"
    <3>1. source.text = {}
      BY <1>1, <2>1
    <3>2. purge'[t] = TRUE /\ phase'[t] = "idle"
      BY <2>1 DEF Index!Get, IxShape
    <3>. QED
      BY <1>1, <1>2, <1>6, <3>1, <3>2 DEF IxWorks
  <2>2. CASE Head(eventQueue) # "deleted"
    <3>1. source.text # {}
      BY <1>1, <2>2
    <3>2. Index!Valid
      BY <3>1 DEF Index!Valid, IxShape
    <3>3. phase'[t] = "examine" /\ stat'[t] = source.sig /\ purge' = purge
      BY <2>2, <3>2 DEF Index!Get, IxShape
    <3>. QED
      BY <1>1, <1>2, <1>6, <3>1, <3>3 DEF IxWorks, IxBusy
  <2>. QED
    BY <2>1, <2>2
<1>. QED
  BY <1>1, <1>2, <1>3, <1>5, <1>7 DEF IxOne

(* Someone changes the file while the gateway is down or all is settled. *)
LEMMA IxChange ==
  ASSUME IxShape, IxNone \/ \E t \in IxThreads : IxOne(t), Index!Change, calm'
  PROVE  IxNone'
<1>. USE IxConstants
<1>1. /\ source'.sig = source.sig + 1 /\ (source'.there => source'.text # {})
      /\ (~source'.there => source'.text = {})
      /\ \/ eventQueue' = Index!Offered(IF source'.there THEN "changed" ELSE "deleted")
         \/ eventQueue' = eventQueue /\ phase[Boot] = "off"
  <2>1. PICK f \in [there : BOOLEAN, text : SUBSET Chunks, sig : {source.sig + 1}],
             renamed \in BOOLEAN :
          /\ source' = f /\ (~f.there => f.text = {})
          /\ eventQueue' = IF renamed THEN eventQueue
                           ELSE Index!Offered(IF f.there THEN "changed" ELSE "deleted")
          /\ calm' = (calm /\ (phase[Boot] = "off" \/ (Index!Settled /\ ~renamed))
                           /\ (f.there => f.text # {}))
    BY DEF Index!Change
  <2>2. f.sig = source.sig + 1
    BY <2>1
  <2>. QED
    BY <2>1, <2>2
<1>2. UNCHANGED <<row, chunks, vector, booting, phase, batch, purge>>
  BY DEF Index!Change, Index!store, Index!work
<1>3. phase[Boot] = "off" \/ Index!Settled
  BY DEF Index!Change
<1>4. IxNone
  <2>1. ASSUME NEW t \in IxThreads, IxOne(t) PROVE FALSE
    <3>1. ~booting
      BY <1>3, <2>1 DEF IxOne, Index!Settled
    <3>2. t \in Workers
      BY <2>1, <3>1 DEF IxOne
    <3>3. phase[t] = "idle" /\ batch[t] = <<>> /\ ~purge[t]
      BY <1>3, <2>1, <3>2 DEF IxOne, Index!Settled
    <3>. QED
      BY <2>1, <3>2, <3>3 DEF IxOne, IxWorks, IxBusy, IxResult
  <2>. QED
    BY <2>1
<1>5. \A t \in IxThreads : IxRests(t)'
  BY <1>2, <1>4 DEF IxNone, IxRests
<1>6. IxStored'
  <2>1. row.sig \in Nat /\ row.sig < source'.sig /\ source'.sig \in Nat
    BY <1>1, <1>4 DEF IxNone, IxStored, IxRecorded, IxShape
  <2>2. row.sig # source'.sig /\ row.sig <= source'.sig
    BY <2>1
  <2>. QED
    BY <1>2, <1>4, <2>1, <2>2 DEF IxNone, IxStored, IxRecorded
<1>7. CASE phase[Boot] = "off"
  <2>1. eventQueue' = <<>>
    BY <1>1, <1>4, <1>7 DEF Index!Offered, IxNone
  <2>. QED
    BY <1>2, <1>5, <1>6, <1>7, <2>1 DEF IxNone
<1>8. CASE phase[Boot] # "off"
  <2>1. eventQueue = <<>> /\ ~booting /\ ~debounced /\ phase[Boot] = "done"
    BY <1>3, <1>4, <1>8 DEF Index!Settled, IxNone
  <2>2. Len(eventQueue) # MaxQueue
    BY <2>1
  <2>3. \A a : Index!Offered(a) = <<a>>
    <3>1. ASSUME NEW a PROVE Index!Offered(a) = Append(eventQueue, a)
      BY <1>8, <2>1, <2>2 DEF Index!Offered
    <3>2. ASSUME NEW a PROVE Append(<<>>, a) = <<a>>
      BY IxSingle
    <3>. QED
      BY <2>1, <3>1, <3>2
  <2>4. \/ eventQueue' = <<"changed">> /\ source'.text # {}
        \/ eventQueue' = <<"deleted">> /\ source'.text = {}
    <3>1. eventQueue' = Index!Offered(IF source'.there THEN "changed" ELSE "deleted")
      BY <1>1, <1>8
    <3>2. CASE source'.there
      BY <1>1, <2>3, <3>1, <3>2
    <3>3. CASE ~source'.there
      BY <1>1, <2>3, <3>1, <3>3
    <3>. QED
      BY <3>2, <3>3
  <2>. QED
    BY <1>2, <1>5, <1>6, <1>8, <2>1, <2>4 DEF IxNone
<1>. QED
  BY <1>7, <1>8

(* The gateway starts and ends. *)
LEMMA IxStart ==
  ASSUME IxShape, IxNone \/ \E t \in IxThreads : IxOne(t), Index!Start, ~recreated'
  PROVE  IxOne(Boot)'
<1>. USE IxConstants
<1>1. /\ phase[Boot] = "off" /\ booting' = TRUE /\ eventQueue' = <<>>
      /\ phase' = [t \in IxThreads |-> IF t = Boot THEN "walk" ELSE "idle"]
      /\ UNCHANGED <<source, row, chunks, vector, batch, purge>>
  BY DEF Index!Start, Index!Recreate, IxThreads
<1>2. IxNone
  BY <1>1 DEF IxOne
<1>3. /\ \A u \in IxThreads \ {Boot} : IxRests(u)'
      /\ phase'[Boot] = "walk" /\ batch'[Boot] = <<>> /\ ~purge'[Boot]
  BY <1>1, <1>2 DEF IxNone, IxRests
<1>4. IxStored'
  BY <1>1, <1>2 DEF IxNone, IxStored, IxRecorded
<1>5. IxWorks(Boot)'
  BY <1>3, <1>4 DEF IxWorks, IxBusy
<1>. QED
  BY <1>1, <1>3, <1>5 DEF IxOne

LEMMA IxExit ==
  ASSUME IxShape, IxNone \/ \E t \in IxThreads : IxOne(t), Index!Exit, ~torn'
  PROVE  IxNone'
<1>. USE IxConstants
<1>1. /\ phase' = [t \in IxThreads |-> "off"] /\ batch' = [t \in IxThreads |-> <<>>]
      /\ purge' = [t \in IxThreads |-> FALSE] /\ eventQueue' = <<>>
      /\ UNCHANGED <<source, row, chunks, vector>>
  BY DEF Index!Exit, IxThreads, Index!store
<1>2. \A t \in IxThreads : phase[t] \notin {"record", "erase", "forget"}
  BY DEF Index!Exit, IxThreads
<1>3. IxStored
  <2>1. ASSUME NEW t \in IxThreads, IxOne(t) PROVE IxStored
    BY <1>2, <2>1 DEF IxOne, IxWorks, IxBusy
  <2>. QED
    BY <2>1 DEF IxNone
<1>4. IxStored'
  BY <1>1, <1>3 DEF IxStored, IxRecorded
<1>5. \A t \in IxThreads : IxRests(t)'
  BY <1>1 DEF IxRests
<1>. QED
  BY <1>1, <1>4, <1>5 DEF IxNone

LEMMA IxCalmStep == ASSUME IxShape, IxCalm, Index!Next PROVE IxCalm'
<1>. SUFFICES ASSUME calm', ~recreated'
              PROVE  ~torn' /\ (IxNone' \/ \E t \in IxThreads : IxOne(t)')
  BY DEF IxCalm, IxThreads, Index!Threads
<1>. USE IxConstants
<1>1. calm /\ ~recreated
  <2>1. CASE Index!Start
    BY <2>1 DEF Index!Start, Index!Recreate
  <2>2. CASE Index!Exit
    BY <2>2, Zenon DEF Index!Exit
  <2>3. CASE Index!Change
    BY <2>3, Zenon DEF Index!Change
  <2>4. CASE Index!Debounced
    BY <2>4, Zenon DEF Index!Debounced, Index!history
  <2>5. ASSUME NEW t \in IxThreads, IxActs(t) PROVE calm
    BY <2>5, Zenon DEF IxActs, Index!Walk, Index!EndBoot, Index!BootFails, Index!WorkerDies,
       Index!Get, Index!Examine, Index!Extract,
       Index!Upsert, Index!Record, Index!Erase, Index!Purge, Index!history
  <2>6. ASSUME NEW t \in IxThreads, IxActs(t) PROVE ~recreated
    BY <2>6, Zenon DEF IxActs, Index!Walk, Index!EndBoot, Index!BootFails, Index!WorkerDies,
       Index!Get, Index!Examine, Index!Extract,
       Index!Upsert, Index!Record, Index!Erase, Index!Purge, Index!history
  <2>. QED
    BY <2>1, <2>2, <2>3, <2>4, <2>5, <2>6 DEF Index!Next, IxActs, IxThreads
<1>2. ~torn /\ (IxNone \/ \E t \in IxThreads : IxOne(t))
  BY <1>1 DEF IxCalm
<1>3. ~torn'
  BY <1>2 DEF Index!Next, Index!Start, Index!Recreate, Index!Exit, Index!Change, Index!Debounced,
     Index!Walk, Index!EndBoot, Index!BootFails, Index!WorkerDies, Index!Get, Index!Examine,
     Index!Extract, Index!Upsert,
     Index!Record, Index!Erase, Index!Purge, Index!history
<1>4. CASE Index!Start \/ Index!Exit \/ Index!Change
  BY <1>2, <1>3, <1>4, IxStart, IxExit, IxChange
<1>5. CASE Index!Debounced
  <2>1. UNCHANGED <<source, row, chunks, vector, eventQueue, booting, phase, stat, seenChunks,
                    batch, purge, erase>>
    BY <1>5 DEF Index!Debounced, Index!store, Index!work
  <2>2. \A t \in IxThreads : Index!New(batch[t])' = Index!New(batch[t])
    BY <2>1 DEF Index!New
  <2>3. IxNone => IxNone'
    BY <2>1 DEF IxNone, IxRests, IxStored, IxRecorded
  <2>4. ASSUME NEW t \in IxThreads, IxOne(t) PROVE IxOne(t)'
    <3>1. IxWorks(t)'
      BY <2>1, <2>2, <2>4 DEF IxOne, IxWorks, IxBusy, IxResult, IxStored, IxRecorded
    <3>. QED
      BY <2>1, <2>4, <3>1 DEF IxOne, IxRests
  <2>. QED
    BY <1>2, <1>3, <2>3, <2>4
<1>6. ASSUME NEW t \in IxThreads, IxActs(t) PROVE IxNone' \/ IxOne(t)'
  <2>1. CASE IxNone
    <3>1. IxRests(t)
      BY <2>1 DEF IxNone
    <3>2. Index!Get(t)
      BY <1>6, <3>1 DEF IxActs, IxRests, Index!Walk, Index!EndBoot, Index!BootFails, Index!WorkerDies,
         Index!Examine, Index!Extract, Index!Upsert, Index!Record, Index!Erase, Index!Purge
    <3>. QED
      BY <2>1, <3>2, IxGet
  <2>2. CASE IxOne(t)
    <3>1. ~Index!Get(t)
      BY <2>2 DEF IxOne, Index!Get
    <3>2. ~Index!BootFails /\ ~Index!WorkerDies(t)
      BY DEF Index!BootFails, Index!WorkerDies
    <3>. QED
      BY <1>6, <2>2, <3>1, <3>2, IxBoot, IxExamine, IxExtract, IxUpsert, IxRecord, IxErase, IxPurge
         DEF IxActs
  <2>3. ASSUME NEW u \in IxThreads, IxOne(u), u # t PROVE FALSE
    <3>1. IxRests(t) /\ eventQueue = <<>>
      BY <2>3 DEF IxOne
    <3>. QED
      BY <1>6, <3>1 DEF IxActs, IxRests, Index!Walk, Index!EndBoot, Index!BootFails, Index!WorkerDies, Index!Get, Index!Examine,
         Index!Extract, Index!Upsert, Index!Record, Index!Erase, Index!Purge
  <2>. QED
    BY <1>2, <2>1, <2>2, <2>3
<1>. QED
  BY <1>3, <1>4, <1>5, <1>6 DEF Index!Next, IxActs, IxThreads

LEMMA IxRestsToo == IxInv /\ UNCHANGED indexer => IxInv'
<1>. SUFFICES ASSUME IxInv, UNCHANGED indexer PROVE IxInv'
  OBVIOUS
<1>1. UNCHANGED <<source, row, chunks, vector, eventQueue, booting, phase, stat, seenChunks,
                  batch, purge, erase, calm, torn, recreated>>
  BY DEF indexer
<1>2. \A t \in IxThreads : Index!New(batch[t])' = Index!New(batch[t])
  BY <1>1 DEF Index!New
<1>3. IxShape'
  BY <1>1 DEF IxInv, IxShape
<1>4. IxTracked => IxTracked'
  BY <1>1, <1>2 DEF IxTracked, IxOnItsWay
<1>5. IxNone => IxNone'
  BY <1>1 DEF IxNone, IxRests, IxStored, IxRecorded
<1>6. ASSUME NEW t \in IxThreads, IxOne(t) PROVE IxOne(t)'
  <2>1. IxWorks(t)'
    BY <1>1, <1>2, <1>6 DEF IxOne, IxWorks, IxBusy, IxResult, IxStored, IxRecorded
  <2>. QED
    BY <1>1, <1>6, <2>1 DEF IxOne, IxRests
<1>7. IxCalm'
  BY <1>1, <1>5, <1>6 DEF IxInv, IxCalm
<1>. QED
  BY <1>1, <1>3, <1>4, <1>7 DEF IxInv

LEMMA IxIsTrue == IxInv => IndexIsTrue
<1>. SUFFICES ASSUME IxInv PROVE IndexIsTrue
  OBVIOUS
<1>. USE IxConstants
<1>1. Index!EntriesTracked
  BY DEF IxInv, IxTracked, IxOnItsWay, IxThreads, Index!EntriesTracked
<1>2. ASSUME calm, ~recreated, Index!Settled
      PROVE  IF source.there THEN Index!RawHash(vector) = Index!RawHash(source.text)
             ELSE vector = {}
  <2>1. ASSUME NEW t \in IxThreads, IxOne(t) PROVE FALSE
    <3>1. t \in Workers
      BY <1>2, <2>1 DEF IxOne, Index!Settled
    <3>2. phase[t] = "idle" /\ batch[t] = <<>> /\ ~purge[t]
      BY <1>2, <3>1 DEF Index!Settled
    <3>. QED
      BY <2>1, <3>1, <3>2 DEF IxOne, IxWorks, IxBusy, IxResult
  <2>2. IxNone
    BY <1>2, <2>1 DEF IxInv, IxCalm
  <2>3. phase[Boot] # "off" /\ eventQueue = <<>>
    BY <1>2 DEF IxInv, IxShape, Index!Settled
  <2>4. IxAlike(vector, source.text)
    BY <2>2, <2>3 DEF IxNone, IxStored
  <2>. QED
    BY <2>4 DEF IxInv, IxShape, IxAlike
<1>. QED
  BY <1>1, <1>2 DEF IndexIsTrue, Index!IndexIsTrue

(* Every entry of the collection is known to the state database unless a   *)
(* commit was cut off or failed; and once settled the collection holds a   *)
(* text with the file's raw hash, if every change came after the one       *)
(* before was dealt with and was no rename: for any chunks, any number of  *)
(* workers, any size of the queue (indexer.py).                            *)
THEOREM IndexStaysTrue == HouseholdSpec => []IndexIsTrue
<1>1. HouseholdInit => IxInv
  BY IxInit DEF HouseholdInit
<1>2. IxInv /\ [HouseholdNext]_household => IxInv'
  <2>. SUFFICES ASSUME IxInv, [HouseholdNext]_household PROVE IxInv'
    OBVIOUS
  <2>1. CASE Index!Next
    BY <2>1, IxShapeStep, IxTrackedStep, IxCalmStep DEF IxInv
  <2>2. CASE UNCHANGED indexer
    BY <2>2, IxRestsToo
  <2>. QED
    BY <2>1, <2>2, RoomSteps
<1>. QED
  BY <1>1, <1>2, IxIsTrue, PTL DEF HouseholdSpec

-----------------------------------------------------------------------------
(* An attempt that passed the gate and has not confirmed or aborted yet.   *)
Holds(a) == pc[a] \in {"gated", "written", "failed"}

(* An attempt is about a request, and the one that holds a slot holds it   *)
(* alone.                                                                  *)
OneHolder ==
  /\ \A a \in Attempts : pc[a] # "idle" => request[a] \in Requests
  /\ \A a \in Attempts : Holds(a) => request[a] \in inFlight[ProcOf[a]]
  /\ \A a, b \in Attempts :
       Holds(a) /\ Holds(b) /\ ProcOf[a] = ProcOf[b] /\ request[a] = request[b] => a = b

(* What an attempt at the gate knows of the ledger stays true of its own   *)
(* process, and a written resolution is there.                             *)
GateKnows ==
  \A a \in Attempts :
    /\ pc[a] = "gated" => \A i \in Resolutions(request[a]) : ledger[i].by # ProcOf[a]
    /\ pc[a] = "written" => Resolutions(request[a]) # {}

IInv ==
  TypeOK /\ OneHolder /\ GateKnows /\ SlotHasOwner /\ CacheIsTrue /\ ResolvedOnce

LEMMA InitIInv == Init => IInv
  <1>. SUFFICES ASSUME Init PROVE IInv
    OBVIOUS
  <1>1. <<>> \in Seq(Event) /\ Len(<<>>) = 0
    BY EmptySeq
  <1>2. \A r : Resolutions(r) = {}
    BY <1>1 DEF Init, Resolutions
  <1>3. TypeOK
    <2>1. ledger \in Seq(Event) /\ Len(ledger) <= MaxLedger
      BY <1>1, AuthResolverAssumption DEF Init
    <2>. QED  BY <2>1, AuthResolverAssumption DEF Init, TypeOK
  <1>. QED
    BY <1>2, <1>3, AuthResolverAssumption
    DEF Init, IInv, OneHolder, Holds, GateKnows, SlotHasOwner, CacheIsTrue, ResolvedOnce

(* What an append does to the resolutions of a request.                    *)
LEMMA AppendKeeps ==
  ASSUME TypeOK, NEW p \in Procs, NEW type \in EventType,
         NEW r \in Requests \cup {NoRequest}, AppendEvent(p, type, r)
  PROVE  /\ ledger' \in Seq(Event) /\ Len(ledger') <= MaxLedger
         /\ \A q : \A i \in Resolutions(q) : i \in Resolutions(q)' /\ ledger'[i].by = ledger[i].by
         /\ \A q : \A i \in Resolutions(q)' :
              \/ i \in Resolutions(q)
              \/ /\ i = Len(ledger) + 1 /\ ledger'[i].by = p
                 /\ type = "AUTHORIZATION_RESOLVED" /\ r = q
         /\ \A q : type = "AUTHORIZATION_RESOLVED" /\ r = q => Resolutions(q)' # {}
  <1>. DEFINE e == [type |-> type, request |-> r, time |-> now, by |-> p]
  <1>1. /\ ledger \in Seq(Event) /\ Len(ledger) \in Nat /\ e \in Event
        /\ Len(ledger) < MaxLedger /\ MaxLedger \in Nat
    BY LenProperties, AuthResolverAssumption DEF TypeOK, Event, AppendEvent
  <1>2. /\ ledger' \in Seq(Event) /\ Len(ledger') = Len(ledger) + 1
        /\ \A i \in 1..Len(ledger) : ledger'[i] = ledger[i]
        /\ ledger'[Len(ledger) + 1] = e
    <2>. HIDE DEF e
    <2>1. ledger' = Append(ledger, e)
      BY DEF AppendEvent, e
    <2>. QED  BY <1>1, <2>1, AppendProperties
  <1>3. /\ e.type = type /\ e.request = r /\ e.by = p
    OBVIOUS
  <1>. HIDE DEF e
  <1>4. 1..Len(ledger') = (1..Len(ledger)) \cup {Len(ledger) + 1}
    BY <1>1, <1>2
  <1>5. \A q : \A i \in Resolutions(q) : i \in Resolutions(q)' /\ ledger'[i].by = ledger[i].by
    BY <1>2, <1>4 DEF Resolutions
  <1>6. \A q : \A i \in Resolutions(q)' :
          \/ i \in Resolutions(q)
          \/ /\ i = Len(ledger) + 1 /\ ledger'[i].by = p
             /\ type = "AUTHORIZATION_RESOLVED" /\ r = q
    BY <1>2, <1>3, <1>4 DEF Resolutions
  <1>7. \A q : type = "AUTHORIZATION_RESOLVED" /\ r = q => Len(ledger) + 1 \in Resolutions(q)'
    BY <1>2, <1>3, <1>4 DEF Resolutions
  <1>8. Len(ledger') <= MaxLedger
    BY <1>1, <1>2
  <1>. QED  BY <1>2, <1>5, <1>6, <1>7, <1>8

(* The writers that resolve nothing, and the clock.                        *)
LEMMA OthersKeepIInv ==
  ASSUME IInv, UNCHANGED <<caches, attempts>>, up' = up,
         \/ ledger' = ledger /\ now' \in 0..MaxTime
         \/ /\ now' = now
            /\ \E p \in Procs, type \in EventType \ {"AUTHORIZATION_RESOLVED"},
                  r \in Requests \cup {NoRequest} : AppendEvent(p, type, r)
  PROVE  IInv'
  <1>. USE DEF IInv
  <1>1. /\ ledger' \in Seq(Event) /\ Len(ledger') <= MaxLedger
        /\ \A q : Resolutions(q)' = Resolutions(q)
        /\ \A q : \A i \in Resolutions(q) : ledger'[i].by = ledger[i].by
    <2>1. CASE ledger' = ledger
      BY <2>1 DEF TypeOK, Resolutions
    <2>2. CASE \E p \in Procs, type \in EventType \ {"AUTHORIZATION_RESOLVED"},
                  r \in Requests \cup {NoRequest} : AppendEvent(p, type, r)
      <3>1. PICK p \in Procs, type \in EventType \ {"AUTHORIZATION_RESOLVED"},
                 r \in Requests \cup {NoRequest} : AppendEvent(p, type, r)
        BY <2>2
      <3>2. /\ ledger' \in Seq(Event) /\ Len(ledger') <= MaxLedger
            /\ \A q : \A i \in Resolutions(q) :
                 i \in Resolutions(q)' /\ ledger'[i].by = ledger[i].by
            /\ \A q : \A i \in Resolutions(q)' : i \in Resolutions(q)
        BY <3>1, AppendKeeps
      <3>3. ASSUME NEW q PROVE Resolutions(q)' = Resolutions(q)
        <4>1. Resolutions(q) \subseteq Resolutions(q)'
          BY <3>2
        <4>2. Resolutions(q)' \subseteq Resolutions(q)
          BY <3>2
        <4>. QED  BY <4>1, <4>2
      <3>. QED  BY <3>2, <3>3
    <2>. QED  BY <2>1, <2>2
  <1>2. TypeOK' /\ OneHolder' /\ SlotHasOwner'
    BY <1>1 DEF TypeOK, OneHolder, Holds, SlotHasOwner, caches, attempts
  <1>3. GateKnows' /\ CacheIsTrue' /\ ResolvedOnce'
    BY <1>1 DEF GateKnows, CacheIsTrue, ResolvedOnce, caches, attempts
  <1>. QED  BY <1>2, <1>3

LEMMA BeginKeepsIInv ==
  ASSUME IInv, NEW a \in Attempts, NEW r \in Requests, Begin(a, r)
  PROVE  IInv'
  <1>. USE DEF IInv, Begin
  <1>1. Len(ledger) \in 0..MaxLedger
    BY LenProperties, AuthResolverAssumption DEF TypeOK
  <1>2. TypeOK'
    BY <1>1 DEF TypeOK, caches
  <1>3. \A b \in Attempts : /\ pc'[b] = IF b = a THEN "called" ELSE pc[b]
                            /\ request'[b] = IF b = a THEN r ELSE request[b]
    BY DEF TypeOK
  <1>4. OneHolder' /\ SlotHasOwner'
    BY <1>3 DEF OneHolder, Holds, SlotHasOwner, caches
  <1>5. GateKnows' /\ CacheIsTrue' /\ ResolvedOnce'
    BY <1>3 DEF GateKnows, CacheIsTrue, ResolvedOnce, Resolutions, caches
  <1>. QED  BY <1>2, <1>4, <1>5

(* A dropped attempt, with the cache perhaps the wiser.                    *)
LEMMA DropKeepsIInv ==
  ASSUME IInv, NEW a \in Attempts, pc[a] = "called",
         pc' = [pc EXCEPT ![a] = "idle"],
         \/ resolved' = resolved
         \/ /\ Resolutions(request[a]) # {}
            /\ resolved' = [resolved EXCEPT ![ProcOf[a]] = @ \cup {request[a]}],
         UNCHANGED <<ledger, now, up, inFlight, request, tip>>
  PROVE  IInv'
  <1>. USE AuthResolverAssumption DEF IInv
  <1>1. ProcOf[a] \in Procs /\ request[a] \in Requests
    BY DEF OneHolder
  <1>2. \A q \in Procs : resolved'[q] \in SUBSET Requests
    BY <1>1 DEF TypeOK
  <1>3. TypeOK'
    BY <1>1, <1>2 DEF TypeOK
  <1>4. \A b \in Attempts : pc'[b] = IF b = a THEN "idle" ELSE pc[b]
    BY DEF TypeOK
  <1>5. OneHolder' /\ SlotHasOwner'
    BY <1>4 DEF OneHolder, Holds, SlotHasOwner
  <1>6. GateKnows' /\ ResolvedOnce'
    BY <1>4 DEF GateKnows, ResolvedOnce, Resolutions
  <1>7. CacheIsTrue'
    <2>1. \A q \in Procs : \A r \in resolved'[q] :
            r \in resolved[q] \/ (r = request[a] /\ Resolutions(request[a]) # {})
      BY <1>1 DEF TypeOK
    <2>2. \A q \in Procs : \A r \in resolved'[q] : Resolutions(r) # {}
      BY <2>1 DEF CacheIsTrue
    <2>. QED  BY <2>2 DEF CacheIsTrue, Resolutions
  <1>. QED  BY <1>3, <1>5, <1>6, <1>7

(* The gate is passed: the slot was free, so the attempt holds it alone,   *)
(* and the ledger has no resolution.                                       *)
LEMMA GateKeepsIInv ==
  ASSUME IInv, NEW a \in Attempts, pc[a] = "called",
         request[a] \notin inFlight[ProcOf[a]], Resolutions(request[a]) = {},
         inFlight' = [inFlight EXCEPT ![ProcOf[a]] = @ \cup {request[a]}],
         pc' = [pc EXCEPT ![a] = "gated"],
         UNCHANGED <<ledger, now, up, resolved, request, tip>>
  PROVE  IInv'
  <1>. USE AuthResolverAssumption DEF IInv
  <1>1. ProcOf[a] \in Procs /\ request[a] \in Requests
    BY DEF OneHolder
  <1>2. TypeOK'
    BY <1>1 DEF TypeOK
  <1>3. \A b \in Attempts : pc'[b] = IF b = a THEN "gated" ELSE pc[b]
    BY DEF TypeOK
  <1>4. \A q \in Procs :
          inFlight'[q] = IF q = ProcOf[a] THEN inFlight[q] \cup {request[a]} ELSE inFlight[q]
    BY <1>1 DEF TypeOK
  <1>5. OneHolder'
    <2>1. \A b \in Attempts : pc'[b] # "idle" => request'[b] \in Requests
      BY <1>1, <1>3 DEF OneHolder
    <2>2. \A b \in Attempts : Holds(b)' => request'[b] \in inFlight'[ProcOf[b]]
      BY <1>1, <1>3, <1>4 DEF OneHolder, Holds
    <2>3. \A b \in Attempts :
            Holds(b) /\ ProcOf[b] = ProcOf[a] => request[b] # request[a]
      BY DEF OneHolder
    <2>4. ASSUME NEW b \in Attempts, NEW d \in Attempts, Holds(b)', Holds(d)',
                 ProcOf[b] = ProcOf[d], request'[b] = request'[d]
          PROVE  b = d
      BY <1>3, <2>3, <2>4 DEF OneHolder, Holds
    <2>. QED  BY <2>1, <2>2, <2>4 DEF OneHolder
  <1>6. SlotHasOwner'
    BY <1>1, <1>3, <1>4 DEF SlotHasOwner
  <1>7. GateKnows' /\ CacheIsTrue' /\ ResolvedOnce'
    BY <1>3 DEF GateKnows, CacheIsTrue, ResolvedOnce, Resolutions
  <1>. QED  BY <1>2, <1>5, <1>6, <1>7

LEMMA TryResolveKeepsIInv ==
  ASSUME IInv, NEW a \in Attempts, TryResolve(a)
  PROVE  IInv'
  BY DropKeepsIInv, GateKeepsIInv DEF TryResolve, caches

LEMMA WriteKeepsIInv ==
  ASSUME IInv, NEW a \in Attempts, Write(a)
  PROVE  IInv'
  <1>. USE AuthResolverAssumption DEF IInv
  <1>0. /\ pc[a] = "gated" /\ ProcOf[a] \in Procs /\ request[a] \in Requests
        /\ UNCHANGED <<now, up, caches, request, tip>>
    BY DEF Write, OneHolder
  <1>1. CASE pc' = [pc EXCEPT ![a] = "failed"] /\ UNCHANGED ledger
    <2>1. \A b \in Attempts : pc'[b] = IF b = a THEN "failed" ELSE pc[b]
      BY <1>1 DEF TypeOK
    <2>2. TypeOK'
      BY <1>0, <1>1 DEF TypeOK, caches
    <2>3. OneHolder' /\ SlotHasOwner'
      BY <1>0, <2>1 DEF OneHolder, Holds, SlotHasOwner, caches
    <2>4. GateKnows' /\ CacheIsTrue' /\ ResolvedOnce'
      BY <1>0, <1>1, <2>1 DEF GateKnows, CacheIsTrue, ResolvedOnce, Resolutions, caches
    <2>. QED  BY <2>2, <2>3, <2>4
  <1>2. CASE /\ AppendEvent(ProcOf[a], "AUTHORIZATION_RESOLVED", request[a])
             /\ pc' = [pc EXCEPT ![a] = "written"]
    <2>1. \A b \in Attempts : pc'[b] = IF b = a THEN "written" ELSE pc[b]
      BY <1>2 DEF TypeOK
    <2>2. /\ ledger' \in Seq(Event) /\ Len(ledger') <= MaxLedger
          /\ \A q : \A i \in Resolutions(q) :
               i \in Resolutions(q)' /\ ledger'[i].by = ledger[i].by
          /\ \A q : \A i \in Resolutions(q)' :
               \/ i \in Resolutions(q)
               \/ i = Len(ledger) + 1 /\ ledger'[i].by = ProcOf[a] /\ q = request[a]
          /\ Resolutions(request[a])' # {}
      <3>1. "AUTHORIZATION_RESOLVED" \in EventType
        BY DEF EventType
      <3>. QED  BY <1>0, <1>2, <3>1, AppendKeeps
    <2>3. TypeOK'
      BY <1>0, <1>2, <2>2 DEF TypeOK, caches
    <2>4. OneHolder' /\ SlotHasOwner'
      BY <1>0, <2>1 DEF OneHolder, Holds, SlotHasOwner, caches
    <2>5. \A q : Resolutions(q) # {} => Resolutions(q)' # {}
      BY <2>2
    <2>6. CacheIsTrue'
      BY <1>0, <2>5 DEF CacheIsTrue, caches
    <2>7. GateKnows'
      <3>1. ASSUME NEW b \in Attempts, pc'[b] = "gated", NEW i \in Resolutions(request[b])'
            PROVE  ledger'[i].by # ProcOf[b]
        <4>1. b # a /\ pc[b] = "gated"
          BY <2>1, <3>1
        <4>2. ProcOf[b] # ProcOf[a] \/ request[b] # request[a]
          BY <1>0, <4>1 DEF OneHolder, Holds
        <4>3. request' = request
          BY <1>0
        <4>4. CASE i \in Resolutions(request[b])
          BY <2>2, <4>1, <4>4 DEF GateKnows
        <4>. QED  BY <2>2, <3>1, <4>2, <4>3, <4>4
      <3>2. ASSUME NEW b \in Attempts, pc'[b] = "written"
            PROVE  Resolutions(request[b])' # {}
        BY <1>0, <2>1, <2>2, <2>5, <3>2 DEF GateKnows
      <3>3. request' = request
        BY <1>0
      <3>. QED  BY <3>1, <3>2, <3>3 DEF GateKnows
    <2>8. ResolvedOnce'
      <3>1. ASSUME NEW r \in Requests, NEW i \in Resolutions(r)', NEW j \in Resolutions(r)',
                   ledger'[i].by = ledger'[j].by
            PROVE  i = j
        <4>1. CASE i \in Resolutions(r) /\ j \in Resolutions(r)
          BY <2>2, <3>1, <4>1 DEF ResolvedOnce
        <4>2. ASSUME NEW k \in Resolutions(request[a]) PROVE ledger'[k].by # ProcOf[a]
          BY <1>0, <2>2, <4>2 DEF GateKnows
        <4>. QED  BY <2>2, <3>1, <4>1, <4>2
      <3>. QED  BY <3>1 DEF ResolvedOnce
    <2>. QED  BY <2>3, <2>4, <2>6, <2>7, <2>8
  <1>. QED  BY <1>1, <1>2 DEF Write

(* The slot is given back, and a written resolution is remembered.         *)
LEMMA ReleaseKeepsIInv ==
  ASSUME IInv, NEW a \in Attempts, ConfirmResolved(a) \/ AbortResolution(a)
  PROVE  IInv'
  <1>. USE AuthResolverAssumption DEF IInv, ConfirmResolved, AbortResolution
  <1>1. /\ Holds(a) /\ ProcOf[a] \in Procs /\ request[a] \in Requests
        /\ UNCHANGED <<ledger, now, up, request, tip>>
    BY DEF Holds, OneHolder
  <1>2. \A b \in Attempts : pc'[b] = IF b = a THEN "idle" ELSE pc[b]
    BY DEF TypeOK
  <1>3. \A q \in Procs :
          inFlight'[q] = IF q = ProcOf[a] THEN inFlight[q] \ {request[a]} ELSE inFlight[q]
    BY <1>1 DEF TypeOK
  <1>4. \A q \in Procs : \A r \in resolved'[q] :
          r \in resolved[q] \/ (r = request[a] /\ pc[a] = "written")
    <2>1. CASE ConfirmResolved(a)
      <3>1. \A q \in Procs : resolved'[q] = IF q = ProcOf[a] THEN resolved[q] \cup {request[a]}
                                                             ELSE resolved[q]
        BY <1>1, <2>1 DEF TypeOK
      <3>. QED  BY <2>1, <3>1
    <2>2. CASE AbortResolution(a)
      BY <2>2
    <2>. QED  BY <2>1, <2>2
  <1>5. TypeOK'
    <2>1. \A q \in Procs : inFlight'[q] \in SUBSET Requests
      BY <1>3 DEF TypeOK
    <2>2. \A q \in Procs : resolved'[q] \in SUBSET Requests
      BY <1>1, <1>4 DEF TypeOK
    <2>3. inFlight' \in [Procs -> SUBSET Requests] /\ resolved' \in [Procs -> SUBSET Requests]
      BY <2>1, <2>2 DEF TypeOK
    <2>. QED  BY <1>1, <2>3 DEF TypeOK
  <1>6. OneHolder'
    <2>1. \A b \in Attempts : pc'[b] # "idle" => request'[b] \in Requests
      BY <1>1, <1>2 DEF OneHolder
    <2>2. ASSUME NEW b \in Attempts, Holds(b)' PROVE request'[b] \in inFlight'[ProcOf[b]]
      <3>1. b # a /\ Holds(b)
        BY <1>2, <2>2 DEF Holds
      <3>2. request[b] \in inFlight[ProcOf[b]] /\ ProcOf[b] \in Procs
        BY <3>1 DEF OneHolder
      <3>3. ProcOf[b] # ProcOf[a] \/ request[b] # request[a]
        BY <1>1, <3>1 DEF OneHolder
      <3>. QED  BY <1>1, <1>3, <3>2, <3>3
    <2>3. \A b \in Attempts : Holds(b)' => Holds(b)
      BY <1>2 DEF Holds
    <2>. QED  BY <1>1, <2>1, <2>2, <2>3 DEF OneHolder
  <1>7. SlotHasOwner'
    <2>1. ASSUME NEW q \in Procs, NEW r \in inFlight'[q]
          PROVE  \E b \in Attempts : ProcOf[b] = q /\ request'[b] = r /\ Holds(b)'
      <3>1. r \in inFlight[q] /\ (q = ProcOf[a] => r # request[a])
        BY <1>3, <2>1
      <3>2. PICK b \in Attempts : ProcOf[b] = q /\ request[b] = r /\ Holds(b)
        BY <3>1 DEF SlotHasOwner, Holds
      <3>3. b # a
        BY <3>1, <3>2
      <3>. QED  BY <1>1, <1>2, <3>2, <3>3 DEF Holds
    <2>. QED  BY <2>1 DEF SlotHasOwner, Holds
  <1>8. GateKnows' /\ ResolvedOnce'
    BY <1>1, <1>2 DEF GateKnows, ResolvedOnce, Resolutions
  <1>9. CacheIsTrue'
    <2>1. \A q \in Procs : \A r \in resolved'[q] : Resolutions(r) # {}
      BY <1>4 DEF CacheIsTrue, GateKnows
    <2>. QED  BY <1>1, <2>1 DEF CacheIsTrue, Resolutions
  <1>. QED  BY <1>5, <1>6, <1>7, <1>8, <1>9

LEMMA CrashKeepsIInv ==
  ASSUME IInv, NEW p \in Procs, Crash(p)
  PROVE  IInv'
  <1>. USE DEF IInv, Crash
  <1>1. \A b \in Attempts : pc'[b] = IF ProcOf[b] = p THEN "idle" ELSE pc[b]
    OBVIOUS
  <1>2. \A q \in Procs : /\ inFlight'[q] = IF q = p THEN {} ELSE inFlight[q]
                         /\ resolved'[q] = IF q = p THEN {} ELSE resolved[q]
    BY DEF TypeOK
  <1>3. TypeOK'
    <2>1. pc' \in [Attempts -> {"idle", "called", "gated", "written", "failed"}]
      BY DEF TypeOK
    <2>. QED  BY <2>1 DEF TypeOK
  <1>4. OneHolder'
    BY <1>1, <1>2, AuthResolverAssumption DEF OneHolder, Holds
  <1>5. SlotHasOwner'
    BY <1>1, <1>2 DEF SlotHasOwner
  <1>6. GateKnows' /\ ResolvedOnce'
    BY <1>1 DEF GateKnows, ResolvedOnce, Resolutions
  <1>7. CacheIsTrue'
    BY <1>2 DEF CacheIsTrue, Resolutions
  <1>. QED  BY <1>3, <1>4, <1>5, <1>6, <1>7

LEMMA RestartKeepsIInv ==
  ASSUME IInv, NEW p \in Procs, Restart(p)
  PROVE  IInv'
  <1>. USE DEF IInv, Restart
  <1>1. \A q \in Procs : \A r \in resolved'[q] :
          r \in Requests /\ (r \in resolved[q] \/ Resolutions(r) # {})
    BY DEF TypeOK
  <1>2. TypeOK'
    BY DEF TypeOK, attempts
  <1>3. OneHolder' /\ SlotHasOwner'
    BY DEF OneHolder, SlotHasOwner, Holds, attempts
  <1>4. GateKnows' /\ ResolvedOnce'
    BY DEF GateKnows, ResolvedOnce, Resolutions, attempts
  <1>5. CacheIsTrue'
    <2>1. \A q \in Procs : \A r \in resolved'[q] : Resolutions(r) # {}
      BY <1>1 DEF CacheIsTrue
    <2>. QED  BY <2>1 DEF CacheIsTrue, Resolutions
  <1>. QED  BY <1>2, <1>3, <1>4, <1>5

LEMMA NextIInv ==
  ASSUME IInv, [Next]_vars
  PROVE  IInv'
  <1>1. ASSUME NEW p \in Procs, Other(p) PROVE IInv'
    <2>1. "OTHER" \in EventType \ {"AUTHORIZATION_RESOLVED"}
      BY DEF EventType
    <2>. QED  BY <1>1, <2>1, OthersKeepIInv DEF Other
  <1>2. ASSUME NEW p \in Procs, NEW r \in Requests, Ask(p, r) PROVE IInv'
    <2>1. "AUTHORIZATION_REQUESTED" \in EventType \ {"AUTHORIZATION_RESOLVED"}
      BY DEF EventType
    <2>. QED  BY <1>2, <2>1, OthersKeepIInv DEF Ask
  <1>3. CASE Tick
    <2>1. now' \in 0..MaxTime
      BY <1>3, AuthResolverAssumption DEF Tick, IInv, TypeOK
    <2>. QED  BY <1>3, <2>1, OthersKeepIInv DEF Tick
  <1>4. ASSUME NEW a \in Attempts, NEW r \in Requests, Begin(a, r) PROVE IInv'
    BY <1>4, BeginKeepsIInv
  <1>5. ASSUME NEW a \in Attempts, Step(a) PROVE IInv'
    BY <1>5, TryResolveKeepsIInv, WriteKeepsIInv, ReleaseKeepsIInv DEF Step
  <1>6. ASSUME NEW p \in Procs, Crash(p) \/ Restart(p) PROVE IInv'
    BY <1>6, CrashKeepsIInv, RestartKeepsIInv
  <1>7. CASE UNCHANGED vars
    BY <1>7, OthersKeepIInv DEF vars, caches, attempts, IInv, TypeOK
  <1>. QED  BY <1>1, <1>2, <1>3, <1>4, <1>5, <1>6, <1>7 DEF Next

(* For any number of processes and resolvers, with crashes and failed      *)
(* writes at any point: the cache of a process agrees with the ledger, and *)
(* every reserved slot has the attempt that will release it.               *)
THEOREM ResolverInvariant == Spec => [](TypeOK /\ CacheIsTrue /\ SlotHasOwner)
  <1>1. IInv => TypeOK /\ CacheIsTrue /\ SlotHasOwner
    BY DEF IInv
  <1>. QED  BY <1>1, InitIInv, NextIInv, PTL DEF Spec

(* A process writes at most one resolution of a request, however many of   *)
(* its attempts race and however often it is restarted.                    *)
THEOREM ExactlyOnce == Spec => []ResolvedOnce
  <1>1. IInv => ResolvedOnce
    BY DEF IInv
  <1>. QED  BY <1>1, InitIInv, NextIInv, PTL DEF Spec
=============================================================================
