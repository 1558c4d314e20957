--------------------------- MODULE ServicesProofs ---------------------------
(* Theorems about the services and the monitors: for each part an          *)
(* invariant that its steps keep, whatever the values of the constants.    *)
(* The parts share no variable, so that a step of the composition is a     *)
(* step of a part or leaves the variables of that part alone.              *)
EXTENDS Services, SequenceTheorems, WellFoundedInduction, TLAPS

LEMMA PartSteps ==
  ASSUME [Next]_services
  PROVE  /\ Files!Next \/ UNCHANGED files
         /\ System!Next \/ UNCHANGED system
         /\ Engine!Next \/ UNCHANGED engine
         /\ Infer!Next \/ UNCHANGED inference
         /\ Set!Next \/ UNCHANGED settings
         /\ Server!Next \/ UNCHANGED ollama
         /\ Filter!Next \/ UNCHANGED seccomp
         /\ Tool!Next \/ UNCHANGED sandbox
         /\ Python!Next \/ UNCHANGED python
         /\ Wade!Next \/ UNCHANGED daemon
<1>1. CASE Move
  BY <1>1, Zenon DEF Next, services, Move, monitors
<1>2. CASE Next /\ ~Move
  BY <1>2, Zenon DEF Next, monitors
<1>3. CASE UNCHANGED services
  BY <1>3, Zenon DEF services, monitors
<1>. QED
  BY <1>1, <1>2, <1>3

-----------------------------------------------------------------------------
(* The interpreter behind run_python: the pipes hold what the call that    *)
(* reads has sent and not read yet, and nothing when no call reads.        *)
PyPipes(c) ==
  \/ stdin = <<c>> /\ stdout = <<>> /\ output[c] = <<>>
  \/ stdin = <<>> /\ stdout = <<Python!Text(c), Python!Marker(c)>> /\ output[c] = <<>>
  \/ stdin = <<>> /\ stdout = <<Python!Marker(c)>> /\ output[c] = <<Python!Text(c)>>
  \/ stdin = <<>> /\ stdout = <<>>

PyInv ==
  /\ pyAt \in [Calls -> {"idle", "waiting", "reading", "done"}]
  /\ DOMAIN output = Calls
  /\ \A c, d \in Calls : pyAt[c] = "reading" /\ pyAt[d] = "reading" => c = d
  /\ Python!Locked \/ (stdin = <<>> /\ stdout = <<>>)
  /\ \A c \in Calls : /\ pyAt[c] \in {"idle", "waiting"} => output[c] = <<>>
                      /\ pyAt[c] = "reading" => PyPipes(c)
  /\ OwnAnswer

LEMMA PyInit == Python!Init => PyInv
  BY DEF Python!Init, PyInv, OwnAnswer, Python!OwnAnswer, PyPipes

LEMMA PyStep ==
  ASSUME PyInv, Python!Next
  PROVE  PyInv'
<1>. USE DEF PyInv, OwnAnswer, Python!OwnAnswer, Python!Locked
<1>1. ASSUME NEW c \in Calls, Python!Execute(c)
      PROVE  PyInv'
  BY <1>1 DEF Python!Execute, Python!StartProcess, PyPipes
<1>2. ASSUME NEW c \in Calls, Python!Write(c)
      PROVE  PyInv'
  <2>1. stdin = <<>> /\ stdout = <<>> /\ output[c] = <<>> /\ pyAt[c] = "waiting"
    BY <1>2 DEF Python!Write
  <2>2. stdin' = <<c>>
    BY <1>2, <2>1 DEF Python!Write
  <2>. QED
    BY <1>2, <2>1, <2>2 DEF Python!Write, PyPipes
<1>3. ASSUME NEW c \in Calls, Python!WriteFails(c)
      PROVE  PyInv'
  BY <1>3 DEF Python!WriteFails, Python!StartProcess, PyPipes
<1>4. ASSUME NEW c \in Calls, Python!ReadLine(c)
      PROVE  PyInv'
  <2>1. pyAt[c] = "reading" /\ stdout # <<>> /\ stdin' = stdin /\ stdout' = Tail(stdout)
    BY <1>4 DEF Python!ReadLine
  <2>0. PyPipes(c)
    BY <2>1
  <2>2. CASE stdout = <<Python!Text(c), Python!Marker(c)>> /\ stdin = <<>> /\ output[c] = <<>>
    <3>1. Head(stdout) = Python!Text(c) /\ Python!Text(c) # Python!Marker(c)
      BY <2>2 DEF Python!Text, Python!Marker
    <3>2. stdout' = <<Python!Marker(c)>>
      BY <2>1, <2>2
    <3>3. pyAt' = pyAt /\ output' = [output EXCEPT ![c] = <<Python!Text(c)>>]
      BY <1>4, <2>2, <3>1 DEF Python!ReadLine
    <3>. QED
      BY <1>4, <2>1, <2>2, <3>2, <3>3 DEF Python!ReadLine, PyPipes
  <2>3. CASE stdout = <<Python!Marker(c)>> /\ stdin = <<>> /\ output[c] = <<Python!Text(c)>>
    <3>1. stdout' = <<>> /\ Head(stdout) = Python!Marker(c)
      BY <2>1, <2>3
    <3>2. pyAt' = [pyAt EXCEPT ![c] = "done"] /\ output' = output
      BY <1>4, <3>1 DEF Python!ReadLine
    <3>. QED
      BY <1>4, <2>1, <2>3, <3>1, <3>2 DEF Python!ReadLine, PyPipes
  <2>. QED
    BY <2>0, <2>1, <2>2, <2>3 DEF PyPipes
<1>5. ASSUME NEW c \in Calls, Python!TimeOut(c)
      PROVE  PyInv'
  BY <1>5 DEF Python!TimeOut, Python!StartProcess, PyPipes
<1>6. ASSUME Python!Run
      PROVE  PyInv'
  <2>1. PICK c \in Calls : pyAt[c] = "reading"
    BY <1>6 DEF Python!Run
  <2>2. stdin = <<c>> /\ stdout = <<>> /\ output[c] = <<>>
    BY <1>6, <2>1 DEF Python!Run, PyPipes
  <2>3. Head(stdin) = c /\ Tail(stdin) = <<>>
    BY <2>2
  <2>4. stdin' = <<>> /\ stdout' = <<Python!Text(c), Python!Marker(c)>>
    BY <1>6, <2>2, <2>3 DEF Python!Run
  <2>. QED
    BY <1>6, <2>1, <2>2, <2>4 DEF Python!Run, PyPipes
<1>7. ASSUME Python!Dies
      PROVE  PyInv'
  BY <1>7 DEF Python!Dies, PyPipes
<1>. QED
  BY <1>1, <1>2, <1>3, <1>4, <1>5, <1>6, <1>7 DEF Python!Next

LEMMA PyRests == PyInv /\ UNCHANGED python => PyInv'
  BY DEF PyInv, python, OwnAnswer, Python!OwnAnswer, Python!Locked, PyPipes

(* Whatever times out, exits or is replaced, a run_python call that is     *)
(* answered without an error has what its own code printed (runner.py).    *)
THEOREM RunnerAnswersOwn == Spec => []OwnAnswer
<1>1. Init => PyInv
  BY PyInit DEF Init, ServicesAtRest
<1>2. PyInv /\ [Next]_services => PyInv'
  BY PartSteps, PyStep, PyRests
<1>3. PyInv => OwnAnswer
  BY DEF PyInv
<1>. QED
  BY <1>1, <1>2, <1>3, PTL DEF Spec

-----------------------------------------------------------------------------
(* The model server: unless callers met or the gateway was killed, one     *)
(* caller at most is in the manager, and no server of the gateway holds    *)
(* the port while a caller probes it.                                      *)
Absent == {"off", "idle"}

SvTypes ==
  /\ spawns \in 0 .. MaxSpawns
  /\ port \in 0 .. MaxSpawns + 1
  /\ _process \in 0 .. MaxSpawns
  /\ callers \in [Callers -> {"off", "idle", "probing", "waiting"}]
  /\ disturbed \in BOOLEAN

SvAlone ==
  /\ callers[Lifespan] = "off" => \A c \in Callers \ {Lifespan} : callers[c] = "idle"
  /\ \A c \in Callers \ {Lifespan} : callers[c] # "off"
  /\ ~disturbed => \A c, d \in Callers : callers[c] \in Absent \/ callers[d] \in Absent \/ c = d

SvProbed ==
  ~disturbed =>
    \A c \in Callers : callers[c] \in {"off", "probing"} => port \notin 1 .. MaxSpawns

SvInv == SvTypes /\ SvAlone /\ SvProbed /\ ServerIsHeld

LEMMA SvInit == Server!Init => SvInv
<1>. SUFFICES ASSUME Server!Init PROVE SvInv
  OBVIOUS
<1>1. port \in {0, MaxSpawns + 1} /\ port \notin 1 .. MaxSpawns
  BY ServicesAssumption DEF Server!Init, Server!Free, Server!Foreign
<1>2. SvTypes
  <2>1. spawns \in 0 .. MaxSpawns /\ port \in 0 .. MaxSpawns + 1 /\ _process \in 0 .. MaxSpawns
    BY <1>1, ServicesAssumption DEF Server!Init
  <2>2. callers \in [Callers -> {"off", "idle", "probing", "waiting"}]
    BY DEF Server!Init, Server!Down
  <2>3. disturbed \in BOOLEAN
    BY Zenon DEF Server!Init
  <2>. QED
    BY <2>1, <2>2, <2>3 DEF SvTypes
<1>3. SvAlone
  BY ServicesAssumption DEF Server!Init, Server!Down, SvAlone, Absent
<1>. QED
  BY <1>1, <1>2, <1>3 DEF SvInv, SvProbed, ServerIsHeld, Server!ServerIsHeld

LEMMA SvStopped ==
  ASSUME SvInv, Server!Stopped
  PROVE  /\ port' \in 0 .. MaxSpawns + 1 /\ _process' \in 0 .. MaxSpawns
         /\ ~disturbed => port' \notin 1 .. MaxSpawns
  BY ServicesAssumption DEF SvInv, SvTypes, Server!Stopped, Server!Free, ServerIsHeld,
     Server!ServerIsHeld

LEMMA SvStep ==
  ASSUME SvInv, Server!Next
  PROVE  SvInv'
<1>. USE ServicesAssumption DEF SvInv, SvTypes, SvAlone, SvProbed, ServerIsHeld,
         Server!ServerIsHeld, Absent
<1>1. ASSUME NEW c \in Callers, Server!Restart(c)
      PROVE  SvInv'
  BY <1>1, SvStopped DEF Server!Restart
<1>2. ASSUME NEW c \in Callers, Server!AlreadyRunning(c)
      PROVE  SvInv'
  BY <1>2 DEF Server!AlreadyRunning
<1>3. ASSUME NEW c \in Callers, Server!Spawn(c)
      PROVE  SvInv'
  BY <1>3 DEF Server!Spawn, Server!Free
<1>4. ASSUME NEW c \in Callers, Server!NotFound(c)
      PROVE  SvInv'
  BY <1>4 DEF Server!NotFound
<1>5. ASSUME NEW c \in Callers, Server!Waited(c)
      PROVE  SvInv'
  BY <1>5 DEF Server!Waited
<1>6. ASSUME Server!EnsureRunning
      PROVE  SvInv'
  BY <1>6 DEF Server!EnsureRunning
<1>7. ASSUME Server!Shutdown
      PROVE  SvInv'
  BY <1>7, SvStopped DEF Server!Shutdown, Server!Down
<1>8. ASSUME Server!Crash
      PROVE  SvInv'
  BY <1>8 DEF Server!Crash, Server!Down
<1>9. ASSUME Server!BecomesReady \/ Server!Dies \/ Server!UserStarts
      PROVE  SvInv'
  BY <1>9 DEF Server!BecomesReady, Server!Dies, Server!UserStarts, Server!Free, Server!Foreign
<1>. QED
  BY <1>1, <1>2, <1>3, <1>4, <1>5, <1>6, <1>7, <1>8, <1>9 DEF Server!Next

LEMMA SvRests == SvInv /\ UNCHANGED ollama => SvInv'
  BY DEF SvInv, SvTypes, SvAlone, SvProbed, ServerIsHeld, Server!ServerIsHeld, Absent, ollama

(* The model server that holds the port and that the gateway started is    *)
(* the one its manager holds, as long as no two callers meet in the        *)
(* manager and the gateway is not killed (ollama_manager.py).              *)
THEOREM ManagerHoldsServer == Spec => []ServerIsHeld
<1>1. Init => SvInv
  BY SvInit DEF Init, ServicesAtRest
<1>2. SvInv /\ [Next]_services => SvInv'
  BY PartSteps, SvStep, SvRests
<1>3. SvInv => ServerIsHeld
  BY DEF SvInv
<1>. QED
  BY <1>1, <1>2, <1>3, PTL DEF Spec

-----------------------------------------------------------------------------
(* The monitors of files: the last change of a file is the last of its     *)
(* entries in the queue, or the type its task waits with, or reported.     *)
FmChange == [path : Paths, type : {"created", "modified"}]

FmTypes ==
  /\ queue \in Seq(FmChange)
  /\ debounce \in [Paths -> [type : {"none", "created", "modified"}, due : BOOLEAN]]
  /\ seen \in [Paths -> {"none", "created", "modified"}]
  /\ reported \in [Paths -> {"none", "created", "modified"}]
  /\ \A p \in Paths : debounce[p].due => debounce[p].type # "none"

FmOnWay(p) ==
  \E i \in 1 .. Len(queue) :
    /\ queue[i].path = p /\ queue[i].type = seen[p]
    /\ \A j \in i + 1 .. Len(queue) : queue[j].path # p

FmUnqueued(p) == \A i \in 1 .. Len(queue) : queue[i].path # p

FmWaits(p) == FmUnqueued(p) /\ debounce[p].type = seen[p] /\ seen[p] # "none"

FmTold(p) == FmUnqueued(p) /\ debounce[p].type = "none" /\ reported[p] = seen[p]

FmLogs ==
  /\ logQueue \in Seq(Paths) /\ DOMAIN builds = Paths /\ DOMAIN log = Paths
  /\ \A p \in Paths : \/ builds[p] = log[p] \/ p \in unread
                     \/ \E i \in 1 .. Len(logQueue) : logQueue[i] = p

FmInv ==
  /\ FmTypes
  /\ \A p \in Paths : FmOnWay(p) \/ FmWaits(p) \/ FmTold(p)
  /\ FmLogs

LEMMA FmInit == Files!Init => FmInv
<1>. SUFFICES ASSUME Files!Init PROVE FmInv
  OBVIOUS
<1>1. queue = <<>> /\ Len(queue) = 0 /\ logQueue = <<>>
  BY DEF Files!Init
<1>2. debounce = [p \in Paths |-> [type |-> "none", due |-> FALSE]]
  BY DEF Files!Init, Files!Idle
<1>3. /\ debounce \in [Paths -> [type : {"none", "created", "modified"}, due : BOOLEAN]]
      /\ \A p \in Paths : debounce[p].type = "none" /\ ~debounce[p].due
  BY <1>2
<1>4. /\ seen = [p \in Paths |-> "none"] /\ reported = [p \in Paths |-> "none"]
  BY DEF Files!Init
<1>6. /\ seen \in [Paths -> {"none", "created", "modified"}]
      /\ reported \in [Paths -> {"none", "created", "modified"}]
      /\ \A p \in Paths : reported[p] = seen[p]
  BY <1>4
<1>7. queue \in Seq(FmChange)
  BY <1>1
<1>8. FmTypes
  BY <1>3, <1>6, <1>7, Zenon DEF FmTypes
<1>9. \A p \in Paths : FmTold(p)
  <2>1. \A p \in Paths : FmUnqueued(p)
    BY <1>1 DEF FmUnqueued
  <2>. QED
    BY <1>3, <1>6, <2>1, Zenon DEF FmTold
<1>5. FmLogs
  BY <1>1 DEF Files!Init, FmLogs
<1>. QED
  BY <1>5, <1>8, <1>9 DEF FmInv

LEMMA FmAppended ==
  ASSUME FmInv, NEW p \in Paths, NEW type \in {"created", "modified"},
         queue' = Append(queue, [path |-> p, type |-> type]),
         seen' = [seen EXCEPT ![p] = type], UNCHANGED <<debounce, reported>>
  PROVE  FmTypes' /\ \A q \in Paths : (FmOnWay(q) \/ FmWaits(q) \/ FmTold(q))'
<1>1. FmTypes
  BY DEF FmInv
<1>. DEFINE e == [path |-> p, type |-> type]
            n == Len(queue)
<1>2. e \in FmChange /\ e.path = p /\ e.type = type
  BY DEF FmChange
<1>3. /\ queue' \in Seq(FmChange) /\ n \in Nat /\ Len(queue') = n + 1 /\ queue'[n + 1] = e
      /\ \A i \in 1 .. n : queue'[i] = queue[i]
  BY <1>1, <1>2, AppendProperties, LenProperties DEF FmTypes
<1>4. \A i \in 1 .. n + 1 : i \in 1 .. n \/ i = n + 1
  BY <1>3
<1>. HIDE DEF e, n
<1>5. FmTypes'
  BY <1>1, <1>3 DEF FmTypes
<1>6. seen'[p] = type /\ \A q \in Paths \ {p} : seen'[q] = seen[q]
  BY <1>1 DEF FmTypes
<1>7. FmOnWay(p)'
  <2>1. n + 1 \in 1 .. Len(queue') /\ \A j \in n + 1 + 1 .. Len(queue') : FALSE
    BY <1>3
  <2>. QED
    BY <1>2, <1>3, <1>6, <2>1 DEF FmOnWay
<1>8. ASSUME NEW q \in Paths \ {p} PROVE (FmOnWay(q) \/ FmWaits(q) \/ FmTold(q))'
  <2>1. queue'[n + 1].path # q
    BY <1>2, <1>3
  <2>2. CASE FmOnWay(q)
    <3>1. PICK i \in 1 .. n : /\ queue[i].path = q /\ queue[i].type = seen[q]
                              /\ \A j \in i + 1 .. n : queue[j].path # q
      BY <2>2 DEF FmOnWay, n
    <3>2. i \in 1 .. n + 1 /\ queue'[i].path = q /\ queue'[i].type = seen'[q]
      BY <1>3, <1>6, <3>1
    <3>3. \A j \in i + 1 .. n + 1 : queue'[j].path # q
      <4>1. \A j \in i + 1 .. n + 1 : (j \in i + 1 .. n /\ j \in 1 .. n) \/ j = n + 1
        BY <1>3, <3>1
      <4>. QED
        BY <1>3, <2>1, <3>1, <4>1
    <3>. QED
      BY <1>3, <3>2, <3>3 DEF FmOnWay
  <2>3. FmUnqueued(q) => FmUnqueued(q)'
    BY <1>3, <1>4, <2>1 DEF FmUnqueued, n
  <2>. QED
    BY <1>6, <2>2, <2>3 DEF FmInv, FmWaits, FmTold
<1>. QED
  BY <1>5, <1>7, <1>8

LEMMA FmTaken ==
  ASSUME FmInv, Files!ScheduleDebounced
  PROVE  FmTypes' /\ \A q \in Paths : (FmOnWay(q) \/ FmWaits(q) \/ FmTold(q))'
<1>1. FmTypes
  BY DEF FmInv
<1>. DEFINE n == Len(queue)
<1>2. PICK h \in FmChange :
        /\ queue # <<>> /\ queue' = Tail(queue) /\ h = queue[1]
        /\ debounce' = [debounce EXCEPT ![h.path] = [type |-> h.type, due |-> FALSE]]
        /\ UNCHANGED <<seen, reported>>
  <2>1. queue # <<>> /\ Head(queue) \in FmChange /\ Head(queue) = queue[1]
    BY <1>1, HeadTailProperties DEF FmTypes, Files!ScheduleDebounced
  <2>. QED
    BY <2>1 DEF Files!ScheduleDebounced
<1>3. /\ n \in Nat \ {0} /\ queue' \in Seq(FmChange) /\ Len(queue') = n - 1
      /\ \A i \in 1 .. n - 1 : queue'[i] = queue[i + 1]
  BY <1>1, <1>2, EmptySeq, HeadTailProperties DEF FmTypes
<1>4. h.path \in Paths /\ h.type \in {"created", "modified"}
  BY DEF FmChange
<1>5. /\ debounce'[h.path] = [type |-> h.type, due |-> FALSE]
      /\ \A q \in Paths : q # h.path => debounce'[q] = debounce[q]
  BY <1>1, <1>2, <1>4 DEF FmTypes
<1>6. debounce' \in [Paths -> [type : {"none", "created", "modified"}, due : BOOLEAN]]
  BY <1>1, <1>2, <1>4 DEF FmTypes
<1>7. FmTypes'
  BY <1>1, <1>2, <1>3, <1>4, <1>5, <1>6 DEF FmTypes
<1>. HIDE DEF n
<1>8. ASSUME NEW q \in Paths PROVE (FmOnWay(q) \/ FmWaits(q) \/ FmTold(q))'
  <2>1. FmUnqueued(q) => FmUnqueued(q)' /\ q # h.path
    <3>1. \A i \in 1 .. n - 1 : i + 1 \in 1 .. n
      BY <1>3
    <3>2. 1 \in 1 .. n
      BY <1>3
    <3>. QED
      BY <1>2, <1>3, <3>1, <3>2 DEF FmUnqueued, n
  <2>2. CASE FmWaits(q) \/ FmTold(q)
    BY <1>2, <1>5, <2>1, <2>2 DEF FmWaits, FmTold
  <2>3. CASE FmOnWay(q)
    <3>1. PICK i \in 1 .. n : /\ queue[i].path = q /\ queue[i].type = seen[q]
                              /\ \A j \in i + 1 .. n : queue[j].path # q
      BY <2>3 DEF FmOnWay, n
    <3>2. CASE i = 1
      <4>1. \A j \in 1 .. n - 1 : j + 1 \in i + 1 .. n
        BY <1>3, <3>2
      <4>2. FmUnqueued(q)'
        BY <1>3, <3>1, <4>1 DEF FmUnqueued
      <4>3. h.path = q /\ h.type = seen'[q] /\ seen'[q] # "none"
        BY <1>2, <1>4, <3>1, <3>2
      <4>. QED
        BY <1>5, <4>2, <4>3 DEF FmWaits
    <3>3. CASE i # 1
      <4>1. i - 1 \in 1 .. n - 1 /\ queue'[i - 1] = queue[i]
        BY <1>3, <3>1, <3>3
      <4>2. \A j \in (i - 1) + 1 .. n - 1 : queue'[j].path # q
        <5>1. \A j \in (i - 1) + 1 .. n - 1 : j \in 1 .. n - 1 /\ j + 1 \in i + 1 .. n
          BY <1>3, <3>1, <3>3
        <5>. QED
          BY <1>3, <3>1, <5>1
      <4>. QED
        BY <1>2, <1>3, <3>1, <4>1, <4>2 DEF FmOnWay
    <3>. QED
      BY <3>2, <3>3
  <2>. QED
    BY <2>2, <2>3 DEF FmInv
<1>. QED
  BY <1>7, <1>8

LEMMA FmStep ==
  ASSUME FmInv, Files!Next
  PROVE  FmInv'
<1>. DEFINE logs == <<log, logQueue, builds, unread>>
            watched == <<queue, debounce, seen, reported>>
<1>1. ASSUME UNCHANGED logs PROVE FmLogs'
  BY <1>1 DEF FmInv, FmLogs
<1>2. ASSUME UNCHANGED watched
      PROVE  FmTypes' /\ \A p \in Paths : (FmOnWay(p) \/ FmWaits(p) \/ FmTold(p))'
  BY <1>2 DEF FmInv, FmTypes, FmOnWay, FmWaits, FmTold, FmUnqueued
<1>3. ASSUME \/ Files!Start \/ Files!End
             \/ \E dir \in Files!Dirs : Files!ChangeWatchDir(dir)
      PROVE  FmInv'
  BY <1>1, <1>2, <1>3 DEF Files!Start, Files!End, Files!ChangeWatchDir, Files!logs, FmInv
<1>4. ASSUME NEW p \in Paths, NEW type \in {"created", "modified"}, Files!Change(p, type)
      PROVE  FmInv'
  BY <1>1, <1>4, FmAppended DEF Files!Change, Files!logs, FmInv
<1>5. ASSUME Files!ScheduleDebounced
      PROVE  FmInv'
  BY <1>1, <1>5, FmTaken DEF Files!ScheduleDebounced, Files!logs, FmInv
<1>6. ASSUME NEW p \in Paths, Files!Settle(p)
      PROVE  FmInv'
  <2>1. /\ debounce[p].type # "none" /\ debounce' = [debounce EXCEPT ![p].due = TRUE]
        /\ UNCHANGED <<queue, seen, reported, log, logQueue, builds, unread>>
    BY <1>6 DEF Files!Settle, Files!logs
  <2>2. /\ debounce' \in [Paths -> [type : {"none", "created", "modified"}, due : BOOLEAN]]
        /\ \A q \in Paths : debounce'[q].type = debounce[q].type
        /\ \A q \in Paths \ {p} : debounce'[q] = debounce[q]
    BY <2>1 DEF FmInv, FmTypes
  <2>3. FmTypes'
    BY <2>1, <2>2 DEF FmInv, FmTypes
  <2>4. ASSUME NEW q \in Paths PROVE (FmOnWay(q) \/ FmWaits(q) \/ FmTold(q))'
    BY <2>1, <2>2 DEF FmInv, FmOnWay, FmWaits, FmTold, FmUnqueued
  <2>. QED
    BY <1>1, <2>1, <2>3, <2>4 DEF FmInv
<1>7. ASSUME NEW p \in Paths, Files!DelayedEmit(p)
      PROVE  FmInv'
  <2>1. /\ debounce[p].due /\ debounce' = [debounce EXCEPT ![p] = [type |-> "none", due |-> FALSE]]
        /\ reported' = [reported EXCEPT ![p] = debounce[p].type]
        /\ UNCHANGED <<queue, seen, log, logQueue, builds, unread>>
    BY <1>7 DEF Files!DelayedEmit, Files!Idle, Files!logs
  <2>2. /\ debounce' \in [Paths -> [type : {"none", "created", "modified"}, due : BOOLEAN]]
        /\ debounce'[p].type = "none" /\ ~debounce'[p].due
        /\ \A q \in Paths \ {p} : debounce'[q] = debounce[q]
    BY <2>1 DEF FmInv, FmTypes
  <2>3. /\ reported' \in [Paths -> {"none", "created", "modified"}]
        /\ reported'[p] = debounce[p].type /\ debounce[p].type # "none"
        /\ \A q \in Paths \ {p} : reported'[q] = reported[q]
    BY <2>1 DEF FmInv, FmTypes
  <2>4. FmTypes'
    BY <2>1, <2>2, <2>3 DEF FmInv, FmTypes
  <2>5. ASSUME NEW q \in Paths PROVE (FmOnWay(q) \/ FmWaits(q) \/ FmTold(q))'
    <3>1. FmOnWay(q) => FmOnWay(q)'
      BY <2>1 DEF FmOnWay
    <3>2. FmUnqueued(q) => FmUnqueued(q)'
      BY <2>1 DEF FmUnqueued
    <3>3. CASE q = p
      BY <2>1, <2>2, <2>3, <3>1, <3>2, <3>3 DEF FmInv, FmWaits, FmTold
    <3>4. CASE q # p
      BY <2>1, <2>2, <2>3, <3>1, <3>2, <3>4 DEF FmInv, FmWaits, FmTold
    <3>. QED
      BY <3>3, <3>4
  <2>. QED
    BY <1>1, <2>1, <2>4, <2>5 DEF FmInv
<1>8. ASSUME NEW p \in Paths, NEW tail \in {"clean", "error"}, Files!WriteLog(p, tail)
      PROVE  FmInv'
  <2>1. /\ log' = [log EXCEPT ![p] = tail] /\ logQueue' = Append(logQueue, p)
        /\ UNCHANGED <<builds, unread, queue, debounce, seen, reported>>
    BY <1>8 DEF Files!WriteLog, Files!files
  <2>2. /\ logQueue' \in Seq(Paths) /\ Len(logQueue') = Len(logQueue) + 1 /\ Len(logQueue) \in Nat
        /\ logQueue'[Len(logQueue) + 1] = p
        /\ \A i \in 1 .. Len(logQueue) : i \in 1 .. Len(logQueue') /\ logQueue'[i] = logQueue[i]
    BY <2>1, AppendProperties, LenProperties DEF FmInv, FmLogs
  <2>3. Len(logQueue) + 1 \in 1 .. Len(logQueue')
    BY <2>2
  <2>4. FmLogs'
    BY <2>1, <2>2, <2>3 DEF FmInv, FmLogs
  <2>. QED
    BY <1>2, <2>1, <2>4 DEF FmInv
<1>9. ASSUME Files!ProcessLog \/ Files!ReadFails
      PROVE  FmInv'
  <2>1. PICK p \in Paths :
          /\ logQueue # <<>> /\ p = logQueue[1] /\ logQueue' = Tail(logQueue) /\ log' = log
          /\ \/ builds' = [builds EXCEPT ![p] = log[p]] /\ unread' = unread \ {p}
             \/ builds' = builds /\ unread' = unread \cup {p}
          /\ UNCHANGED <<queue, debounce, seen, reported>>
    <3>1. logQueue # <<>> /\ Head(logQueue) \in Paths /\ Head(logQueue) = logQueue[1]
      BY <1>9, HeadTailProperties DEF FmInv, FmLogs, Files!ProcessLog, Files!ReadFails
    <3>. QED
      BY <1>9, <3>1 DEF Files!ProcessLog, Files!ReadFails, Files!files
  <2>2. /\ logQueue' \in Seq(Paths) /\ Len(logQueue) \in Nat \ {0}
        /\ Len(logQueue') = Len(logQueue) - 1
        /\ \A i \in 1 .. Len(logQueue) - 1 : logQueue'[i] = logQueue[i + 1]
    BY <2>1, EmptySeq, HeadTailProperties DEF FmInv, FmLogs
  <2>3. \A i \in 1 .. Len(logQueue) :
          i # 1 => i - 1 \in 1 .. Len(logQueue') /\ logQueue'[i - 1] = logQueue[i]
    BY <2>2
  <2>4. DOMAIN builds' = Paths /\ (builds'[p] = log'[p] \/ p \in unread')
    BY <2>1 DEF FmInv, FmLogs
  <2>5. ASSUME NEW q \in Paths \ {p}
        PROVE  \/ builds'[q] = log'[q] \/ q \in unread'
               \/ \E i \in 1 .. Len(logQueue') : logQueue'[i] = q
    <3>1. builds'[q] = builds[q] /\ log'[q] = log[q] /\ (q \in unread => q \in unread')
      BY <2>1, <2>5 DEF FmInv, FmLogs
    <3>2. CASE builds[q] = log[q] \/ q \in unread
      BY <3>1, <3>2
    <3>3. CASE \E i \in 1 .. Len(logQueue) : logQueue[i] = q
      BY <2>1, <2>3, <2>5, <3>3
    <3>. QED
      BY <3>2, <3>3 DEF FmInv, FmLogs
  <2>6. FmLogs'
    BY <2>1, <2>2, <2>4, <2>5 DEF FmInv, FmLogs
  <2>. QED
    BY <1>2, <2>1, <2>6 DEF FmInv
<1>. QED
  BY <1>3, <1>4, <1>5, <1>6, <1>7, <1>8, <1>9 DEF Files!Next

LEMMA FmRests == FmInv /\ UNCHANGED files => FmInv'
  BY DEF FmInv, FmTypes, FmOnWay, FmWaits, FmTold, FmUnqueued, FmLogs, files

LEMMA FmNoticed ==
  ASSUME FmInv
  PROVE  ChangesNoticed
<1>1. /\ DOMAIN queue = 1 .. Len(queue) /\ DOMAIN logQueue = 1 .. Len(logQueue)
  BY LenProperties DEF FmInv, FmTypes, FmLogs
<1>2. Files!LastChangeKept
  BY <1>1 DEF FmInv, FmOnWay, FmWaits, FmTold, Files!LastChangeKept, Files!Queued
<1>3. Files!LogErrorsNoticed
  BY <1>1 DEF FmInv, FmLogs, Files!LogErrorsNoticed, Files!ToSet
<1>. QED
  BY <1>2, <1>3 DEF ChangesNoticed, Files!ChangesNoticed

(* The last change of every file is on its way or reported, and so are the *)
(* errors of every log whose last reading did not fail, for any number of  *)
(* files (filesystem.py, build_logs.py).                                   *)
THEOREM NoChangeMissed == Spec => []ChangesNoticed
<1>1. Init => FmInv
  BY FmInit DEF Init, AtRest
<1>2. FmInv /\ [Next]_services => FmInv'
  BY PartSteps, FmStep, FmRests
<1>. QED
  BY <1>1, <1>2, FmNoticed, PTL DEF Spec

-----------------------------------------------------------------------------
(* The monitor of the load: during an overload nothing was warned of, and  *)
(* after it the mark accounts for the last of two warnings.                *)
SyInv ==
  /\ breached \in BOOLEAN /\ trendWarned \in BOOLEAN
  /\ told \in [alarms : Nat, warnings : Nat]
  /\ breached => told.warnings = 0 /\ ~trendWarned
  /\ told.warnings <= IF trendWarned THEN 2 ELSE 1
  /\ AlarmsCounted

LEMMA SyInit == System!Init => SyInv
<1>. SUFFICES ASSUME System!Init PROVE SyInv
  OBVIOUS
<1>1. breached \in BOOLEAN /\ trendWarned \in BOOLEAN /\ ~breached /\ ~trendWarned
  BY Zenon DEF System!Init
<1>2. told \in [alarms : Nat, warnings : Nat] /\ told.alarms = 0 /\ told.warnings = 0
  BY DEF System!Init
<1>. QED
  BY <1>1, <1>2 DEF SyInv, AlarmsCounted, System!AlarmsCounted

LEMMA SyStep ==
  ASSUME SyInv, System!Next
  PROVE  SyInv'
<1>. USE DEF SyInv, AlarmsCounted, System!AlarmsCounted
<1>1. PICK c \in Readings, r \in Readings, diskFull \in BOOLEAN : System!UpdateState(c, r, diskFull)
  BY DEF System!Next
<1>. DEFINE now == c > Threshold \/ r > Threshold \/ diskFull
            warn == System!Warning(now)
<1>2. now \in BOOLEAN /\ warn \in BOOLEAN
  BY Zenon DEF System!Warning
<1>3. breached' = now /\ trendWarned' = System!TrendWarned(now)
  BY <1>1 DEF System!UpdateState
<1>4. told' = [alarms   |-> IF ~now THEN 0
                            ELSE told.alarms + (IF now /\ ~breached THEN 1 ELSE 0),
               warnings |-> IF now /\ ~breached THEN 0
                            ELSE (IF breached /\ ~now THEN 0 ELSE told.warnings)
                                 + (IF warn THEN 1 ELSE 0)]
  BY <1>1 DEF System!UpdateState, System!Breach
<1>5. trendWarned' = IF (breached /\ ~now) \/ (now /\ ~breached) THEN FALSE ELSE trendWarned \/ warn
  BY <1>3 DEF System!TrendWarned, System!Breach
<1>6. warn => ~now /\ ~trendWarned
  BY DEF System!Warning
<1>. HIDE DEF now, warn
<1>7. breached' \in BOOLEAN /\ trendWarned' \in BOOLEAN
  BY <1>2, <1>3, <1>5, Zenon
<1>8. told' \in [alarms : Nat, warnings : Nat]
  BY <1>2, <1>4
<1>9. /\ told'.alarms = IF ~now THEN 0 ELSE told.alarms + (IF now /\ ~breached THEN 1 ELSE 0)
      /\ told'.warnings = IF now /\ ~breached THEN 0
                         ELSE (IF breached /\ ~now THEN 0 ELSE told.warnings)
                              + (IF warn THEN 1 ELSE 0)
  BY <1>4
<1>10. breached' => told'.warnings = 0 /\ ~trendWarned'
  BY <1>2, <1>3, <1>5, <1>6, <1>9
<1>11. told'.warnings <= IF trendWarned' THEN 2 ELSE 1
  BY <1>2, <1>5, <1>6, <1>9
<1>12. told'.alarms = IF breached' THEN 1 ELSE 0
  BY <1>2, <1>3, <1>9
<1>. QED
  BY <1>7, <1>8, <1>10, <1>11, <1>12

LEMMA SyRests == SyInv /\ UNCHANGED system => SyInv'
  BY DEF SyInv, AlarmsCounted, System!AlarmsCounted, system

(* One alarm an overload, and at most two warnings of a rise between the   *)
(* end of one and the next, for every threshold and window (system.py).    *)
THEOREM OneAlarmPerOverload == Spec => []AlarmsCounted
<1>1. Init => SyInv
  BY SyInit DEF Init, AtRest
<1>2. SyInv /\ [Next]_services => SyInv'
  BY PartSteps, SyStep, SyRests
<1>3. SyInv => AlarmsCounted
  BY DEF SyInv
<1>. QED
  BY <1>1, <1>2, <1>3, PTL DEF Spec

-----------------------------------------------------------------------------
(* The proactive engine: the latest message is no older than the latest    *)
(* one of the loop, so that the cooldown checked against the former holds  *)
(* for the latter; a credited message is not the latest any more.          *)
PrAges == [sent : Nat, active : Nat, alert : Nat]

PrLoops == [phase : {"booting", "announcing", "asleep", "generating"},
            topic : {"time", "coding", "idle", "alert"}, age : Nat, cooldown : Nat]

PrTypes ==
  /\ limits \in Limits /\ ticks \in 0 .. MaxTicks
  /\ age \in PrAges /\ loop \in PrLoops /\ loopAge \in Nat

PrLoopIsOlder ==
  /\ age.sent <= ticks \/ age.sent = Engine!Never
  /\ loopAge # Engine!Never => loopAge <= ticks /\ age.sent <= loopAge

PrDecided ==
  loop.phase = "generating" /\ loop.topic # "alert" /\ loopAge # Engine!Never =>
    loop.cooldown <= loopAge

PrCredits ==
  /\ sent \in Nat /\ last \in {0, sent}
  /\ credited \in [id : Nat, number : Nat] /\ credited.id <= sent
  /\ last # 0 => credited.id < last

PrInv == PrTypes /\ PrLoopIsOlder /\ PrDecided /\ PrCredits

LEMMA PrBounds == MaxTicks \in Nat /\ Engine!Never = MaxTicks + 1
  BY MonitorsAssumption DEF Engine!Never

LEMMA PrLimits == ASSUME NEW l \in Limits PROVE l.cooldown \in Nat
  BY MonitorsAssumption DEF Limits

LEMMA PrInit == Engine!Init => PrInv
<1>. SUFFICES ASSUME Engine!Init PROVE PrInv
  OBVIOUS
<1>1. loop = [phase |-> "booting", topic |-> "time", age |-> 0, cooldown |-> 0]
  BY DEF Engine!Init, Engine!Asleep
<1>2. loop \in PrLoops /\ loop.phase # "generating"
  BY <1>1 DEF PrLoops
<1>3. age \in PrAges /\ age.sent = Engine!Never
  BY PrBounds DEF Engine!Init, PrAges
<1>4. PrTypes
  BY <1>2, <1>3, PrBounds DEF Engine!Init, PrTypes
<1>5. PrLoopIsOlder /\ PrDecided
  BY <1>2, <1>3 DEF Engine!Init, PrLoopIsOlder, PrDecided
<1>6. PrCredits
  BY DEF Engine!Init, PrCredits
<1>. QED
  BY <1>4, <1>5, <1>6 DEF PrInv

(* A message of the loop or of a visit, heard by a page. *)
LEMMA PrSent ==
  ASSUME PrCredits, Engine!Broadcast, credited' = credited
  PROVE  PrCredits'
  BY DEF PrCredits, Engine!Broadcast

LEMMA PrStep ==
  ASSUME PrInv, Engine!Next
  PROVE  PrInv'
<1>. USE DEF PrInv
<1>1. ASSUME \/ \E p \in Pages : Engine!Register(p) \/ Engine!Unregister(p)
             \/ \E liked \in BOOLEAN : Engine!Welcome(liked)
      PROVE  PrInv'
  <2>1. UNCHANGED <<limits, credited, age, last, loop, sent, loopAge, ticks>>
    BY <1>1 DEF Engine!Register, Engine!Unregister, Engine!Welcome, Engine!user, Engine!time
  <2>. QED
    BY <2>1 DEF PrTypes, PrLoopIsOlder, PrDecided, PrCredits
<1>2. ASSUME Engine!NotifyUserActive
      PROVE  PrInv'
  <2>1. /\ age' = [age EXCEPT !.active = 0] /\ Engine!CreditLast
        /\ UNCHANGED <<limits, ticks, loop, sent, loopAge>>
    BY <1>2 DEF Engine!NotifyUserActive, Engine!time
  <2>2. age' \in PrAges /\ age'.sent = age.sent
    BY <2>1 DEF PrTypes, PrAges
  <2>3. PrCredits'
    BY <2>1 DEF PrCredits, Engine!CreditLast, Engine!Credit
  <2>. QED
    BY <2>1, <2>2, <2>3 DEF PrTypes, PrLoopIsOlder, PrDecided
<1>3. ASSUME Engine!UpdateSettings
      PROVE  PrInv'
  <2>1. limits' \in Limits
        /\ UNCHANGED <<credited, age, last, loop, sent, loopAge, ticks>>
    BY <1>3 DEF Engine!UpdateSettings, Engine!time
  <2>. QED
    BY <2>1 DEF PrTypes, PrLoopIsOlder, PrDecided, PrCredits
<1>4. ASSUME NEW heard \in BOOLEAN, Engine!Welcomed(heard)
      PROVE  PrInv'
  <2>1. PrCredits' /\ UNCHANGED <<limits, ticks, loop, loopAge>>
    BY <1>4, PrSent DEF Engine!Welcomed, Engine!user, Engine!time, PrCredits
  <2>2. age' \in PrAges /\ (age'.sent = age.sent \/ age'.sent = 0)
    BY <1>4 DEF Engine!Welcomed, PrTypes, PrAges
  <2>. QED
    BY <2>1, <2>2, PrBounds DEF PrTypes, PrLoopIsOlder, PrDecided
<1>5. ASSUME NEW active \in BOOLEAN, Engine!Boot(active)
      PROVE  PrInv'
  <2>1. UNCHANGED <<limits, credited, age, last, sent, loopAge, ticks>>
    BY <1>5 DEF Engine!Boot, Engine!user, Engine!time
  <2>2. loop' \in PrLoops /\ loop'.phase # "generating"
    BY <1>5 DEF Engine!Boot, Engine!Asleep, PrLoops
  <2>. QED
    BY <2>1, <2>2 DEF PrTypes, PrLoopIsOlder, PrDecided, PrCredits
<1>6. ASSUME NEW heard \in BOOLEAN, Engine!Booted(heard) \/ Engine!Generated(heard)
      PROVE  PrInv'
  <2>1. loop' \in PrLoops /\ loop'.phase # "generating"
    BY <1>6 DEF Engine!Booted, Engine!Generated, Engine!Asleep, PrLoops
  <2>2. PrCredits' /\ UNCHANGED <<limits, ticks>>
    BY <1>6, PrSent DEF Engine!Booted, Engine!Generated, Engine!user, Engine!time, PrCredits
  <2>3. /\ age' \in PrAges
        /\ \/ age'.sent = age.sent /\ loopAge' = loopAge
           \/ age'.sent = 0 /\ loopAge' \in {0, loopAge}
    <3>1. CASE age' = age /\ loopAge' = loopAge
      BY <3>1 DEF PrTypes
    <3>2. CASE Engine!Booted(heard) /\ heard
      <4>1. age' = [age EXCEPT !.sent = 0] /\ (loopAge' = 0 \/ loopAge' = loopAge)
        BY <3>2 DEF Engine!Booted
      <4>. QED
        BY <4>1 DEF PrTypes, PrAges
    <3>3. CASE Engine!Generated(heard) /\ heard
      <4>1. PICK alert \in Nat :
              age' = [age EXCEPT !.sent = IF Engine!Heard THEN 0 ELSE @, !.alert = alert]
        BY <3>3 DEF Engine!Generated, PrTypes, PrAges, PrLoops
      <4>2. loopAge' = IF Engine!Heard THEN 0 ELSE loopAge
        BY <3>3 DEF Engine!Generated
      <4>3. age' \in PrAges
        BY <4>1 DEF PrTypes, PrAges
      <4>. QED
        BY <4>1, <4>2, <4>3 DEF PrTypes, PrAges
    <3>4. heard \/ (age' = age /\ loopAge' = loopAge)
      BY <1>6, Zenon DEF Engine!Booted, Engine!Generated
    <3>. QED
      BY <1>6, <3>1, <3>2, <3>3, <3>4
  <2>. QED
    BY <2>1, <2>2, <2>3, PrBounds DEF PrTypes, PrLoopIsOlder, PrDecided
<1>7. ASSUME Engine!EvaluateOverload
      PROVE  PrInv'
  <2>1. UNCHANGED <<limits, credited, age, last, sent, loopAge, ticks>>
    BY <1>7 DEF Engine!EvaluateOverload, Engine!user, Engine!time
  <2>2. loop' \in PrLoops /\ loop'.topic = "alert"
    BY <1>7, PrLimits DEF Engine!EvaluateOverload, Engine!Generate, PrLoops, PrTypes
  <2>. QED
    BY <2>1, <2>2 DEF PrTypes, PrLoopIsOlder, PrDecided, PrCredits
<1>8. ASSUME NEW intent \in {"coding", "time"}, Engine!EvaluateRoutine(intent)
      PROVE  PrInv'
  <2>1. UNCHANGED <<limits, credited, age, last, sent, loopAge, ticks>>
    BY <1>8 DEF Engine!EvaluateRoutine, Engine!user, Engine!time
  <2>2. PICK inHour : loop' = loop \/ (/\ Engine!CanSendRoutine(inHour)
                                       /\ Engine!Generate(Engine!Topic(intent)))
    BY <1>8 DEF Engine!EvaluateRoutine
  <2>3. CASE loop' = loop
    BY <2>1, <2>3 DEF PrTypes, PrLoopIsOlder, PrDecided, PrCredits
  <2>4. CASE /\ Engine!CanSendRoutine(inHour)
             /\ Engine!Generate(Engine!Topic(intent))
    <3>1. limits.cooldown \in Nat
      BY PrLimits DEF PrTypes
    <3>2. loop' \in PrLoops /\ loop'.cooldown = limits.cooldown
      BY <2>4, <3>1 DEF Engine!Generate, Engine!Topic, PrLoops
    <3>3. age.sent # Engine!Never => age.sent >= limits.cooldown
      BY <2>4 DEF Engine!CanSendRoutine
    <3>4. PrDecided'
      BY <2>1, <3>1, <3>2, <3>3, PrBounds DEF PrTypes, PrAges, PrLoopIsOlder, PrDecided
    <3>. QED
      BY <2>1, <3>2, <3>4 DEF PrTypes, PrLoopIsOlder, PrCredits
  <2>. QED
    BY <2>2, <2>3, <2>4
<1>9. ASSUME Engine!Tick
      PROVE  PrInv'
  <2>1. UNCHANGED <<limits, credited, last, sent>>
    BY <1>9 DEF Engine!Tick, Engine!user
  <2>2. ticks < MaxTicks /\ ticks' = ticks + 1 /\ loopAge' = Engine!Older(loopAge)
    BY <1>9 DEF Engine!Tick
  <2>3. /\ age'.sent = Engine!Older(age.sent) /\ age' \in PrAges
    <3>1. age' = [e \in {"sent", "active", "alert"} |-> Engine!Older(age[e])]
      BY <1>9 DEF Engine!Tick, PrTypes, PrAges
    <3>2. /\ age'.sent = Engine!Older(age.sent) /\ age'.active = Engine!Older(age.active)
          /\ age'.alert = Engine!Older(age.alert)
          /\ age' = [sent |-> age'.sent, active |-> age'.active, alert |-> age'.alert]
      BY <3>1
    <3>3. ASSUME NEW a \in Nat PROVE Engine!Older(a) \in Nat
      BY DEF Engine!Older
    <3>. QED
      BY <3>2, <3>3 DEF PrTypes, PrAges
  <2>4. /\ loop' \in PrLoops /\ loop'.phase = loop.phase /\ loop'.topic = loop.topic
        /\ loop'.cooldown = loop.cooldown
    BY <1>9 DEF Engine!Tick, PrTypes, PrLoops
  <2>5. PrTypes'
    BY <2>1, <2>2, <2>3, <2>4, PrBounds DEF PrTypes, Engine!Older
  <2>6. PrLoopIsOlder'
    BY <2>2, <2>3, PrBounds DEF PrTypes, PrAges, PrLoopIsOlder, Engine!Older
  <2>7. PrDecided'
    BY <2>2, <2>4, PrBounds DEF PrTypes, PrLoops, PrLoopIsOlder, PrDecided, Engine!Older
  <2>. QED
    BY <2>1, <2>5, <2>6, <2>7 DEF PrCredits
<1>. QED
  BY <1>1, <1>2, <1>3, <1>4, <1>5, <1>6, <1>7, <1>8, <1>9 DEF Engine!Next

LEMMA PrRests == PrInv /\ UNCHANGED engine => PrInv'
  BY DEF PrInv, PrTypes, PrLoopIsOlder, PrDecided, PrCredits, engine

(* The cooldown of the engine holds over its wait for the model, and no    *)
(* message is credited twice, with any settings and any number of pages    *)
(* (proactive.py).                                                         *)
THEOREM EngineKeepsItsWord == Spec => EngineHonest
<1>1. Init => PrInv
  BY PrInit DEF Init, AtRest
<1>2. PrInv /\ [Next]_services => PrInv'
  BY PartSteps, PrStep, PrRests
<1>3. ASSUME PrInv, [Next]_services
      PROVE  [/\ loop.phase = "generating" /\ loop'.phase = "asleep" /\ sent' > sent
              /\ loop.topic # "alert" /\ loopAge # Engine!Never
              => loopAge >= loop.cooldown]_Engine!vars
  BY <1>3 DEF PrInv, PrDecided, PrTypes, PrLoops
<1>4. ASSUME PrInv, [Next]_services
      PROVE  [credited' # credited => credited'.id = sent /\ credited.id < sent]_Engine!vars
  <2>1. CASE UNCHANGED engine
    BY <2>1 DEF engine
  <2>2. CASE Engine!Next
    <3>1. ASSUME credited' # credited PROVE Engine!NotifyUserActive
      BY <2>2, <3>1 DEF Engine!Next, Engine!Register, Engine!Unregister, Engine!UpdateSettings,
         Engine!Welcome, Engine!Welcomed, Engine!Booted, Engine!Generated, Engine!Boot,
         Engine!EvaluateOverload, Engine!EvaluateRoutine, Engine!Tick, Engine!user
    <3>2. ASSUME credited' # credited
          PROVE  credited'.id = sent /\ credited.id < sent
      <4>1. last # 0 /\ credited' = [id |-> last, number |-> credited.number + 1]
        BY <3>1, <3>2 DEF Engine!NotifyUserActive, Engine!CreditLast, Engine!Credit
      <4>2. credited'.id = last
        BY <4>1
      <4>. QED
        BY <1>4, <4>1, <4>2 DEF PrInv, PrCredits
    <3>. QED
      BY <3>2
  <2>. QED
    BY <1>4, <2>1, <2>2, PartSteps
<1>. QED
  BY <1>1, <1>2, <1>3, <1>4, PTL
     DEF Spec, EngineHonest, Engine!RoutineSpaced, Engine!CreditedOnce

-----------------------------------------------------------------------------
(* Settings and credentials: while nothing overlaps, the writer at work    *)
(* has the file with its change.                                           *)
SeTypes ==
  /\ stage \in [Set!Writers -> {"idle", "got", "saving"}]
  /\ DOMAIN doc = Set!Writers /\ DOMAIN change = Set!Writers
  /\ overlapped \in BOOLEAN

SeChange(w) ==
  \E s \in Sections, v \in Values : change[w] = <<s, v>> /\ doc[w] = [file EXCEPT ![s] = v]

SeInv ==
  /\ SeTypes
  /\ ~overlapped =>
       /\ \A w, x \in Set!Writers : stage[w] = "idle" \/ stage[x] = "idle" \/ w = x
       /\ \A w \in Set!Writers : stage[w] # "idle" => SeChange(w)
  /\ SettingsKept

LEMMA SeInit == Set!Init => SeInv
  BY DEF Set!Init, SeInv, SeTypes, SettingsKept, Set!SettingsKept

LEMMA SeStep ==
  ASSUME SeInv, Set!Next
  PROVE  SeInv'
<1>. USE DEF SeInv, SeTypes, SettingsKept, Set!SettingsKept
<1>1. ASSUME NEW w \in Set!Writers, Set!Begin(w)
      PROVE  SeInv'
  <2>1. PICK s \in Sections, v \in Values :
          /\ stage[w] = "idle"
          /\ doc' = [doc EXCEPT ![w] = [Set!Cached(Set!Process(w)) EXCEPT ![s] = v]]
          /\ change' = [change EXCEPT ![w] = <<s, v>>]
          /\ stage' = [stage EXCEPT ![w] = "got"]
          /\ overlapped' = \/ overlapped
                           \/ \E x \in Set!Writers : stage[x] # "idle"
                           \/ Set!Cached(Set!Process(w)) # file
          /\ file' = file /\ agreed' = agreed
    BY <1>1 DEF Set!Begin
  <2>2. ~overlapped' => /\ ~overlapped /\ \A x \in Set!Writers : stage[x] = "idle"
                        /\ Set!Cached(Set!Process(w)) = file
    BY <2>1
  <2>3. ~overlapped' => SeChange(w)'
    BY <2>1, <2>2 DEF SeChange
  <2>. QED
    BY <2>1, <2>2, <2>3
<1>2. ASSUME NEW w \in Set!Writers, Set!Save(w)
      PROVE  SeInv'
  BY <1>2 DEF Set!Save, SeChange
<1>3. ASSUME NEW w \in Set!Writers, Set!Replace(w)
      PROVE  SeInv'
  <2>1. /\ stage[w] = "saving" /\ file' = doc[w] /\ overlapped' = overlapped
        /\ agreed' = [agreed EXCEPT ![change[w][1]] = change[w][2]]
        /\ stage' = [stage EXCEPT ![w] = "idle"] /\ doc' = doc /\ change' = change
    BY <1>3 DEF Set!Replace, Set!Over
  <2>2. ~overlapped => file' = agreed'
    <3>. SUFFICES ASSUME ~overlapped PROVE file' = agreed'
      OBVIOUS
    <3>1. PICK s \in Sections, v \in Values :
            change[w] = <<s, v>> /\ doc[w] = [file EXCEPT ![s] = v]
      BY <2>1 DEF SeChange
    <3>2. change[w][1] = s /\ change[w][2] = v
      BY <3>1
    <3>. QED
      BY <2>1, <3>1, <3>2
  <2>3. ~overlapped => \A x \in Set!Writers : stage'[x] = "idle"
    BY <2>1
  <2>. QED
    BY <2>1, <2>2, <2>3
<1>4. ASSUME NEW w \in Set!Writers, Set!Fail(w)
      PROVE  SeInv'
  BY <1>4 DEF Set!Fail, Set!Over
<1>5. ASSUME NEW p \in {"gateway", "worker"}, Set!Get(p)
      PROVE  SeInv'
  BY <1>5 DEF Set!Get, SeChange
<1>6. ASSUME NEW p \in {"gateway", "worker"}, Set!Restart(p)
      PROVE  SeInv'
  BY <1>6 DEF Set!Restart, SeChange
<1>. QED
  BY <1>1, <1>2, <1>3, <1>4, <1>5, <1>6 DEF Set!Next

LEMMA SeRests == SeInv /\ UNCHANGED settings => SeInv'
  BY DEF SeInv, SeTypes, SeChange, SettingsKept, Set!SettingsKept, settings

(* Unless edits overlap, a save fails or a stale copy is saved, the file   *)
(* holds every acknowledged edit, over restarts at any point of a save     *)
(* (config.py, credentials.py).                                            *)
THEOREM AcknowledgedEditsStay == Spec => []SettingsKept
<1>1. Init => SeInv
  BY SeInit DEF Init, ServicesAtRest
<1>2. SeInv /\ [Next]_services => SeInv'
  BY PartSteps, SeStep, SeRests
<1>3. SeInv => SettingsKept
  BY DEF SeInv
<1>. QED
  BY <1>1, <1>2, <1>3, PTL DEF Spec

-----------------------------------------------------------------------------
(* What the pool's queue does to the set of its calls.                     *)
Distinct(q) == \A i, j \in 1 .. Len(q) : q[i] = q[j] => i = j

LEMMA QueueAppend ==
  ASSUME NEW S, NEW q \in Seq(S), Distinct(q), NEW c \in S, c \notin Tool!ToSet(q)
  PROVE  /\ Append(q, c) \in Seq(S) /\ Distinct(Append(q, c))
         /\ Tool!ToSet(Append(q, c)) = Tool!ToSet(q) \cup {c}
<1>1. /\ Append(q, c) \in Seq(S) /\ Len(Append(q, c)) = Len(q) + 1 /\ Len(q) \in Nat
      /\ DOMAIN q = 1 .. Len(q) /\ DOMAIN Append(q, c) = 1 .. Len(q) + 1
      /\ Append(q, c)[Len(q) + 1] = c
      /\ \A i \in 1 .. Len(q) : Append(q, c)[i] = q[i] /\ q[i] # c
  BY AppendProperties, LenProperties DEF Tool!ToSet
<1>2. \A i \in 1 .. Len(q) + 1 : i \in 1 .. Len(q) \/ i = Len(q) + 1
  BY <1>1
<1>3. Distinct(Append(q, c))
  BY <1>1, <1>2 DEF Distinct
<1>4. Tool!ToSet(Append(q, c)) = Tool!ToSet(q) \cup {c}
  BY <1>1, <1>2 DEF Tool!ToSet
<1>. QED
  BY <1>1, <1>3, <1>4

LEMMA QueueTail ==
  ASSUME NEW S, NEW q \in Seq(S), Distinct(q), q # <<>>
  PROVE  /\ Head(q) \in S /\ Head(q) \in Tool!ToSet(q)
         /\ Tail(q) \in Seq(S) /\ Distinct(Tail(q))
         /\ Tool!ToSet(Tail(q)) = Tool!ToSet(q) \ {Head(q)}
<1>1. /\ Len(q) \in Nat \ {0} /\ DOMAIN q = 1 .. Len(q) /\ Head(q) = q[1]
      /\ Head(q) \in S /\ Tail(q) \in Seq(S) /\ Len(Tail(q)) = Len(q) - 1
      /\ DOMAIN Tail(q) = 1 .. Len(q) - 1
      /\ \A i \in 1 .. Len(q) - 1 : Tail(q)[i] = q[i + 1]
  BY EmptySeq, HeadTailProperties, LenProperties
<1>2. \A i \in 1 .. Len(q) - 1 : i + 1 \in 1 .. Len(q) /\ i + 1 # 1
  BY <1>1
<1>3. \A i \in 1 .. Len(q) : i # 1 => i - 1 \in 1 .. Len(q) - 1 /\ Tail(q)[i - 1] = q[i]
  BY <1>1
<1>4. Distinct(Tail(q))
  BY <1>1, <1>2 DEF Distinct
<1>5. Tool!ToSet(Tail(q)) = Tool!ToSet(q) \ {Head(q)}
  <2>1. \A x \in Tool!ToSet(Tail(q)) : x \in Tool!ToSet(q) /\ x # Head(q)
    BY <1>1, <1>2 DEF Tool!ToSet, Distinct
  <2>2. ASSUME NEW i \in 1 .. Len(q), q[i] # Head(q)
        PROVE  q[i] \in Tool!ToSet(Tail(q))
    <3>1. i - 1 \in DOMAIN Tail(q) /\ Tail(q)[i - 1] = q[i]
      BY <1>1, <1>3, <2>2
    <3>. QED
      BY <3>1, Zenon DEF Tool!ToSet
  <2>. QED
    BY <1>1, <2>1, <2>2 DEF Tool!ToSet
<1>6. Head(q) \in Tool!ToSet(q)
  <2>1. 1 \in DOMAIN q
    BY <1>1
  <2>. QED
    BY <1>1, <2>1, Zenon DEF Tool!ToSet
<1>. QED
  BY <1>1, <1>4, <1>5, <1>6

LEMMA QueueRemove ==
  ASSUME NEW S, NEW q \in Seq(S), Distinct(q), NEW k \in DOMAIN q
  PROVE  /\ Tool!RemoveAt(q, k) \in Seq(S) /\ Distinct(Tool!RemoveAt(q, k))
         /\ Tool!ToSet(Tool!RemoveAt(q, k)) = Tool!ToSet(q) \ {q[k]}
<1>. DEFINE r == Tool!RemoveAt(q, k)
<1>1. Len(q) \in Nat /\ DOMAIN q = 1 .. Len(q) /\ k \in 1 .. Len(q)
  BY LenProperties
<1>2. /\ SubSeq(q, 1, k - 1) \in Seq(S) /\ Len(SubSeq(q, 1, k - 1)) = k - 1
      /\ \A i \in 1 .. k - 1 : SubSeq(q, 1, k - 1)[i] = q[i]
  <2>1. \A i \in 1 .. k - 1 : q[i] \in S
    BY <1>1, ElementOfSeq
  <2>. QED
    BY <1>1, <2>1, SubSeqProperties
<1>3. /\ SubSeq(q, k + 1, Len(q)) \in Seq(S) /\ Len(SubSeq(q, k + 1, Len(q))) = Len(q) - k
      /\ \A i \in 1 .. Len(q) - k : SubSeq(q, k + 1, Len(q))[i] = q[k + i]
  <2>1. \A i \in k + 1 .. Len(q) : q[i] \in S
    BY <1>1, ElementOfSeq
  <2>. QED
    BY <1>1, <2>1, SubSeqProperties
<1>4. /\ r \in Seq(S) /\ Len(r) = Len(q) - 1 /\ DOMAIN r = 1 .. Len(q) - 1
      /\ \A i \in 1 .. Len(q) - 1 : r[i] = IF i <= k - 1 THEN q[i] ELSE q[i + 1]
  <2>1. /\ r \in Seq(S) /\ Len(r) = Len(q) - 1
        /\ \A i \in 1 .. Len(q) - 1 :
             r[i] = IF i <= k - 1 THEN SubSeq(q, 1, k - 1)[i]
                                  ELSE SubSeq(q, k + 1, Len(q))[i - (k - 1)]
    <3>1. r = SubSeq(q, 1, k - 1) \o SubSeq(q, k + 1, Len(q))
      BY DEF Tool!RemoveAt
    <3>2. (k - 1) + (Len(q) - k) = Len(q) - 1
      BY <1>1
    <3>. HIDE DEF r
    <3>. DEFINE s1 == SubSeq(q, 1, k - 1)
                s2 == SubSeq(q, k + 1, Len(q))
    <3>3. s1 \in Seq(S) /\ Len(s1) = k - 1 /\ s2 \in Seq(S) /\ Len(s2) = Len(q) - k /\ r = s1 \o s2
      BY <1>2, <1>3, <3>1
    <3>. HIDE DEF s1, s2
    <3>4. /\ r \in Seq(S) /\ Len(r) = Len(s1) + Len(s2)
          /\ \A i \in 1 .. Len(s1) + Len(s2) : r[i] = IF i <= Len(s1) THEN s1[i] ELSE s2[i - Len(s1)]
      BY <3>3, ConcatProperties
    <3>. QED
      BY <3>2, <3>3, <3>4 DEF s1, s2
  <2>2. \A i \in 1 .. Len(q) - 1 : ~(i <= k - 1) => i - (k - 1) \in 1 .. Len(q) - k /\ k + (i - (k - 1)) = i + 1
    BY <1>1
  <2>3. \A i \in 1 .. Len(q) - 1 : i <= k - 1 => i \in 1 .. k - 1
    BY <1>1
  <2>. QED
    BY <1>2, <1>3, <2>1, <2>2, <2>3, LenProperties
<1>. HIDE DEF r
<1>5. Distinct(r)
  BY <1>1, <1>4 DEF Distinct
<1>6. Tool!ToSet(r) = Tool!ToSet(q) \ {q[k]}
  <2>1. ASSUME NEW i \in 1 .. Len(q) - 1 PROVE r[i] \in Tool!ToSet(q) /\ r[i] # q[k]
    <3>1. PICK j \in 1 .. Len(q) : j # k /\ r[i] = q[j]
      <4>1. CASE i <= k - 1
        BY <1>1, <1>4, <2>1, <4>1
      <4>2. CASE ~(i <= k - 1)
        BY <1>1, <1>4, <2>1, <4>2
      <4>. QED
        BY <4>1, <4>2
    <3>2. q[j] # q[k]
      BY <1>1, <3>1 DEF Distinct
    <3>. QED
      BY <1>1, <3>1, <3>2 DEF Tool!ToSet
  <2>2. ASSUME NEW i \in 1 .. Len(q), i # k PROVE q[i] \in Tool!ToSet(r)
    <3>1. CASE i < k
      <4>1. i \in 1 .. Len(q) - 1 /\ r[i] = q[i]
        BY <1>1, <1>4, <3>1
      <4>. QED
        BY <1>4, <4>1 DEF Tool!ToSet
    <3>2. CASE i > k
      <4>1. i - 1 \in 1 .. Len(q) - 1 /\ r[i - 1] = q[i]
        BY <1>1, <1>4, <3>2
      <4>. QED
        BY <1>4, <4>1 DEF Tool!ToSet
    <3>. QED
      BY <1>1, <2>2, <3>1, <3>2
  <2>. QED
    BY <1>1, <1>4, <2>1, <2>2 DEF Tool!ToSet
<1>. QED
  BY <1>4, <1>5, <1>6 DEF r

(* Where a call's tool is, and how often it was started: a call is in one  *)
(* container, in the queue or with a worker, never in two places, and a    *)
(* queued call is still to be counted.                                     *)
SbBound(c) == IF c \in silent THEN 2 ELSE 1

SbQueued == Tool!ToSet(poolQueue)

SbTypes ==
  /\ toolAt \in [Calls -> {"idle", "bwrap", "pool", "answered", "given up"}]
  /\ runs \in [Calls -> Nat]
  /\ containers \subseteq Calls /\ working \subseteq Calls
  /\ poolQueue \in Seq(Calls) /\ Distinct(poolQueue)

SbCall(c) ==
  /\ c \in containers =>
       /\ c \notin SbQueued /\ c \notin working /\ c \notin silent
       /\ runs[c] = 1 /\ toolAt[c] \in {"bwrap", "given up"}
  /\ c \in SbQueued => c \notin working /\ runs[c] + 1 <= SbBound(c)
  /\ runs[c] <= SbBound(c)
  /\ toolAt[c] = "idle" => runs[c] = 0 /\ c \notin silent
  /\ toolAt[c] \in {"idle", "answered"} => c \notin Tool!Busy
  /\ toolAt[c] = "bwrap" => c \in containers

SbInv == SbTypes /\ \A c \in Calls : SbCall(c)

LEMMA SbBusy == Tool!Busy = containers \cup SbQueued \cup working
  BY DEF Tool!Busy, SbQueued

LEMMA SbInit == Tool!Init => SbInv
<1>. SUFFICES ASSUME Tool!Init PROVE SbInv
  OBVIOUS
<1>1. poolQueue = <<>> /\ SbQueued = {} /\ containers = {} /\ working = {} /\ silent = {}
  BY DEF Tool!Init, SbQueued, Tool!ToSet
<1>2. SbTypes
  BY <1>1 DEF Tool!Init, SbTypes, Distinct
<1>. QED
  BY <1>1, <1>2, SbBusy DEF Tool!Init, SbInv, SbCall, SbBound

LEMMA SbSubmit ==
  ASSUME SbInv, NEW c \in Calls, c \notin SbQueued, Tool!Submit(c)
  PROVE  /\ poolQueue' \in Seq(Calls) /\ Distinct(poolQueue')
         /\ \/ SbQueued' = SbQueued /\ toolAt' = [toolAt EXCEPT ![c] = "answered"]
            \/ SbQueued' = SbQueued \cup {c} /\ toolAt' = [toolAt EXCEPT ![c] = "pool"]
<1>1. CASE broken
  BY <1>1 DEF Tool!Submit, Tool!Answered, SbInv, SbTypes, SbQueued
<1>2. CASE ~broken
  <2>1. poolQueue' = Append(poolQueue, c) /\ toolAt' = [toolAt EXCEPT ![c] = "pool"]
    BY <1>2 DEF Tool!Submit
  <2>. QED
    BY <2>1, QueueAppend DEF SbInv, SbTypes, SbQueued
<1>. QED
  BY <1>1, <1>2

(* A step that touches one call only: the other calls keep their part.     *)
Kept(d) ==
  /\ toolAt'[d] = toolAt[d] /\ runs'[d] = runs[d]
  /\ d \in containers' <=> d \in containers
  /\ d \in SbQueued' <=> d \in SbQueued
  /\ d \in working' <=> d \in working
  /\ d \in silent' <=> d \in silent

LEMMA SbKept ==
  ASSUME SbInv, SbTypes', NEW c \in Calls, \A d \in Calls \ {c} : Kept(d), SbCall(c)'
  PROVE  SbInv'
<1>1. Tool!Busy' = containers' \cup SbQueued' \cup working'
  BY DEF Tool!Busy, SbQueued
<1>2. ASSUME NEW d \in Calls \ {c} PROVE SbCall(d)'
  <2>1. Kept(d) /\ SbCall(d)
    BY DEF SbInv
  <2>. QED
    BY <1>1, <2>1, SbBusy DEF Kept, SbCall, SbBound
<1>. QED
  BY <1>2 DEF SbInv

(* The count of a call that is started.                                    *)
LEMMA SbCounts ==
  ASSUME runs \in [Calls -> Nat], NEW c \in Calls, runs' = [runs EXCEPT ![c] = @ + 1]
  PROVE  /\ runs' \in [Calls -> Nat] /\ runs'[c] = runs[c] + 1
         /\ \A d \in Calls \ {c} : runs'[d] = runs[d]
  OBVIOUS

LEMMA SbStarts ==
  ASSUME SbInv, NEW c \in Calls, Tool!StartContainer(c)
  PROVE  SbInv'
<1>1. toolAt[c] = "idle" /\ toolAt' = [toolAt EXCEPT ![c] = "bwrap"]
  BY DEF Tool!StartContainer, Tool!Misses
<1>2. /\ containers' = containers \cup {c} /\ UNCHANGED <<poolQueue, working, silent>>
      /\ runs' = [runs EXCEPT ![c] = @ + 1]
  BY DEF Tool!StartContainer
<1>3. SbTypes /\ SbCall(c)
  BY DEF SbInv
<1>4. UNCHANGED SbQueued
  BY <1>2 DEF SbQueued
<1>5. c \notin SbQueued /\ c \notin working /\ c \notin silent /\ runs[c] = 0
  BY <1>1, <1>3, SbBusy DEF SbCall
<1>6. /\ runs' \in [Calls -> Nat] /\ runs'[c] = runs[c] + 1
      /\ \A d \in Calls \ {c} : runs'[d] = runs[d]
  BY <1>2, <1>3, SbCounts DEF SbTypes
<1>7. /\ toolAt' \in [Calls -> {"idle", "bwrap", "pool", "answered", "given up"}]
      /\ toolAt'[c] = "bwrap" /\ \A d \in Calls \ {c} : toolAt'[d] = toolAt[d]
  BY <1>1, <1>3 DEF SbTypes
<1>8. SbTypes'
  BY <1>2, <1>3, <1>6, <1>7 DEF SbTypes
<1>9. SbCall(c)'
  <2>1. /\ runs'[c] = 1 /\ SbBound(c)' = 1
    BY <1>2, <1>5, <1>6 DEF SbBound
  <2>2. c \in containers' /\ c \notin SbQueued' /\ c \notin working' /\ c \notin silent'
    BY <1>2, <1>4, <1>5
  <2>3. runs'[c] <= SbBound(c)'
    BY <2>1
  <2>4. toolAt'[c] = "bwrap" /\ toolAt'[c] \notin {"idle", "answered"}
    BY <1>7
  <2>. QED
    BY <2>1, <2>2, <2>3, <2>4, Zenon DEF SbCall
<1>10. \A d \in Calls \ {c} : Kept(d)
  BY <1>2, <1>4, <1>6, <1>7 DEF Kept
<1>. QED
  BY <1>8, <1>9, <1>10, SbKept

(* A call that stands nowhere goes to the pool, or fails as it is broken.  *)
LEMMA SbSubmitted ==
  ASSUME SbInv, NEW c \in Calls, Tool!Submit(c), c \notin SbQueued, c \notin working,
         containers' = containers \ {c}, UNCHANGED <<working, runs>>,
         \/ runs[c] = 0 /\ silent' = silent
         \/ runs[c] = 1 /\ silent' = silent \cup {c}
  PROVE  SbInv'
<1>1. SbTypes /\ SbCall(c)
  BY DEF SbInv
<1>2. /\ poolQueue' \in Seq(Calls) /\ Distinct(poolQueue')
      /\ \/ SbQueued' = SbQueued /\ toolAt' = [toolAt EXCEPT ![c] = "answered"]
         \/ SbQueued' = SbQueued \cup {c} /\ toolAt' = [toolAt EXCEPT ![c] = "pool"]
  BY SbSubmit
<1>3. SbTypes'
  BY <1>1, <1>2 DEF SbTypes
<1>4. \/ toolAt'[c] = "answered" /\ c \notin SbQueued'
      \/ toolAt'[c] = "pool"
  BY <1>1, <1>2 DEF SbTypes
<1>5. Tool!Busy' = containers' \cup SbQueued' \cup working'
  BY DEF Tool!Busy, SbQueued
<1>6. SbCall(c)'
  <2>1. runs'[c] + 1 <= SbBound(c)' /\ runs'[c] <= SbBound(c)'
    BY DEF SbBound
  <2>. QED
    BY <1>4, <1>5, <2>1 DEF SbCall
<1>7. \A d \in Calls \ {c} : Kept(d)
  BY <1>1, <1>2 DEF SbTypes, Kept
<1>. QED
  BY <1>3, <1>6, <1>7, SbKept

LEMMA SbTake ==
  ASSUME SbInv, Tool!Take
  PROVE  SbInv'
<1>0. SbTypes /\ poolQueue # <<>>
  BY DEF SbInv, Tool!Take
<1>1. PICK c \in Calls :
        /\ working' = working \cup {c} /\ poolQueue' = Tail(poolQueue) /\ c = Head(poolQueue)
        /\ runs' = [runs EXCEPT ![c] = @ + 1]
        /\ UNCHANGED <<containers, silent, toolAt>>
  BY <1>0, HeadTailProperties DEF SbTypes, Tool!Take
<1>2. SbTypes
  BY <1>0
<1>3. /\ c \in SbQueued /\ SbQueued' = SbQueued \ {c}
      /\ poolQueue' \in Seq(Calls) /\ Distinct(poolQueue')
  BY <1>0, <1>1, QueueTail DEF SbTypes, SbQueued
<1>4. SbCall(c)
  BY <1>3 DEF SbInv
<1>5. /\ runs' \in [Calls -> Nat] /\ runs'[c] = runs[c] + 1
      /\ \A d \in Calls \ {c} : runs'[d] = runs[d]
  BY <1>1, <1>2, <1>3, SbCounts DEF SbTypes
<1>6. SbTypes'
  BY <1>1, <1>2, <1>3, <1>5 DEF SbTypes
<1>7. /\ c \notin containers' /\ c \notin SbQueued' /\ c \in working'
      /\ toolAt'[c] \notin {"idle", "answered", "bwrap"}
  BY <1>1, <1>3, <1>4, SbBusy DEF SbCall
<1>8. runs'[c] <= SbBound(c)'
  BY <1>1, <1>3, <1>4, <1>5 DEF SbCall, SbBound
<1>9. SbCall(c)'
  BY <1>7, <1>8 DEF SbCall
<1>10. \A d \in Calls \ {c} : Kept(d)
  BY <1>1, <1>3, <1>5 DEF Kept
<1>. QED
  BY <1>3, <1>6, <1>9, <1>10, SbKept

LEMMA SbBroken ==
  ASSUME SbInv, Tool!WorkerDies
  PROVE  SbInv'
<1>1. /\ working' = {} /\ poolQueue' = <<>>
      /\ toolAt' = [c \in Calls |-> IF toolAt[c] = "pool" THEN "answered" ELSE toolAt[c]]
      /\ UNCHANGED <<containers, runs, silent>>
  BY DEF Tool!WorkerDies
<1>2. SbTypes
  BY DEF SbInv
<1>3. SbQueued' = {} /\ poolQueue' \in Seq(Calls) /\ Distinct(poolQueue')
  BY <1>1 DEF SbQueued, Tool!ToSet, Distinct
<1>4. SbTypes'
  BY <1>1, <1>2, <1>3 DEF SbTypes
<1>5. Tool!Busy' = containers'
  BY <1>1, <1>3 DEF Tool!Busy, SbQueued
<1>6. ASSUME NEW c \in Calls PROVE SbCall(c)'
  <2>1. SbCall(c)
    BY DEF SbInv
  <2>2. toolAt'[c] = IF toolAt[c] = "pool" THEN "answered" ELSE toolAt[c]
    BY <1>1
  <2>. QED
    BY <1>1, <1>3, <1>5, <2>1, <2>2, SbBusy DEF SbCall, SbBound
<1>. QED
  BY <1>4, <1>6 DEF SbInv

LEMMA SbStep ==
  ASSUME SbInv, Tool!Next
  PROVE  SbInv'
<1>0. Tool!Busy' = containers' \cup SbQueued' \cup working'
  BY DEF Tool!Busy, SbQueued
<1>. USE SbBusy, <1>0 DEF SbInv, SbTypes, SbCall, SbBound
<1>1. ASSUME Tool!LoadAllSkills \/ Tool!EditSkill \/ Tool!Expire
      PROVE  SbInv'
  BY <1>1 DEF Tool!LoadAllSkills, Tool!EditSkill, Tool!Expire, Tool!Registry, SbQueued
<1>2. ASSUME NEW c \in Calls, Tool!CacheHit(c)
      PROVE  SbInv'
  BY <1>2 DEF Tool!CacheHit, Tool!Registry, SbQueued
<1>3. ASSUME NEW c \in Calls, Tool!StartContainer(c)
      PROVE  SbInv'
  BY <1>3, SbStarts
<1>4. ASSUME NEW c \in Calls, Tool!StartInPool(c)
      PROVE  SbInv'
  <2>1. toolAt[c] = "idle" /\ Tool!Submit(c) /\ UNCHANGED <<containers, working, runs, silent>>
    BY <1>4 DEF Tool!StartInPool, Tool!Misses
  <2>2. c \notin SbQueued /\ c \notin working /\ containers' = containers \ {c} /\ runs[c] = 0
    BY <2>1
  <2>. QED
    BY <2>1, <2>2, SbSubmitted
<1>5. ASSUME NEW c \in Calls, Tool!ContainerEnds(c)
      PROVE  SbInv'
  <2>1. toolAt[c] = "bwrap" /\ containers' = containers \ {c} /\ UNCHANGED <<working, runs>>
    BY <1>5 DEF Tool!ContainerEnds
  <2>2. CASE toolAt' = [toolAt EXCEPT ![c] = "answered"] /\ UNCHANGED <<poolQueue, silent>>
    BY <2>1, <2>2 DEF SbQueued
  <2>3. CASE silent' = silent \cup {c} /\ Tool!Submit(c)
    <3>1. c \notin SbQueued /\ c \notin working /\ runs[c] = 1
      BY <2>1
    <3>. QED
      BY <2>1, <2>3, <3>1, SbSubmitted
  <2>. QED
    BY <1>5, <2>2, <2>3 DEF Tool!ContainerEnds, Tool!Answered
<1>6. ASSUME NEW c \in Calls, Tool!OrphanEnds(c)
      PROVE  SbInv'
  BY <1>6 DEF Tool!OrphanEnds, Tool!Registry, SbQueued
<1>7. ASSUME NEW c \in Calls, Tool!ToolEnds(c)
      PROVE  SbInv'
  <2>1. /\ c \in working /\ working' = working \ {c}
        /\ toolAt' = toolAt \/ toolAt' = [toolAt EXCEPT ![c] = "answered"]
        /\ UNCHANGED <<containers, poolQueue, runs, silent>>
    BY <1>7 DEF Tool!ToolEnds, Tool!Answered
  <2>. QED
    BY <2>1 DEF SbQueued
<1>8. ASSUME NEW c \in Calls, Tool!GiveUp(c)
      PROVE  SbInv'
  <2>1. /\ toolAt[c] \in {"bwrap", "pool"} /\ toolAt' = [toolAt EXCEPT ![c] = "given up"]
        /\ UNCHANGED <<containers, working, runs, silent>>
    BY <1>8 DEF Tool!GiveUp
  <2>2. /\ poolQueue' \in Seq(Calls) /\ Distinct(poolQueue')
        /\ SbQueued' = SbQueued \/ SbQueued' = SbQueued \ {c}
    <3>1. CASE UNCHANGED poolQueue
      BY <3>1 DEF SbQueued
    <3>2. CASE \E i \in DOMAIN poolQueue : /\ poolQueue[i] = c
                                           /\ poolQueue' = Tool!RemoveAt(poolQueue, i)
      <4>1. PICK i \in DOMAIN poolQueue :
              poolQueue[i] = c /\ poolQueue' = Tool!RemoveAt(poolQueue, i)
        BY <3>2
      <4>2. poolQueue \in Seq(Calls) /\ Distinct(poolQueue)
        OBVIOUS
      <4>. QED
        BY <4>1, <4>2, QueueRemove DEF SbQueued
    <3>. QED
      BY <1>8, <3>1, <3>2 DEF Tool!GiveUp
  <2>. QED
    BY <2>1, <2>2
<1>9. ASSUME Tool!Take
      PROVE  SbInv'
  BY <1>9, SbTake
<1>10. ASSUME Tool!WorkerDies
       PROVE  SbInv'
  BY <1>10, SbBroken
<1>. QED
  BY <1>1, <1>2, <1>3, <1>4, <1>5, <1>6, <1>7, <1>8, <1>9, <1>10 DEF Tool!Next

LEMMA SbRests == SbInv /\ UNCHANGED sandbox => SbInv'
<1>. SUFFICES ASSUME SbInv, UNCHANGED sandbox PROVE SbInv'
  OBVIOUS
<1>1. UNCHANGED <<toolAt, runs, containers, working, silent, poolQueue, SbQueued, Tool!Busy>>
  BY DEF sandbox, SbQueued, Tool!Busy
<1>. QED
  BY <1>1 DEF SbInv, SbTypes, SbCall, SbBound, Distinct

(* A call that was answered runs nowhere any more and ran once, or twice   *)
(* if its container ended without a word, through changes of the sandbox,  *)
(* broken pools and calls given up (sandbox.py, registry.py).              *)
THEOREM AnsweredCallsHaveEnded == Spec => []CallsSettled
<1>1. Init => SbInv
  BY SbInit DEF Init, ServicesAtRest
<1>2. SbInv /\ [Next]_services => SbInv'
  BY PartSteps, SbStep, SbRests
<1>3. SbInv => CallsSettled
  BY DEF SbInv, SbTypes, SbCall, SbBound, CallsSettled, Tool!CallsSettled
<1>. QED
  BY <1>1, <1>2, <1>3, PTL DEF Spec

-----------------------------------------------------------------------------
(* The system-call filter: what the accumulator holds and what has been    *)
(* compared when the machine stands at an instruction.                     *)
(* The list, the number in the accumulator and the place of the machine;   *)
(* the numbers before that place have all been compared.                   *)
FiPlace ==
  /\ blocked \in Seq(Numbers)
  /\ instr \in 0 .. Len(blocked) + 4
  /\ instr = 1 => acc = syscall.arch
  /\ instr \in 2 .. Len(blocked) + 3 => syscall.arch = arch
  /\ instr \in 3 .. Len(blocked) + 3 =>
       /\ acc = syscall.nr
       /\ \A i \in 1 .. instr - 3 : blocked[i] # syscall.nr
  /\ instr = Len(blocked) + 4 => Filter!Forbidden

FiVerdict ==
  /\ verdict = "allow" => instr = Len(blocked) + 3
  /\ verdict = "kill" => instr = Len(blocked) + 4

FiInv == Filter!Packed => FiPlace /\ FiVerdict

(* What the program holds where the machine stands.                        *)
FiHolds(code, jt, jf, k) ==
  Filter!Current.code = code /\ Filter!Current.jt = jt /\ Filter!Current.jf = jf /\ Filter!Current.k = k

FiStanding == blocked \in Seq(Numbers) /\ instr \in 0 .. Len(blocked) + 4

FiPlaces ==
  \/ instr = 0 /\ FiHolds("ld arch", 0, 0, 0)
  \/ instr = 1 /\ FiHolds("jeq", 0, Len(blocked) + 2, arch)
  \/ instr = 2 /\ FiHolds("ld nr", 0, 0, 0)
  \/ instr \in 3 .. Len(blocked) + 2 /\ FiHolds("jeq", Len(blocked) - (instr - 3), 0, blocked[instr - 2])
  \/ instr = Len(blocked) + 3 /\ FiHolds("allow", 0, 0, 0)
  \/ instr = Len(blocked) + 4 /\ FiHolds("kill", 0, 0, 0)

LEMMA FiCurrentIs == FiStanding => FiPlaces
<1>. SUFFICES ASSUME FiStanding PROVE FiPlaces
  OBVIOUS
<1>1. blocked \in Seq(Numbers) /\ Len(blocked) \in Nat /\ instr \in 0 .. Len(blocked) + 4
  BY DEF FiStanding
<1>2. CASE instr = 0
  BY <1>2 DEF FiPlaces, FiHolds, Filter!Current, Filter!Program, Filter!Instr
<1>3. CASE instr = 1
  BY <1>3 DEF FiPlaces, FiHolds, Filter!Current, Filter!Program, Filter!Instr
<1>4. CASE instr = 2
  BY <1>4 DEF FiPlaces, FiHolds, Filter!Current, Filter!Program, Filter!Instr
<1>5. CASE instr \in 3 .. Len(blocked) + 2
  <2>1. Filter!Current = Filter!Jump(blocked, instr - 3)
    <3>1. instr # 0 /\ instr # 1 /\ instr # 2 /\ instr < Len(blocked) + 3
      BY <1>1, <1>5
    <3>. QED
      BY <3>1 DEF Filter!Current, Filter!Program
  <2>2. (instr - 3) + 1 = instr - 2
    BY <1>1
  <2>3. Filter!Current = Filter!Instr("jeq", Len(blocked) - (instr - 3), 0, blocked[instr - 2])
    BY <2>1, <2>2 DEF Filter!Jump
  <2>. QED
    BY <1>5, <2>3 DEF FiPlaces, FiHolds, Filter!Instr
<1>6. CASE instr = Len(blocked) + 3
  <2>1. instr # 0 /\ instr # 1 /\ instr # 2 /\ ~(instr < Len(blocked) + 3)
    BY <1>1, <1>6
  <2>. QED
    BY <1>6, <2>1 DEF FiPlaces, FiHolds, Filter!Current, Filter!Program, Filter!Instr
<1>7. CASE instr = Len(blocked) + 4
  <2>1. instr # 0 /\ instr # 1 /\ instr # 2 /\ ~(instr < Len(blocked) + 3) /\ instr # Len(blocked) + 3
    BY <1>1, <1>7
  <2>. QED
    BY <1>7, <2>1 DEF FiPlaces, FiHolds, Filter!Current, Filter!Program, Filter!Instr
<1>. QED
  BY <1>1, <1>2, <1>3, <1>4, <1>5, <1>6, <1>7

(* A load stands before the comparison with its architecture or its list.  *)
LEMMA FiLoadStep == ASSUME FiInv, Filter!Load PROVE FiInv'
<1>1. /\ Filter!Packed /\ FiPlace /\ FiVerdict /\ verdict = "none"
      /\ UNCHANGED <<arch, blocked, syscall, verdict>> /\ instr' = instr + 1
  BY DEF FiInv, Filter!Load
<1>2. blocked \in Seq(Numbers) /\ Len(blocked) \in Nat /\ instr \in 0 .. Len(blocked) + 4
  BY <1>1 DEF FiPlace
<1>3. \/ instr = 0 /\ acc' = syscall.arch
      \/ instr = 2 /\ acc' = syscall.nr
  <2>1. \/ Filter!Current.code = "ld arch" /\ acc' = syscall.arch
        \/ Filter!Current.code = "ld nr" /\ acc' = syscall.nr
    BY DEF Filter!Load
  <2>. QED
    BY <1>2, <2>1, FiCurrentIs DEF FiStanding, FiPlaces, FiHolds
<1>4. FiPlace'
  BY <1>1, <1>2, <1>3 DEF FiPlace
<1>. QED
  BY <1>1, <1>4 DEF FiInv, FiVerdict

(* A comparison that jumps goes to the end, and the call is forbidden;     *)
(* one that does not leaves one number less.                               *)
LEMMA FiCompareStep == ASSUME FiInv, Filter!Compare PROVE FiInv'
<1>1. /\ Filter!Packed /\ FiPlace /\ FiVerdict /\ verdict = "none" /\ Filter!Current.code = "jeq"
      /\ UNCHANGED <<arch, blocked, syscall, acc, verdict>>
      /\ instr' = instr + 1 + (IF acc = Filter!Current.k THEN Filter!Current.jt ELSE Filter!Current.jf)
  BY DEF FiInv, Filter!Compare
<1>2. blocked \in Seq(Numbers) /\ Len(blocked) \in Nat /\ instr \in 0 .. Len(blocked) + 4
  BY <1>1 DEF FiPlace
<1>3. \/ instr = 1 /\ FiHolds("jeq", 0, Len(blocked) + 2, arch)
      \/ instr \in 3 .. Len(blocked) + 2 /\ FiHolds("jeq", Len(blocked) - (instr - 3), 0, blocked[instr - 2])
  BY <1>1, <1>2, FiCurrentIs DEF FiStanding, FiPlaces, FiHolds
<1>4. CASE instr = 1
  <2>1. Filter!Current.k = arch /\ Filter!Current.jt = 0 /\ Filter!Current.jf = Len(blocked) + 2
    BY <1>2, <1>3, <1>4 DEF FiHolds
  <2>2. acc = syscall.arch
    BY <1>1, <1>4 DEF FiPlace
  <2>3. CASE syscall.arch = arch
    BY <1>1, <1>2, <1>4, <2>1, <2>2, <2>3 DEF FiInv, FiPlace, FiVerdict
  <2>4. CASE syscall.arch # arch
    BY <1>1, <1>2, <1>4, <2>1, <2>2, <2>4 DEF FiInv, FiPlace, FiVerdict, Filter!Forbidden
  <2>. QED
    BY <2>3, <2>4
<1>5. CASE instr \in 3 .. Len(blocked) + 2
  <2>1. /\ Filter!Current.k = blocked[instr - 2] /\ Filter!Current.jf = 0
        /\ Filter!Current.jt = Len(blocked) - (instr - 3)
    BY <1>2, <1>3, <1>5 DEF FiHolds
  <2>2. acc = syscall.nr /\ syscall.arch = arch /\ \A i \in 1 .. instr - 3 : blocked[i] # syscall.nr
    BY <1>1, <1>2, <1>5 DEF FiPlace
  <2>3. CASE syscall.nr = blocked[instr - 2]
    <3>1. instr' = Len(blocked) + 4
      BY <1>1, <1>2, <1>5, <2>1, <2>2, <2>3
    <3>2. Filter!Forbidden'
      BY <1>1, <1>2, <1>5, <2>3 DEF Filter!Forbidden
    <3>3. FiPlace'
      BY <1>1, <1>2, <3>1, <3>2 DEF FiPlace
    <3>. QED
      BY <1>1, <3>3 DEF FiInv, FiVerdict
  <2>4. CASE syscall.nr # blocked[instr - 2]
    <3>1. instr' = instr + 1
      BY <1>1, <1>2, <2>1, <2>2, <2>4
    <3>2. \A i \in 1 .. instr' - 3 : blocked[i] # syscall.nr
      BY <1>2, <1>5, <2>2, <2>4, <3>1
    <3>3. FiPlace'
      BY <1>1, <1>2, <1>5, <2>2, <3>1, <3>2 DEF FiPlace
    <3>. QED
      BY <1>1, <3>3 DEF FiInv, FiVerdict
  <2>. QED
    BY <2>3, <2>4
<1>. QED
  BY <1>3, <1>4, <1>5

(* The two returns stand at the end, each at its own place.                *)
LEMMA FiReturnStep == ASSUME FiInv, Filter!Return PROVE FiInv'
<1>1. /\ Filter!Packed /\ FiPlace /\ Filter!Current.code \in {"allow", "kill"} /\ verdict' = Filter!Current.code
      /\ UNCHANGED <<arch, blocked, syscall, instr, acc>>
  BY DEF FiInv, Filter!Return
<1>2. blocked \in Seq(Numbers) /\ Len(blocked) \in Nat /\ instr \in 0 .. Len(blocked) + 4
  BY <1>1 DEF FiPlace
<1>3. \/ instr = Len(blocked) + 3 /\ verdict' = "allow"
      \/ instr = Len(blocked) + 4 /\ verdict' = "kill"
  BY <1>1, <1>2, FiCurrentIs DEF FiStanding, FiPlaces, FiHolds
<1>4. FiPlace'
  BY <1>1 DEF FiPlace, Filter!Forbidden
<1>. QED
  BY <1>1, <1>2, <1>3, <1>4 DEF FiInv, FiVerdict

LEMMA FiLists == ASSUME NEW a \in Archs PROVE Lists[a] \subseteq Seq(Numbers)
<1>1. Seq(Numbers) = UNION {[1 .. n -> Numbers] : n \in Nat}
  BY SeqDef
<1>2. 0 .. MaxList \subseteq Nat
  BY ServicesAssumption
<1>. QED
  BY <1>1, <1>2 DEF Lists

LEMMA FiInit == Filter!Init => FiInv
<1>. SUFFICES ASSUME Filter!Init PROVE FiInv
  OBVIOUS
<1>1. blocked \in Seq(Numbers) /\ instr = 0 /\ verdict = "none"
  BY FiLists DEF Filter!Init
<1>2. Len(blocked) \in Nat
  BY <1>1
<1>. QED
  BY <1>1, <1>2 DEF FiInv, FiPlace, FiVerdict

LEMMA FiStep ==
  ASSUME FiInv, Filter!Next
  PROVE  FiInv'
<1>1. CASE Filter!Unfiltered
  BY <1>1 DEF Filter!Unfiltered, FiInv, Filter!Packed
<1>2. CASE Filter!NextCall
  BY <1>2 DEF Filter!NextCall, FiInv, Filter!Packed, FiPlace, FiVerdict
<1>. QED
  BY <1>1, <1>2, FiLoadStep, FiCompareStep, FiReturnStep DEF Filter!Next

LEMMA FiRests == FiInv /\ UNCHANGED seccomp => FiInv'
  BY DEF seccomp, FiInv, Filter!Packed, FiPlace, FiVerdict, Filter!Forbidden

LEMMA FiExact ==
  ASSUME FiInv
  PROVE  FilterExact
<1>. SUFFICES ASSUME Filter!Packed
              PROVE  /\ instr < Filter!Size
                     /\ verdict = "allow" => ~Filter!Forbidden
                     /\ verdict = "kill" => Filter!Forbidden
  BY DEF FilterExact, Filter!FilterExact
<1>1. FiPlace /\ FiVerdict /\ Len(blocked) \in Nat
  BY DEF FiInv, FiPlace
<1>2. instr < Filter!Size
  BY <1>1 DEF FiPlace, Filter!Size
<1>3. ASSUME verdict = "allow" PROVE ~Filter!Forbidden
  BY <1>1, <1>3 DEF FiPlace, FiVerdict, Filter!Forbidden
<1>4. verdict = "kill" => Filter!Forbidden
  BY <1>1 DEF FiPlace, FiVerdict
<1>. QED
  BY <1>2, <1>3, <1>4

(* For lists of any length and every machine the filter kills a call       *)
(* exactly when it is forbidden, and never jumps past its end (sandbox.py).*)
THEOREM FilterIsExact == Spec => []FilterExact
<1>1. Init => FiInv
  BY FiInit DEF Init, ServicesAtRest
<1>2. FiInv /\ [Next]_services => FiInv'
  BY PartSteps, FiStep, FiRests
<1>. QED
  BY <1>1, <1>2, FiExact, PTL DEF Spec

-----------------------------------------------------------------------------
(* The commands and the gateway: as long as nothing muddles them, one      *)
(* command is on its way at most, and a gateway that is alive is the one   *)
(* of the PID file or the one that the command waits for.                  *)
WdTypes ==
  /\ DOMAIN gateways = Wade!Servers /\ DOMAIN command = Commands /\ DOMAIN mine = Commands
  /\ \A s \in Wade!Servers :
       gateways[s] = [at |-> gateways[s].at, port |-> gateways[s].port]
  /\ muddled \in BOOLEAN

WdKnown(s) ==
  pidFile = s /\ gateways[s].port = gatewayPort /\ gateways[s].at # "starting"

WdAwaited(s) == \A c \in Commands :
  /\ command[c] \in {"idle", "probing", "waiting"}
  /\ command[c] = "waiting" => mine[c] = s /\ gateways[s].port = gatewayPort

WdGateway(s) ==
  WdAwaited(s) /\ ((\A c \in Commands : command[c] # "waiting") => WdKnown(s))

WdOrder ==
  /\ \A c, d \in Commands : command[c] # "idle" /\ command[d] # "idle" => c = d
  /\ \A s, t \in Wade!Alive : s = t
  /\ \A s \in Wade!Alive : WdGateway(s)

WdInv == WdTypes /\ (~muddled => WdOrder)

LEMMA WdInit == Wade!Init => WdInv
<1>. SUFFICES ASSUME Wade!Init PROVE WdInv
  OBVIOUS
<1>1. \A s \in Wade!Servers : gateways[s] = [at |-> "none", port |-> 0]
  BY DEF Wade!Init
<1>2. DOMAIN gateways = Wade!Servers /\ DOMAIN command = Commands /\ DOMAIN mine = Commands
  BY DEF Wade!Init
<1>3. muddled \in BOOLEAN /\ \A c \in Commands : command[c] = "idle"
  BY DEF Wade!Init
<1>4. WdTypes
  BY <1>1, <1>2, <1>3 DEF WdTypes
<1>5. Wade!Alive = {}
  BY <1>1 DEF Wade!Alive, Wade!Up
<1>. QED
  BY <1>3, <1>4, <1>5 DEF WdInv, WdOrder

(* A gateway that is alive on the port of the file answers or is missed. *)
LEMMA WdAnswers ==
  ASSUME WdTypes, NEW s \in Wade!Alive, WdKnown(s)
  PROVE  Wade!IsRunning(gatewayPort) \/ Wade!Missed(gatewayPort)
  BY DEF WdTypes, WdKnown, Wade!Alive, Wade!Up, Wade!IsRunning, Wade!Missed

LEMMA WdRunning ==
  ASSUME NEW p, Wade!IsRunning(p)
  PROVE  \E s \in Wade!Alive : gateways[s].at = "up" /\ gateways[s].port = p
  BY DEF Wade!IsRunning, Wade!Alive, Wade!Up

(* A step of a command that changes no gateway. *)
LEMMA WdQuiet ==
  ASSUME WdTypes, NEW c \in Commands, NEW at, command' = [command EXCEPT ![c] = at],
         UNCHANGED <<gateways, mine>>, muddled' \in BOOLEAN
  PROVE  /\ WdTypes' /\ Wade!Alive' = Wade!Alive
         /\ command'[c] = at /\ \A d \in Commands \ {c} : command'[d] = command[d]
  BY DEF WdTypes, Wade!Alive

LEMMA WdEnded ==
  ASSUME WdTypes, NEW x, gateways' = Wade!Ended(x)
  PROVE  /\ Wade!Alive' = Wade!Alive \ {x}
         /\ \A s \in Wade!Alive' : gateways'[s] = gateways[s]
         /\ DOMAIN gateways' = Wade!Servers
         /\ \A s \in Wade!Servers :
              gateways'[s] = [at |-> gateways'[s].at, port |-> gateways'[s].port]
<1>1. DOMAIN gateways' = Wade!Servers
  BY DEF WdTypes, Wade!Ended
<1>2. \A s \in Wade!Servers \ {x} : gateways'[s] = gateways[s]
  BY DEF WdTypes, Wade!Ended
<1>3. x \in Wade!Servers => gateways'[x] = [at |-> "gone", port |-> gateways[x].port]
  BY DEF WdTypes, Wade!Ended
<1>. QED
  BY <1>1, <1>2, <1>3 DEF WdTypes, Wade!Alive, Wade!Up

LEMMA WdStart ==
  ASSUME WdInv, NEW c \in Commands, Wade!Start(c)
  PROVE  WdInv'
<1>1. /\ command[c] \in {"idle", "restarting"}
      /\ command' = [command EXCEPT ![c] = "probing"]
      /\ UNCHANGED <<gatewayPort, gateways, mine>>
      /\ pidFile' = IF Wade!IsRunning(gatewayPort) THEN pidFile ELSE 0
  BY DEF Wade!Start
<1>2. muddled' \in BOOLEAN /\ (~muddled' => ~muddled /\ Wade!Alone(c) /\ ~Wade!Missed(gatewayPort))
  BY Zenon DEF Wade!Start
<1>3. /\ WdTypes' /\ Wade!Alive' = Wade!Alive
      /\ command'[c] = "probing" /\ \A d \in Commands \ {c} : command'[d] = command[d]
  BY <1>1, <1>2, WdQuiet DEF WdInv
<1>4. ASSUME ~muddled'
      PROVE  WdOrder'
  <2>1. WdOrder /\ WdTypes
    BY <1>2, <1>4 DEF WdInv
  <2>2. \A d \in Commands \ {c} : command[d] = "idle" /\ command'[d] = "idle"
    BY <1>2, <1>3, <1>4 DEF Wade!Alone
  <2>3. ASSUME NEW s \in Wade!Alive PROVE WdKnown(s)
    <3>1. WdAwaited(s) /\ ((\A d \in Commands : command[d] # "waiting") => WdKnown(s))
      BY <2>1 DEF WdOrder, WdGateway
    <3>2. \A d \in Commands : command[d] # "waiting"
      BY <1>1, <2>2
    <3>. QED
      BY <3>1, <3>2
  <2>4. ASSUME NEW s \in Wade!Alive PROVE pidFile' = pidFile
    BY <1>1, <1>2, <1>4, <2>1, <2>3, WdAnswers
  <2>5. ASSUME NEW s \in Wade!Alive PROVE WdGateway(s)'
    <3>1. WdKnown(s)'
      BY <1>1, <2>3, <2>4 DEF WdKnown
    <3>2. WdAwaited(s)'
      BY <1>3, <2>2 DEF WdAwaited
    <3>. QED
      BY <3>1, <3>2 DEF WdGateway
  <2>. QED
    BY <1>3, <2>1, <2>2, <2>5 DEF WdOrder
<1>. QED
  BY <1>3, <1>4 DEF WdInv

LEMMA WdProbed ==
  ASSUME WdInv, NEW c \in Commands, Wade!AlreadyRunning(c) \/ Wade!EnsureModelsReady(c)
  PROVE  WdInv'
<1>1. PICK at \in {"idle", "preparing"} :
        /\ command[c] = "probing"
        /\ command' = [command EXCEPT ![c] = at]
        /\ UNCHANGED <<gatewayPort, gateways, mine, pidFile>>
        /\ at = "preparing" => ~Wade!IsRunning(gatewayPort)
  BY DEF Wade!AlreadyRunning, Wade!EnsureModelsReady
<1>2. /\ muddled' \in BOOLEAN
      /\ ~muddled' => ~muddled
      /\ ~muddled' /\ Wade!EnsureModelsReady(c) => ~Wade!Missed(gatewayPort)
  BY Zenon DEF Wade!AlreadyRunning, Wade!EnsureModelsReady, WdInv, WdTypes
<1>3. at = "preparing" => Wade!EnsureModelsReady(c)
  <2>1. command'[c] = at
    BY <1>1 DEF WdInv, WdTypes
  <2>2. Wade!AlreadyRunning(c) => command'[c] = "idle"
    BY DEF Wade!AlreadyRunning, WdInv, WdTypes
  <2>. QED
    BY <2>1, <2>2
<1>4. /\ WdTypes' /\ Wade!Alive' = Wade!Alive
      /\ command'[c] = at /\ \A d \in Commands \ {c} : command'[d] = command[d]
  BY <1>1, <1>2, WdQuiet DEF WdInv
<1>5. ASSUME ~muddled'
      PROVE  WdOrder'
  <2>1. WdOrder /\ WdTypes
    BY <1>2, <1>5 DEF WdInv
  <2>2. \A d \in Commands \ {c} : command[d] = "idle" /\ command'[d] = "idle"
    BY <1>1, <1>4, <2>1 DEF WdOrder
  <2>3. ASSUME NEW s \in Wade!Alive PROVE WdKnown(s)
    <3>1. WdAwaited(s) /\ ((\A d \in Commands : command[d] # "waiting") => WdKnown(s))
      BY <2>1 DEF WdOrder, WdGateway
    <3>2. \A d \in Commands : command[d] # "waiting"
      BY <1>1, <2>2
    <3>. QED
      BY <3>1, <3>2
  <2>4. ASSUME NEW s \in Wade!Alive PROVE at = "idle"
    BY <1>1, <1>2, <1>3, <1>5, <2>1, <2>3, WdAnswers
  <2>5. ASSUME NEW s \in Wade!Alive PROVE WdGateway(s)'
    <3>1. WdKnown(s)'
      BY <1>1, <2>3 DEF WdKnown
    <3>2. WdAwaited(s)'
      BY <1>4, <2>2, <2>4 DEF WdAwaited
    <3>. QED
      BY <3>1, <3>2 DEF WdGateway
  <2>. QED
    BY <1>4, <2>1, <2>2, <2>5 DEF WdOrder
<1>. QED
  BY <1>4, <1>5 DEF WdInv

(* The command gives up, or cleans up: no gateway is alive then. *)
LEMMA WdEmpty ==
  ASSUME WdInv, NEW c \in Commands, Wade!GiveUp(c) \/ Wade!CleanUp(c)
  PROVE  WdInv'
<1>1. /\ command[c] \in {"preparing", "stopping", "stopping to restart"}
      /\ UNCHANGED <<gatewayPort, gateways, mine>>
  BY DEF Wade!GiveUp, Wade!CleanUp
<1>2. PICK at : command' = [command EXCEPT ![c] = at]
  BY DEF Wade!GiveUp, Wade!CleanUp
<1>3. muddled' = muddled /\ muddled \in BOOLEAN
  BY DEF Wade!GiveUp, Wade!CleanUp, WdInv, WdTypes
<1>4. /\ WdTypes' /\ Wade!Alive' = Wade!Alive
      /\ \A d \in Commands \ {c} : command'[d] = command[d]
  BY <1>1, <1>2, <1>3, WdQuiet DEF WdInv
<1>5. ASSUME ~muddled'
      PROVE  WdOrder'
  <2>1. WdOrder
    BY <1>3, <1>5 DEF WdInv
  <2>2. \A d \in Commands \ {c} : command[d] = "idle" /\ command'[d] = "idle"
    BY <1>1, <1>4, <2>1 DEF WdOrder
  <2>3. Wade!Alive = {}
    BY <1>1, <2>1 DEF WdOrder, WdGateway, WdAwaited
  <2>. QED
    BY <1>4, <2>2, <2>3 DEF WdOrder
<1>. QED
  BY <1>4, <1>5 DEF WdInv

LEMMA WdLaunch ==
  ASSUME WdInv, NEW c \in Commands, Wade!Launch(c)
  PROVE  WdInv'
<1>. DEFINE new == [at |-> "starting", port |-> Wade!FreePort]
<1>1. /\ command[c] = "preparing" /\ command' = [command EXCEPT ![c] = "waiting"]
      /\ gatewayPort' = Wade!FreePort
      /\ gateways' = [gateways EXCEPT ![launched'] = new]
      /\ mine' = [mine EXCEPT ![c] = launched']
      /\ muddled' = muddled
  BY DEF Wade!Launch
<1>2. PICK n : n = launched'
  OBVIOUS
<1>3. PICK free : free = Wade!FreePort
  OBVIOUS
<1>4. /\ DOMAIN gateways' = Wade!Servers /\ \A s \in Wade!Servers \ {n} : gateways'[s] = gateways[s]
      /\ n \in Wade!Servers => gateways'[n] = [at |-> "starting", port |-> free]
  BY <1>1, <1>2, <1>3 DEF WdInv, WdTypes
<1>5. Wade!Alive' \subseteq Wade!Alive \cup {n}
  BY <1>4 DEF Wade!Alive, Wade!Up
<1>6. /\ DOMAIN command' = Commands /\ DOMAIN mine' = Commands
      /\ command'[c] = "waiting" /\ mine'[c] = n
      /\ \A d \in Commands \ {c} : command'[d] = command[d]
  BY <1>1, <1>2 DEF WdInv, WdTypes
<1>7. WdTypes'
  BY <1>1, <1>4, <1>6 DEF WdInv, WdTypes
<1>8. ASSUME ~muddled'
      PROVE  WdOrder'
  <2>1. WdOrder
    BY <1>1, <1>8 DEF WdInv
  <2>2. \A d \in Commands \ {c} : command'[d] = "idle"
    BY <1>1, <1>6, <2>1 DEF WdOrder
  <2>3. Wade!Alive = {}
    BY <1>1, <2>1 DEF WdOrder, WdGateway, WdAwaited
  <2>4. ASSUME NEW s \in Wade!Alive' PROVE WdGateway(s)'
    <3>1. s = n /\ gateways'[s].port = gatewayPort'
      BY <1>1, <1>3, <1>4, <1>5, <2>3 DEF Wade!Alive
    <3>. QED
      BY <1>6, <2>2, <3>1 DEF WdGateway, WdAwaited
  <2>. QED
    BY <1>5, <2>2, <2>3, <2>4 DEF WdOrder
<1>. QED
  BY <1>7, <1>8 DEF WdInv

LEMMA WdHealthy ==
  ASSUME WdInv, NEW c \in Commands, Wade!Healthy(c)
  PROVE  WdInv'
<1>1. /\ command[c] = "waiting" /\ command' = [command EXCEPT ![c] = "idle"]
      /\ Wade!IsRunning(gatewayPort) /\ pidFile' = mine[c]
      /\ UNCHANGED <<gatewayPort, gateways, mine, muddled>>
  BY DEF Wade!Healthy
<1>2. muddled' \in BOOLEAN
  BY <1>1 DEF WdInv, WdTypes
<1>3. /\ WdTypes' /\ Wade!Alive' = Wade!Alive
      /\ command'[c] = "idle" /\ \A d \in Commands \ {c} : command'[d] = command[d]
  BY <1>1, <1>2, WdQuiet DEF WdInv
<1>4. ASSUME ~muddled'
      PROVE  WdOrder'
  <2>1. WdOrder
    BY <1>1, <1>4 DEF WdInv
  <2>2. \A d \in Commands : command'[d] = "idle"
    BY <1>1, <1>3, <2>1 DEF WdOrder
  <2>3. ASSUME NEW s \in Wade!Alive PROVE WdGateway(s)'
    <3>1. gateways[s].at = "up" /\ gateways[s].port = gatewayPort
      BY <1>1, <2>1, WdRunning DEF WdOrder
    <3>2. mine[c] = s
      BY <1>1, <2>1 DEF WdOrder, WdGateway, WdAwaited
    <3>3. WdKnown(s)'
      BY <1>1, <3>1, <3>2 DEF WdKnown
    <3>. QED
      BY <2>2, <3>3 DEF WdGateway, WdAwaited
  <2>. QED
    BY <1>3, <2>1, <2>2, <2>3 DEF WdOrder
<1>. QED
  BY <1>3, <1>4 DEF WdInv

(* The end of the gateway that the command knows leaves none. *)
LEMMA WdNone ==
  ASSUME WdInv, NEW c \in Commands, NEW at, NEW x,
         command' = [command EXCEPT ![c] = at], UNCHANGED mine, muddled' \in BOOLEAN,
         gateways' = Wade!Ended(x),
         ~muddled' => /\ ~muddled /\ Wade!Alone(c)
                      /\ \A s \in Wade!Alive : s = x
  PROVE  WdInv'
<1>1. /\ Wade!Alive' = Wade!Alive \ {x} /\ DOMAIN gateways' = Wade!Servers
      /\ \A s \in Wade!Servers :
           gateways'[s] = [at |-> gateways'[s].at, port |-> gateways'[s].port]
  BY WdEnded DEF WdInv
<1>2. /\ DOMAIN command' = Commands
      /\ \A d \in Commands \ {c} : command'[d] = command[d]
  BY DEF WdInv, WdTypes
<1>3. WdTypes'
  BY <1>1, <1>2 DEF WdInv, WdTypes
<1>4. ASSUME ~muddled'
      PROVE  WdOrder'
  <2>1. Wade!Alive' = {}
    BY <1>1, <1>4
  <2>2. \A d \in Commands \ {c} : command'[d] = "idle"
    BY <1>2, <1>4 DEF Wade!Alone
  <2>. QED
    BY <2>1, <2>2 DEF WdOrder
<1>. QED
  BY <1>3, <1>4 DEF WdInv

LEMMA WdUnhealthy ==
  ASSUME WdInv, NEW c \in Commands, Wade!Unhealthy(c)
  PROVE  WdInv'
<1>1. /\ command[c] = "waiting" /\ command' = [command EXCEPT ![c] = "idle"]
      /\ gateways' = Wade!Ended(mine[c])
      /\ UNCHANGED <<mine, muddled>>
  BY DEF Wade!Unhealthy
<1>2. muddled' \in BOOLEAN
  BY <1>1 DEF WdInv, WdTypes
<1>3. ASSUME ~muddled'
      PROVE  ~muddled /\ Wade!Alone(c) /\ \A s \in Wade!Alive : s = mine[c]
  <2>1. ~muddled /\ WdOrder
    BY <1>1, <1>3 DEF WdInv
  <2>2. Wade!Alone(c)
    BY <1>1, <2>1 DEF WdOrder, Wade!Alone
  <2>3. \A s \in Wade!Alive : s = mine[c]
    BY <1>1, <2>1 DEF WdOrder, WdGateway, WdAwaited
  <2>. QED
    BY <2>1, <2>2, <2>3
<1>. QED
  BY <1>1, <1>2, <1>3, WdNone

LEMMA WdStop ==
  ASSUME WdInv, NEW c \in Commands, Wade!Stop(c)
  PROVE  WdInv'
<1>1. /\ command[c] = "idle" /\ UNCHANGED <<gatewayPort, mine, pidFile>>
      /\ gateways' = IF Wade!IsRunning(gatewayPort) /\ pidFile # 0
                     THEN Wade!Ended(pidFile) ELSE gateways
  BY DEF Wade!Stop
<1>2. PICK at : command' = [command EXCEPT ![c] = at]
  BY DEF Wade!Stop
<1>3. muddled' \in BOOLEAN /\ (~muddled' => ~muddled /\ Wade!Alone(c) /\ ~Wade!Missed(gatewayPort))
  BY Zenon DEF Wade!Stop
<1>4. ASSUME ~muddled'
      PROVE  \A s \in Wade!Alive : s = pidFile /\ Wade!IsRunning(gatewayPort)
  <2>1. WdOrder /\ WdTypes /\ \A d \in Commands : command[d] = "idle"
    BY <1>1, <1>3, <1>4 DEF WdInv, Wade!Alone
  <2>2. ASSUME NEW s \in Wade!Alive PROVE WdKnown(s)
    BY <2>1 DEF WdOrder, WdGateway
  <2>3. ASSUME NEW s \in Wade!Alive PROVE s = pidFile
    BY <2>2 DEF WdKnown
  <2>. QED
    BY <1>3, <1>4, <2>1, <2>2, <2>3, WdAnswers
<1>5. CASE gateways' = Wade!Ended(pidFile)
  BY <1>1, <1>2, <1>3, <1>4, <1>5, WdNone
<1>6. CASE ~(Wade!IsRunning(gatewayPort) /\ pidFile # 0)
  <2>1. gateways' = gateways
    BY <1>1, <1>6
  <2>2. /\ WdTypes' /\ Wade!Alive' = Wade!Alive
        /\ \A d \in Commands \ {c} : command'[d] = command[d]
    BY <1>1, <1>2, <1>3, <2>1, WdQuiet DEF WdInv
  <2>3. ASSUME ~muddled'
        PROVE  WdOrder'
    <3>1. 0 \notin Wade!Alive
      BY DEF Wade!Alive, Wade!Servers
    <3>2. Wade!Alive = {}
      BY <1>4, <1>6, <2>3, <3>1
    <3>3. \A d \in Commands \ {c} : command'[d] = "idle"
      BY <1>3, <2>2, <2>3 DEF Wade!Alone
    <3>. QED
      BY <2>2, <3>2, <3>3 DEF WdOrder
  <2>. QED
    BY <2>2, <2>3 DEF WdInv
<1>. QED
  BY <1>1, <1>5, <1>6

LEMMA WdInterrupt ==
  ASSUME WdInv, NEW c \in Commands, Wade!Interrupt(c)
  PROVE  WdInv'
<1>1. /\ command' = [command EXCEPT ![c] = "idle"] /\ UNCHANGED <<gateways, mine>>
      /\ muddled' = TRUE
  BY DEF Wade!Interrupt
<1>. QED
  BY <1>1, WdQuiet DEF WdInv

(* A gateway binds its port, is busy for a while, or dies. *)
LEMMA WdTurns ==
  ASSUME WdInv, NEW s \in Wade!Servers, Wade!Bind(s) \/ Wade!Turn(s)
  PROVE  WdInv'
<1>1. UNCHANGED <<gatewayPort, pidFile, command, mine, muddled>>
  BY DEF Wade!Bind, Wade!Turn
<1>2. CASE gateways' = Wade!Ended(s)
  <2>1. /\ Wade!Alive' = Wade!Alive \ {s} /\ DOMAIN gateways' = Wade!Servers
        /\ \A t \in Wade!Alive' : gateways'[t] = gateways[t]
        /\ \A t \in Wade!Servers :
             gateways'[t] = [at |-> gateways'[t].at, port |-> gateways'[t].port]
    BY <1>2, WdEnded DEF WdInv
  <2>2. WdTypes'
    BY <1>1, <2>1 DEF WdInv, WdTypes
  <2>3. WdOrder => WdOrder'
    BY <1>1, <2>1 DEF WdOrder, WdGateway, WdAwaited, WdKnown
  <2>. QED
    BY <1>1, <2>2, <2>3 DEF WdInv
<1>3. CASE \E at \in {"up", "busy"} :
             s \in Wade!Alive /\ gateways' = [gateways EXCEPT ![s].at = at]
  <2>1. PICK at \in {"up", "busy"} :
          s \in Wade!Alive /\ gateways' = [gateways EXCEPT ![s].at = at]
    BY <1>3
  <2>2. /\ DOMAIN gateways' = Wade!Servers
        /\ gateways'[s] = [at |-> at, port |-> gateways[s].port]
        /\ \A t \in Wade!Servers \ {s} : gateways'[t] = gateways[t]
    BY <2>1 DEF WdInv, WdTypes
  <2>3. Wade!Alive' = Wade!Alive
    <3>1. \A t \in Wade!Servers : (t \in Wade!Alive)' <=> t \in Wade!Alive
      <4>1. gateways'[s].at \in {"up", "busy"}
        BY <2>1, <2>2
      <4>. QED
        BY <2>1, <2>2, <4>1 DEF Wade!Alive, Wade!Up
    <3>. QED
      BY <3>1 DEF Wade!Alive
  <2>4. WdTypes'
    BY <1>1, <2>2 DEF WdInv, WdTypes
  <2>5. \A t \in Wade!Servers : /\ gateways'[t].port = gateways[t].port
                                /\ gateways[t].at # "starting" => gateways'[t].at # "starting"
    BY <2>2
  <2>6. ASSUME WdOrder, NEW t \in Wade!Alive PROVE WdGateway(t)'
    <3>1. t \in Wade!Servers /\ WdGateway(t)
      BY <2>6 DEF WdOrder, Wade!Alive
    <3>. QED
      BY <1>1, <2>5, <3>1 DEF WdGateway, WdAwaited, WdKnown
  <2>7. WdOrder => WdOrder'
    BY <1>1, <2>3, <2>6 DEF WdOrder
  <2>. QED
    BY <1>1, <2>4, <2>7 DEF WdInv
<1>4. \/ gateways' = Wade!Ended(s)
      \/ \E at \in {"up", "busy"} :
           s \in Wade!Alive /\ gateways' = [gateways EXCEPT ![s].at = at]
  BY DEF Wade!Bind, Wade!Turn, Wade!Alive, Wade!Up
<1>. QED
  BY <1>2, <1>3, <1>4

LEMMA WdStep ==
  ASSUME WdInv, Wade!Next
  PROVE  WdInv'
<1>1. ASSUME NEW c \in Commands,
             \/ Wade!Start(c) \/ Wade!AlreadyRunning(c) \/ Wade!EnsureModelsReady(c)
             \/ Wade!GiveUp(c) \/ Wade!Launch(c) \/ Wade!Healthy(c) \/ Wade!Unhealthy(c)
             \/ Wade!Stop(c) \/ Wade!CleanUp(c) \/ Wade!Interrupt(c)
      PROVE  WdInv'
  BY <1>1, WdStart, WdProbed, WdEmpty, WdLaunch, WdHealthy, WdUnhealthy, WdStop, WdInterrupt,
     Zenon
<1>2. ASSUME NEW s \in Wade!Servers, Wade!Bind(s) \/ Wade!Turn(s)
      PROVE  WdInv'
  BY <1>2, WdTurns
<1>. QED
  BY <1>1, <1>2, Zenon DEF Wade!Next

LEMMA WdRests == WdInv /\ UNCHANGED daemon => WdInv'
  BY DEF WdInv, WdTypes, WdOrder, WdGateway, WdAwaited, WdKnown, Wade!Alive, Wade!Servers,
     Wade!Up, daemon

LEMMA WdIsKnown ==
  ASSUME WdInv
  PROVE  GatewayIsKnown
<1>1. ASSUME ~muddled
      PROVE  /\ \A s, t \in Wade!Alive : s = t
             /\ (\A c \in Commands : command[c] = "idle") => \A s \in Wade!Alive : WdKnown(s)
  BY <1>1 DEF WdInv, WdOrder, WdGateway
<1>. QED
  BY <1>1, Zenon DEF GatewayIsKnown, Wade!GatewayIsKnown, WdKnown

(* As long as no command is muddled there is one gateway at most, and the  *)
(* PID file knows it, for any number of commands, ports and starts         *)
(* (daemon.py, cli.py).                                                    *)
THEOREM GatewayStaysKnown == Spec => []GatewayIsKnown
<1>1. Init => WdInv
  BY WdInit DEF Init, ServicesAtRest
<1>2. WdInv /\ [Next]_services => WdInv'
  BY PartSteps, WdStep, WdRests
<1>. QED
  BY <1>1, <1>2, WdIsKnown, PTL DEF Spec

-----------------------------------------------------------------------------
(* The stream of the model: what the caller has and what is held back are  *)
(* what the model wrote less some tags.                                    *)
StTexts == Seq(Chars)

(* Induction up to a bound, over a set.                                    *)
LEMMA StUpTo ==
  ASSUME NEW n \in Nat, NEW G, 0 \in G, \A k \in 1 .. n : k - 1 \in G => k \in G
  PROVE  \A k \in 0 .. n : k \in G
<1>. DEFINE Bad == {k \in 0 .. n : k \notin G}
<1>1. SUFFICES ASSUME Bad # {} PROVE FALSE
  OBVIOUS
<1>2. Bad \in SUBSET Nat
  OBVIOUS
<1>3. IsWellFoundedOn(OpToRel(<, Nat), Nat)
  BY NatLessThanWellFounded
<1>4. PICK m \in Bad : \A k \in Bad : <<k, m>> \notin OpToRel(<, Nat)
  <2>. HIDE DEF Bad
  <2>. QED
    BY <1>1, <1>2, <1>3, WFMin
<1>5. \A k \in Bad : ~(k < m)
  BY <1>2, <1>4 DEF OpToRel
<1>6. m \in 1 .. n /\ m - 1 \in 0 .. n /\ m - 1 < m
  <2>1. m \in 0 .. n /\ m # 0
    OBVIOUS
  <2>. QED
    BY <2>1
<1>7. m - 1 \in G
  BY <1>5, <1>6
<1>8. m \in G
  BY <1>6, <1>7
<1>. QED
  BY <1>8

(* A function that is given step by step exists.                           *)
LEMMA StChain ==
  ASSUME NEW A, NEW b \in A, NEW n \in Nat, NEW h \in [1 .. n -> [A -> A]]
  PROVE  \E f \in [0 .. n -> A] : f[0] = b /\ \A k \in 1 .. n : f[k] = h[k][f[k - 1]]
<1>. DEFINE Steps(f, m) == f[0] = b /\ \A k \in 1 .. m : f[k] = h[k][f[k - 1]]
            G == {m \in 0 .. n : \E f \in [0 .. m -> A] : Steps(f, m)}
<1>1. 0 \in G
  <2>. DEFINE f == [k \in 0 .. 0 |-> b]
  <2>1. f \in [0 .. 0 -> A] /\ Steps(f, 0)
    OBVIOUS
  <2>. HIDE DEF f, Steps
  <2>2. \E g \in [0 .. 0 -> A] : Steps(g, 0)
    BY <2>1
  <2>. QED
    BY <2>2
<1>2. ASSUME NEW m \in 1 .. n, m - 1 \in G PROVE m \in G
  <2>1. PICK f \in [0 .. m - 1 -> A] : Steps(f, m - 1)
    BY <1>2
  <2>. DEFINE g == [k \in 0 .. m |-> IF k < m THEN f[k] ELSE h[m][f[m - 1]]]
  <2>2. m - 1 \in 0 .. m - 1 /\ f[m - 1] \in A
    BY <2>1
  <2>3. h[m] \in [A -> A] /\ h[m][f[m - 1]] \in A
    BY <2>2
  <2>4. g \in [0 .. m -> A]
    <3>1. \A k \in 0 .. m : k < m => f[k] \in A
      BY <2>1
    <3>. QED
      BY <2>3, <3>1
  <2>5. g[0] = b
    BY <2>1
  <2>6. ASSUME NEW k \in 1 .. m PROVE g[k] = h[k][g[k - 1]]
    <3>1. g[k - 1] = f[k - 1]
      OBVIOUS
    <3>2. CASE k < m
      <4>1. k \in 1 .. m - 1 /\ g[k] = f[k]
        BY <3>2
      <4>. QED
        BY <2>1, <3>1, <4>1
    <3>3. CASE k = m
      BY <3>1, <3>3
    <3>. QED
      BY <3>2, <3>3
  <2>7. Steps(g, m)
    BY <2>5, <2>6
  <2>. HIDE DEF g, Steps
  <2>. QED
    BY <2>4, <2>7
<1>3. n \in G
  <2>1. \A m \in 1 .. n : m - 1 \in G => m \in G
    BY <1>2
  <2>. HIDE DEF G
  <2>. QED
    BY <1>1, <2>1, n \in 0 .. n, StUpTo
<1>. QED
  BY <1>3

(* A tag at a place splits a text, and what is left are the two parts.     *)
LEMMA StSplit ==
  ASSUME NEW s \in StTexts, NEW tag \in StTexts, NEW i \in Infer!Places(s, tag)
  PROVE  \E p, q \in StTexts : s = (p \o tag) \o q /\ Infer!Cut(s, i, tag) = p \o q
<1>. USE DEF StTexts
<1>1. /\ i \in 1 .. Len(s) /\ i + Len(tag) - 1 <= Len(s)
      /\ SubSeq(s, i, i + Len(tag) - 1) = tag
      /\ Len(s) \in Nat /\ Len(tag) \in Nat
  BY DEF Infer!Places
<1>. DEFINE p == SubSeq(s, 1, i - 1)
            q == SubSeq(s, i + Len(tag), Len(s))
            e == i + Len(tag) - 1
<1>2. e \in 0 .. Len(s) /\ e + 1 = i + Len(tag) /\ e \in i - 1 .. Len(s)
  BY <1>1
<1>3. p \in StTexts /\ q \in StTexts
  <2>1. /\ 1 \in Int /\ i - 1 \in Int /\ i + Len(tag) \in Int /\ Len(s) \in Int
        /\ \A j \in 1 .. i - 1 : s[j] \in Chars
        /\ \A j \in i + Len(tag) .. Len(s) : s[j] \in Chars
    BY <1>1
  <2>. QED
    BY <2>1, SubSeqProperties
<1>4. p \o tag = SubSeq(s, 1, e)
  <2>1. 1 \in 1 .. Len(s) + 1 /\ i - 1 \in 1 - 1 .. Len(s) /\ (i - 1) + 1 = i
    BY <1>1
  <2>2. SubSeq(s, 1, i - 1) \o SubSeq(s, (i - 1) + 1, e) = SubSeq(s, 1, e)
    BY <1>2, <2>1, ConcatAdjacentSubSeq
  <2>. QED
    BY <1>1, <2>1, <2>2
<1>5. SubSeq(s, 1, e) \o q = s
  <2>1. 1 \in 1 .. Len(s) + 1 /\ e \in 1 - 1 .. Len(s) /\ Len(s) \in e .. Len(s)
    BY <1>1, <1>2
  <2>2. SubSeq(s, 1, e) \o SubSeq(s, e + 1, Len(s)) = SubSeq(s, 1, Len(s))
    BY <2>1, ConcatAdjacentSubSeq
  <2>. QED
    BY <1>2, <2>2, SubSeqFull
<1>6. Infer!Cut(s, i, tag) = p \o q
  BY DEF Infer!Cut
<1>. HIDE DEF p, q
<1>. QED
  BY <1>3, <1>4, <1>5, <1>6

LEMMA StJoin ==
  ASSUME NEW p \in StTexts, NEW q \in StTexts, NEW tag \in StTexts, tag # <<>>
  PROVE  \E i \in Infer!Places((p \o tag) \o q, tag) :
           Infer!Cut((p \o tag) \o q, i, tag) = p \o q
<1>. USE DEF StTexts
<1>. DEFINE pt == p \o tag
            s == pt \o q
            i == Len(p) + 1
<1>1. /\ Len(p) \in Nat /\ Len(q) \in Nat /\ Len(tag) \in Nat \ {0}
  BY EmptySeq
<1>2. /\ pt \in Seq(Chars) /\ Len(pt) = Len(p) + Len(tag)
      /\ \A j \in 1 .. Len(p) + Len(tag) :
           pt[j] = IF j <= Len(p) THEN p[j] ELSE tag[j - Len(p)]
  BY ConcatProperties
<1>. HIDE DEF pt
<1>3. /\ s \in Seq(Chars) /\ Len(s) = Len(pt) + Len(q)
      /\ \A j \in 1 .. Len(pt) + Len(q) :
           s[j] = IF j <= Len(pt) THEN pt[j] ELSE q[j - Len(pt)]
  <2>1. pt \o q \in Seq(Chars) /\ Len(pt \o q) = Len(pt) + Len(q)
    BY <1>2, ConcatProperties
  <2>2. \A j \in 1 .. Len(pt) + Len(q) :
          (pt \o q)[j] = IF j <= Len(pt) THEN pt[j] ELSE q[j - Len(pt)]
    BY <1>2, ConcatProperties
  <2>. QED
    BY <2>1, <2>2
<1>. HIDE DEF s
<1>4. i \in 1 .. Len(s) /\ i + Len(tag) - 1 = Len(pt) /\ Len(pt) <= Len(s)
      /\ i + Len(tag) = Len(pt) + 1 /\ i - 1 = Len(p)
  BY <1>1, <1>2, <1>3
<1>5. SubSeq(s, i, Len(pt)) = tag
  <2>. DEFINE u == SubSeq(s, i, Len(pt))
  <2>1. /\ u \in Seq(Chars) /\ Len(u) = IF i <= Len(pt) THEN Len(pt) - i + 1 ELSE 0
        /\ \A j \in 1 .. Len(pt) - i + 1 : u[j] = s[i + j - 1]
    <3>1. i \in Int /\ Len(pt) \in Int /\ \A j \in i .. Len(pt) : s[j] \in Chars
      BY <1>1, <1>2, <1>3, <1>4
    <3>. QED
      BY <3>1, SubSeqProperties
  <2>. HIDE DEF u
  <2>2. Len(u) = Len(tag)
    BY <1>1, <1>2, <1>4, <2>1
  <2>3. ASSUME NEW j \in 1 .. Len(u) PROVE u[j] = tag[j]
    <3>1. u[j] = s[i + j - 1] /\ i + j - 1 = Len(p) + j /\ Len(p) + j \in 1 .. Len(pt)
      BY <1>1, <1>2, <1>4, <2>1, <2>2
    <3>2. s[Len(p) + j] = pt[Len(p) + j]
      BY <1>1, <1>2, <1>3, <3>1
    <3>3. pt[Len(p) + j] = tag[j]
      <4>1. /\ Len(p) + j \in 1 .. Len(p) + Len(tag) /\ ~(Len(p) + j <= Len(p))
            /\ (Len(p) + j) - Len(p) = j
        BY <1>1, <2>2
      <4>. QED
        BY <1>2, <4>1
    <3>. QED
      BY <3>1, <3>2, <3>3
  <2>4. u = tag
    BY <2>1, <2>2, <2>3, SeqEqual
  <2>. QED
    BY <2>4 DEF u
<1>6. i \in Infer!Places(s, tag)
  BY <1>4, <1>5 DEF Infer!Places
<1>7. SubSeq(s, 1, Len(p)) = p
  <2>. DEFINE u == SubSeq(s, 1, Len(p))
  <2>1. /\ u \in Seq(Chars) /\ Len(u) = IF 1 <= Len(p) THEN Len(p) - 1 + 1 ELSE 0
        /\ \A j \in 1 .. Len(p) - 1 + 1 : u[j] = s[1 + j - 1]
    <3>1. 1 \in Int /\ Len(p) \in Int /\ \A j \in 1 .. Len(p) : s[j] \in Chars
      BY <1>1, <1>2, <1>3
    <3>. QED
      BY <3>1, SubSeqProperties
  <2>. HIDE DEF u
  <2>2. Len(u) = Len(p)
    BY <1>1, <2>1
  <2>3. ASSUME NEW j \in 1 .. Len(u) PROVE u[j] = p[j]
    <3>1. u[j] = s[j] /\ j \in 1 .. Len(p)
      BY <1>1, <2>1, <2>2
    <3>2. s[j] = pt[j]
      BY <1>1, <1>2, <1>3, <3>1
    <3>3. pt[j] = p[j]
      <4>1. j \in 1 .. Len(p) + Len(tag) /\ j <= Len(p)
        BY <1>1, <3>1
      <4>. QED
        BY <1>2, <4>1
    <3>. QED
      BY <3>1, <3>2, <3>3
  <2>4. u = p
    BY <2>1, <2>2, <2>3, SeqEqual
  <2>. QED
    BY <2>4 DEF u
<1>8. SubSeq(s, Len(pt) + 1, Len(s)) = q
  <2>. DEFINE u == SubSeq(s, Len(pt) + 1, Len(s))
  <2>1. /\ u \in Seq(Chars)
        /\ Len(u) = IF Len(pt) + 1 <= Len(s) THEN Len(s) - (Len(pt) + 1) + 1 ELSE 0
        /\ \A j \in 1 .. Len(s) - (Len(pt) + 1) + 1 : u[j] = s[(Len(pt) + 1) + j - 1]
    <3>1. Len(pt) + 1 \in Int /\ Len(s) \in Int /\ \A j \in Len(pt) + 1 .. Len(s) : s[j] \in Chars
      BY <1>1, <1>2, <1>3
    <3>. QED
      BY <3>1, SubSeqProperties
  <2>. HIDE DEF u
  <2>2. Len(u) = Len(q)
    BY <1>1, <1>2, <1>3, <2>1
  <2>3. ASSUME NEW j \in 1 .. Len(u) PROVE u[j] = q[j]
    <3>1. u[j] = s[Len(pt) + j] /\ j \in 1 .. Len(q)
      <4>1. Len(pt) \in Nat /\ Len(s) = Len(pt) + Len(q)
        BY <1>1, <1>2, <1>3
      <4>2. j \in 1 .. Len(q) /\ j \in 1 .. Len(s) - (Len(pt) + 1) + 1
        BY <1>1, <2>2, <4>1
      <4>3. (Len(pt) + 1) + j - 1 = Len(pt) + j
        BY <4>1, <4>2
      <4>. QED
        BY <2>1, <4>2, <4>3
    <3>2. s[Len(pt) + j] = q[j]
      <4>1. Len(pt) \in Nat
        BY <1>1, <1>2
      <4>2. /\ Len(pt) + j \in 1 .. Len(pt) + Len(q) /\ ~(Len(pt) + j <= Len(pt))
            /\ (Len(pt) + j) - Len(pt) = j
        BY <1>1, <3>1, <4>1
      <4>. QED
        BY <1>3, <4>2
    <3>. QED
      BY <3>1, <3>2
  <2>4. u = q
    BY <2>1, <2>2, <2>3, SeqEqual
  <2>. QED
    BY <2>4 DEF u
<1>9. Infer!Cut(s, i, tag) = p \o q
  BY <1>4, <1>7, <1>8 DEF Infer!Cut
<1>. QED
  BY <1>6, <1>9 DEF s, pt

LEMMA StTags ==
  ASSUME NEW k \in 1 .. Len(Tags)
  PROVE  Tags[k] \in StTexts /\ Tags[k] # <<>>
BY ServicesAssumption DEF StTexts

LEMMA StTagCount == Len(Tags) \in Nat
BY ServicesAssumption, LenProperties

LEMMA StConcat ==
  ASSUME NEW p \in StTexts, NEW q \in StTexts
  PROVE  p \o q \in StTexts /\ Len(p \o q) = Len(p) + Len(q)
BY ConcatProperties DEF StTexts

LEMMA StAssoc ==
  ASSUME NEW a \in StTexts, NEW b \in StTexts, NEW c \in StTexts
  PROVE  (a \o b) \o c = a \o (b \o c)
BY ConcatAssociative DEF StTexts

LEMMA StInside ==
  ASSUME NEW x \in StTexts, NEW p \in StTexts, NEW q \in StTexts, NEW y \in StTexts
  PROVE  (x \o (p \o q)) \o y = (x \o p) \o (q \o y)
<1>1. PICK xp \in StTexts : xp = x \o p
  BY StConcat
<1>2. (x \o p) \o q = x \o (p \o q)
  BY StAssoc
<1>3. (xp \o q) \o y = xp \o (q \o y)
  BY StAssoc
<1>. QED
  BY <1>1, <1>2, <1>3, Zenon

LEMMA StLen == \A s \in StTexts : Len(s) \in Nat
BY LenProperties DEF StTexts

(* What is left of a text when one tag is taken out.                       *)
LEMMA StOneOut ==
  ASSUME NEW s \in StTexts, NEW v \in Infer!Shorter(s)
  PROVE  \E k \in 1 .. Len(Tags), p, q \in StTexts : s = (p \o Tags[k]) \o q /\ v = p \o q
<1>1. PICK k \in 1 .. Len(Tags) :
        \E i \in Infer!Places(s, Tags[k]) : v = Infer!Cut(s, i, Tags[k])
  BY DEF Infer!Shorter
<1>2. PICK i \in Infer!Places(s, Tags[k]) : v = Infer!Cut(s, i, Tags[k])
  BY <1>1
<1>3. \A tag \in StTexts : \A j \in Infer!Places(s, tag) :
        \E p, q \in StTexts : s = (p \o tag) \o q /\ Infer!Cut(s, j, tag) = p \o q
  BY StSplit
<1>4. \E p, q \in StTexts : s = (p \o Tags[k]) \o q /\ Infer!Cut(s, i, Tags[k]) = p \o q
  BY <1>3, StTags
<1>. QED
  BY <1>2, <1>4

LEMMA StShorterType ==
  ASSUME NEW s \in StTexts, NEW v \in Infer!Shorter(s)
  PROVE  v \in StTexts /\ Len(v) < Len(s)
<1>1. PICK k \in 1 .. Len(Tags), p \in StTexts, q \in StTexts :
        s = (p \o Tags[k]) \o q /\ v = p \o q
  BY StOneOut
<1>2. Tags[k] \in StTexts /\ Tags[k] # <<>>
  BY StTags
<1>4. p \o Tags[k] \in StTexts /\ Len(p \o Tags[k]) = Len(p) + Len(Tags[k])
  BY <1>2, StConcat
<1>5. Len(s) = (Len(p) + Len(Tags[k])) + Len(q)
  BY <1>1, <1>4, StConcat
<1>6. v \in StTexts /\ Len(v) = Len(p) + Len(q)
  BY <1>1, StConcat
<1>7. Len(p) \in Nat /\ Len(q) \in Nat /\ Len(Tags[k]) \in Nat /\ Len(Tags[k]) # 0
  BY <1>2, StLen, EmptySeq DEF StTexts
<1>. QED
  BY <1>5, <1>6, <1>7

LEMMA StShorterHas ==
  ASSUME NEW s, NEW k \in 1 .. Len(Tags), NEW i \in Infer!Places(s, Tags[k])
  PROVE  Infer!Cut(s, i, Tags[k]) \in Infer!Shorter(s)
BY DEF Infer!Shorter

(* A tag that is taken out of a text is taken out of a longer one.         *)
LEMMA StShorterIn ==
  ASSUME NEW u \in StTexts, NEW v \in Infer!Shorter(u), NEW x \in StTexts, NEW y \in StTexts
  PROVE  (x \o v) \o y \in Infer!Shorter((x \o u) \o y)
<1>1. PICK k \in 1 .. Len(Tags), p \in StTexts, q \in StTexts :
        u = (p \o Tags[k]) \o q /\ v = p \o q
  BY StOneOut
<1>. DEFINE tag == Tags[k]
<1>2. tag \in StTexts /\ tag # <<>>
  BY StTags
<1>3. u = (p \o tag) \o q /\ v = p \o q
  BY <1>1
<1>. HIDE DEF tag
<1>4. x \o p \in StTexts /\ q \o y \in StTexts /\ p \o tag \in StTexts /\ x \o (p \o tag) \in StTexts
  BY <1>2, StConcat
<1>5. (x \o u) \o y = ((x \o p) \o tag) \o (q \o y)
  <2>1. (x \o ((p \o tag) \o q)) \o y = (x \o (p \o tag)) \o (q \o y)
    <3>1. PICK pt \in StTexts : pt = p \o tag
      BY <1>4
    <3>2. (x \o (pt \o q)) \o y = (x \o pt) \o (q \o y)
      <4>1. \A d \in StTexts : \A a, b, c \in StTexts :
              (d \o (a \o b)) \o c = (d \o a) \o (b \o c)
        BY StInside
      <4>2. \A a \in StTexts : \A b, c \in StTexts :
              (x \o (a \o b)) \o c = (x \o a) \o (b \o c)
        BY <4>1, Zenon
      <4>3. \A b \in StTexts : \A c \in StTexts :
              (x \o (pt \o b)) \o c = (x \o pt) \o (b \o c)
        BY <4>2, Zenon
      <4>4. \A c \in StTexts : (x \o (pt \o q)) \o c = (x \o pt) \o (q \o c)
        BY <4>3, Zenon
      <4>. QED
        BY <4>4, Zenon
    <3>. QED
      BY <3>1, <3>2, Zenon
  <2>2. (x \o p) \o tag = x \o (p \o tag)
    BY <1>2, StAssoc, SMTT(30)
  <2>. QED
    BY <1>3, <2>1, <2>2, Zenon
<1>6. (x \o v) \o y = (x \o p) \o (q \o y)
  <2>1. (x \o (p \o q)) \o y = (x \o p) \o (q \o y)
    BY StInside, SMTT(30)
  <2>. QED
    BY <1>3, <2>1, Zenon
<1>7. PICK j \in Infer!Places(((x \o p) \o tag) \o (q \o y), tag) :
        Infer!Cut(((x \o p) \o tag) \o (q \o y), j, tag) = (x \o p) \o (q \o y)
  BY <1>2, <1>4, StJoin
<1>8. Infer!Cut((x \o u) \o y, j, tag) = (x \o v) \o y /\ j \in Infer!Places((x \o u) \o y, tag)
  BY <1>5, <1>6, <1>7
<1>. QED
  BY <1>8, StShorterHas DEF tag

-----------------------------------------------------------------------------
(* What can be left of a text, as the least set that is closed.            *)
StClosed(G) == \A v \in G : Infer!Shorter(v) \subseteq G

StLeft(s) == {u \in StTexts : \A G \in SUBSET StTexts : s \in G /\ StClosed(G) => u \in G}

LEMMA StLeftSelf == \A s \in StTexts : s \in StLeft(s)
BY DEF StLeft

LEMMA StLeftTrans ==
  ASSUME NEW s, NEW u \in StLeft(s), NEW v \in StLeft(u)
  PROVE  v \in StLeft(s)
BY DEF StLeft

LEMMA StLeftStep ==
  ASSUME NEW s, NEW u \in StLeft(s), NEW v \in Infer!Shorter(u)
  PROVE  v \in StLeft(s)
<1>1. v \in StTexts
  BY StShorterType DEF StLeft
<1>. QED
  BY <1>1 DEF StLeft, StClosed

LEMMA StLeftAround ==
  ASSUME NEW s \in StTexts, NEW u \in StLeft(s), NEW x \in StTexts, NEW y \in StTexts
  PROVE  (x \o u) \o y \in StLeft((x \o s) \o y)
<1>1. u \in StTexts
  BY DEF StLeft
<1>2. (x \o u) \o y \in StTexts
  BY <1>1, StConcat
<1>3. ASSUME NEW G \in SUBSET StTexts, (x \o s) \o y \in G, StClosed(G)
      PROVE  (x \o u) \o y \in G
  <2>. DEFINE H == {z \in StTexts : (x \o z) \o y \in G}
  <2>1. s \in H
    BY <1>3
  <2>2. ASSUME NEW z \in H, NEW v \in Infer!Shorter(z) PROVE v \in H
    <3>1. v \in StTexts
      BY StShorterType
    <3>2. (x \o v) \o y \in Infer!Shorter((x \o z) \o y)
      BY StShorterIn
    <3>. QED
      BY <1>3, <3>1, <3>2 DEF StClosed
  <2>3. H \in SUBSET StTexts /\ StClosed(H)
    BY <2>2 DEF StClosed
  <2>4. u \in H
    <3>. HIDE DEF H
    <3>. QED
      BY <2>1, <2>3 DEF StLeft
  <2>. QED
    BY <2>4
<1>. QED
  BY <1>2, <1>3 DEF StLeft

(* What is left by the definition of the model is all that can be left.    *)
LEMMA StRemainders ==
  ASSUME NEW s \in StTexts
  PROVE  StLeft(s) \subseteq Infer!Remainders(s)
<1>. DEFINE n == Len(s)
            Eq(f) == f = [k \in 0 .. n |-> IF k = 0 THEN {s}
                           ELSE f[k - 1] \cup UNION {Infer!Shorter(u) : u \in f[k - 1]}]
            h == [k \in 1 .. n |-> [D \in SUBSET StTexts |->
                    D \cup UNION {Infer!Shorter(u) : u \in D}]]
<1>1. n \in Nat
  BY StLen
<1>2. h \in [1 .. n -> [SUBSET StTexts -> SUBSET StTexts]]
  <2>1. ASSUME NEW D \in SUBSET StTexts
        PROVE  D \cup UNION {Infer!Shorter(u) : u \in D} \in SUBSET StTexts
    <3>1. \A u \in D : Infer!Shorter(u) \subseteq StTexts
      BY StShorterType
    <3>. QED
      BY <3>1
  <2>. QED
    BY <2>1
<1>3. PICK f \in [0 .. n -> SUBSET StTexts] : f[0] = {s} /\ \A k \in 1 .. n : f[k] = h[k][f[k - 1]]
  <2>. HIDE DEF h, n
  <2>. QED
    <3>1. {s} \in SUBSET StTexts
      OBVIOUS
    <3>2. PICK A : A = SUBSET StTexts
      OBVIOUS
    <3>3. \E f \in [0 .. n -> A] : f[0] = {s} /\ \A k \in 1 .. n : f[k] = h[k][f[k - 1]]
      <4>1. {s} \in A /\ h \in [1 .. n -> [A -> A]]
        BY <1>2, <3>1, <3>2
      <4>. QED
        BY <1>1, <4>1, StChain
    <3>. QED
      BY <3>2, <3>3
<1>4. ASSUME NEW k \in 1 .. n
      PROVE  /\ k - 1 \in 0 .. n /\ f[k - 1] \in SUBSET StTexts
             /\ f[k] = f[k - 1] \cup UNION {Infer!Shorter(u) : u \in f[k - 1]}
  <2>1. k - 1 \in 0 .. n
    BY <1>1
  <2>2. f[k - 1] \in SUBSET StTexts
    BY <1>3, <2>1
  <2>3. f[k] = h[k][f[k - 1]]
    BY <1>3
  <2>. QED
    BY <2>1, <2>2, <2>3
<1>5. Eq(f)
  <2>1. ASSUME NEW k \in 0 .. n
        PROVE  f[k] = IF k = 0 THEN {s}
                      ELSE f[k - 1] \cup UNION {Infer!Shorter(u) : u \in f[k - 1]}
    <3>1. CASE k = 0
      BY <1>3, <3>1
    <3>2. CASE k # 0
      <4>1. k \in 1 .. n
        BY <1>1, <3>2
      <4>. QED
        BY <1>4, <3>2, <4>1
    <3>. QED
      BY <3>1, <3>2
  <2>2. f = [k \in 0 .. n |-> f[k]]
    BY <1>3
  <2>. QED
    BY <2>1, <2>2
<1>. DEFINE less == CHOOSE g : Eq(g)
<1>6. Eq(less)
  <2>. HIDE DEF Eq
  <2>. QED
    BY <1>5
<1>7. Infer!Remainders(s) = less[n]
  BY DEF Infer!Remainders
<1>. HIDE DEF less, h
<1>8. /\ less[0] = {s}
      /\ \A k \in 1 .. n :
           less[k] = less[k - 1] \cup UNION {Infer!Shorter(u) : u \in less[k - 1]}
  <2>. DEFINE F == [k \in 0 .. n |-> IF k = 0 THEN {s}
                     ELSE less[k - 1] \cup UNION {Infer!Shorter(u) : u \in less[k - 1]}]
  <2>1. less = F
    BY <1>6
  <2>2. F[0] = {s}
    BY <1>1
  <2>3. ASSUME NEW k \in 1 .. n
        PROVE  F[k] = less[k - 1] \cup UNION {Infer!Shorter(u) : u \in less[k - 1]}
    BY <1>1
  <2>. HIDE DEF F
  <2>. QED
    BY <2>1, <2>2, <2>3
<1>. DEFINE Early(k) == /\ less[k] \subseteq StTexts
                        /\ \A i \in 0 .. k : less[i] \subseteq less[k]
                        /\ \A z \in less[k] : \E j \in 0 .. k : z \in less[j] /\ j + Len(z) <= n
            G == {k \in 0 .. n : Early(k)}
<1>9. \A k \in 0 .. n : k \in G
  <2>1. Early(0)
    BY <1>1, <1>8
  <2>2. ASSUME NEW k \in 1 .. n, k - 1 \in G PROVE Early(k)
    <3>. DEFINE D == less[k - 1]
    <3>1. /\ less[k] = D \cup UNION {Infer!Shorter(u) : u \in D}
          /\ D \subseteq StTexts /\ k - 1 \in 0 .. n
          /\ \A i \in 0 .. k - 1 : less[i] \subseteq D
          /\ \A z \in D : \E j \in 0 .. k - 1 : z \in less[j] /\ j + Len(z) <= n
      BY <1>8, <2>2
    <3>2. \A i \in 0 .. k - 1 : less[i] \subseteq less[k]
      BY <3>1
    <3>3. \A i \in 0 .. k : less[i] \subseteq less[k]
      <4>1. \A i \in 0 .. k : i \in 0 .. k - 1 \/ i = k
        BY <1>1
      <4>. QED
        BY <3>2, <4>1
    <3>4. less[k] \subseteq StTexts
      <4>1. \A u \in D : Infer!Shorter(u) \subseteq StTexts
        BY <3>1, StShorterType
      <4>. QED
        BY <3>1, <4>1
    <3>5. ASSUME NEW z \in less[k]
          PROVE  \E j \in 0 .. k : z \in less[j] /\ j + Len(z) <= n
      <4>1. CASE z \in D
        <5>1. PICK j \in 0 .. k - 1 : z \in less[j] /\ j + Len(z) <= n
          BY <3>1, <4>1
        <5>2. j \in 0 .. k
          BY <1>1
        <5>. QED
          BY <5>1, <5>2
      <4>2. CASE z \notin D
        <5>1. PICK u \in D : z \in Infer!Shorter(u)
          BY <3>1, <4>2
        <5>2. PICK j \in 0 .. k - 1 : u \in less[j] /\ j + Len(u) <= n
          BY <3>1
        <5>3. u \in StTexts /\ z \in StTexts /\ Len(z) < Len(u)
          BY <3>1, <5>1, StShorterType
        <5>4. Len(z) \in Nat /\ Len(u) \in Nat
          BY <5>3, StLen
        <5>5. /\ j + 1 \in 1 .. n /\ j + 1 \in 0 .. k /\ (j + 1) - 1 = j
              /\ (j + 1) + Len(z) <= n
          BY <1>1, <5>2, <5>3, <5>4
        <5>6. less[j + 1] = less[j] \cup UNION {Infer!Shorter(w) : w \in less[j]}
          BY <1>8, <5>5
        <5>7. z \in less[j + 1]
          BY <5>1, <5>2, <5>6
        <5>. QED
          BY <5>5, <5>7
      <4>. QED
        BY <4>1, <4>2
    <3>. QED
      BY <3>3, <3>4, <3>5
  <2>. HIDE DEF Early
  <2>3. 0 \in G /\ \A k \in 1 .. n : k - 1 \in G => k \in G
    BY <1>1, <2>1, <2>2
  <2>. HIDE DEF G, n
  <2>. QED
    BY <1>1, <2>3, StUpTo
<1>10. Early(n)
  <2>. HIDE DEF Early, n
  <2>. QED
    BY <1>1, <1>9
<1>11. s \in less[n] /\ less[n] \in SUBSET StTexts
  <2>1. 0 \in 0 .. n
    BY <1>1
  <2>. QED
    BY <1>8, <1>10, <2>1
<1>12. ASSUME NEW z \in less[n], NEW v \in Infer!Shorter(z) PROVE v \in less[n]
  <2>1. PICK j \in 0 .. n : z \in less[j] /\ j + Len(z) <= n
    BY <1>10
  <2>2. v \in StTexts /\ z \in StTexts /\ Len(v) < Len(z)
    BY <1>11, StShorterType
  <2>3. Len(v) \in Nat /\ Len(z) \in Nat
    BY <2>2, StLen
  <2>4. j + 1 \in 1 .. n /\ j + 1 \in 0 .. n /\ (j + 1) - 1 = j
    BY <1>1, <2>1, <2>2, <2>3
  <2>5. less[j + 1] = less[j] \cup UNION {Infer!Shorter(u) : u \in less[j]}
    BY <1>8, <2>4
  <2>6. v \in less[j + 1]
    BY <2>1, <2>5
  <2>. QED
    BY <1>10, <2>4, <2>6
<1>13. StClosed(less[n])
  BY <1>12 DEF StClosed
<1>. HIDE DEF Early, n
<1>. QED
  BY <1>7, <1>11, <1>13 DEF StLeft

(* The first of some places, and what a step of str.replace does: it takes *)
(* a tag out of what the steps before have left.                           *)
LEMMA StMin ==
  ASSUME NEW S \in SUBSET Nat, S # {}
  PROVE  Infer!Min(S) \in S
<1>1. IsWellFoundedOn(OpToRel(<, Nat), Nat)
  BY NatLessThanWellFounded
<1>2. PICK m \in S : \A k \in S : <<k, m>> \notin OpToRel(<, Nat)
  BY <1>1, WFMin
<1>3. \A k \in S : ~(k < m)
  BY <1>2 DEF OpToRel
<1>4. \A k \in S : m =< k
  BY <1>3
<1>. QED
  BY <1>4 DEF Infer!Min

StScans == [text : StTexts, from : Nat]

StScan(r, tag) ==
  LET ahead == {i \in Infer!Places(r.text, tag) : i >= r.from}
  IN IF ahead = {} THEN r
     ELSE [text |-> Infer!Cut(r.text, Infer!Min(ahead), tag), from |-> Infer!Min(ahead)]

LEMMA StScanStep ==
  ASSUME NEW r \in StScans, NEW k \in 1 .. Len(Tags)
  PROVE  /\ StScan(r, Tags[k]) \in StScans
         /\ StScan(r, Tags[k]).text = r.text \/ StScan(r, Tags[k]).text \in Infer!Shorter(r.text)
<1>. DEFINE places == Infer!Places(r.text, Tags[k])
            ahead == {i \in places : i >= r.from}
            cut == Infer!Cut(r.text, Infer!Min(ahead), Tags[k])
<1>1. CASE ahead = {}
  <2>1. StScan(r, Tags[k]) = r
    BY <1>1 DEF StScan
  <2>. QED
    BY <2>1
<1>2. CASE ahead # {}
  <2>1. r.text \in StTexts
    BY DEF StScans
  <2>2. places \subseteq Nat
    BY <2>1, StLen DEF Infer!Places
  <2>. HIDE DEF places
  <2>3. Infer!Min(ahead) \in ahead /\ Infer!Min(ahead) \in Nat
    BY <1>2, <2>2, StMin
  <2>4. Infer!Min(ahead) \in places
    BY <2>3
  <2>5. cut \in Infer!Shorter(r.text)
    BY <2>4, StShorterHas DEF places
  <2>6. StScan(r, Tags[k]) = [text |-> cut, from |-> Infer!Min(ahead)]
    BY <1>2 DEF StScan, places
  <2>. HIDE DEF cut, ahead
  <2>7. cut \in StTexts
    BY <2>1, <2>5, StShorterType
  <2>. QED
    BY <2>3, <2>5, <2>6, <2>7 DEF StScans
<1>. QED
  BY <1>1, <1>2

LEMMA StReplaced ==
  ASSUME NEW s \in StTexts, NEW k \in 1 .. Len(Tags)
  PROVE  Infer!Replace(s, Tags[k]) \in StLeft(s)
<1>. DEFINE n == Len(s)
            b == [text |-> s, from |-> 1]
            Eq(f) == f = [i \in 0 .. n |-> IF i = 0 THEN b ELSE StScan(f[i - 1], Tags[k])]
            h == [i \in 1 .. n |-> [r \in StScans |-> StScan(r, Tags[k])]]
<1>1. n \in Nat /\ b \in StScans
  BY StLen DEF StScans
<1>2. h \in [1 .. n -> [StScans -> StScans]]
  BY StScanStep
<1>3. PICK f \in [0 .. n -> StScans] : f[0] = b /\ \A i \in 1 .. n : f[i] = h[i][f[i - 1]]
  <2>. HIDE DEF h, n, b
  <2>. QED
    BY <1>1, <1>2, StChain
<1>4. ASSUME NEW i \in 1 .. n
      PROVE  i - 1 \in 0 .. n /\ f[i - 1] \in StScans /\ f[i] = StScan(f[i - 1], Tags[k])
  <2>1. i - 1 \in 0 .. n
    BY <1>1
  <2>2. f[i - 1] \in StScans
    BY <1>3, <2>1
  <2>3. f[i] = h[i][f[i - 1]]
    BY <1>3
  <2>4. h[i] = [r \in StScans |-> StScan(r, Tags[k])]
    OBVIOUS
  <2>. HIDE DEF h
  <2>. QED
    BY <2>1, <2>2, <2>3, <2>4
<1>5. Eq(f)
  <2>1. ASSUME NEW i \in 0 .. n
        PROVE  f[i] = IF i = 0 THEN b ELSE StScan(f[i - 1], Tags[k])
    <3>1. CASE i = 0
      BY <1>3, <3>1
    <3>2. CASE i # 0
      <4>1. i \in 1 .. n
        BY <1>1, <3>2
      <4>. QED
        BY <1>4, <3>2, <4>1
    <3>. QED
      BY <3>1, <3>2
  <2>2. f = [i \in 0 .. n |-> f[i]]
    BY <1>3
  <2>. HIDE DEF b
  <2>. QED
    BY <2>1, <2>2
<1>. DEFINE scan == CHOOSE g : Eq(g)
<1>6. Eq(scan)
  <2>. HIDE DEF Eq
  <2>. QED
    BY <1>5
<1>7. Infer!Replace(s, Tags[k]) = scan[n].text
  BY DEF Infer!Replace, StScan
<1>. HIDE DEF scan, h
<1>8. scan[0] = b /\ \A i \in 1 .. n : scan[i] = StScan(scan[i - 1], Tags[k])
  <2>. DEFINE F == [i \in 0 .. n |-> IF i = 0 THEN b ELSE StScan(scan[i - 1], Tags[k])]
  <2>1. scan = F
    BY <1>6
  <2>. HIDE DEF b
  <2>2. F[0] = b
    BY <1>1
  <2>3. ASSUME NEW i \in 1 .. n
        PROVE  F[i] = StScan(scan[i - 1], Tags[k])
    BY <1>1
  <2>. HIDE DEF F
  <2>. QED
    BY <2>1, <2>2, <2>3
<1>. DEFINE Fine(r) == r \in StScans /\ r.text \in StLeft(s)
            G == {i \in 0 .. n : Fine(scan[i])}
<1>9. \A i \in 0 .. n : i \in G
  <2>1. Fine(scan[0])
    BY <1>1, <1>8, StLeftSelf
  <2>2. ASSUME NEW i \in 1 .. n, i - 1 \in G PROVE Fine(scan[i])
    <3>1. PICK r : r = scan[i - 1]
      OBVIOUS
    <3>2. r \in StScans /\ r.text \in StLeft(s) /\ scan[i] = StScan(r, Tags[k])
      BY <1>8, <2>2, <3>1
    <3>3. PICK z : z = StScan(r, Tags[k])
      OBVIOUS
    <3>4. z \in StScans /\ (z.text = r.text \/ z.text \in Infer!Shorter(r.text))
      BY <3>2, <3>3, StScanStep
    <3>5. z.text \in StLeft(s)
      BY <3>2, <3>4, StLeftStep
    <3>. QED
      BY <3>2, <3>3, <3>4, <3>5
  <2>. HIDE DEF Fine
  <2>3. 0 \in G /\ \A i \in 1 .. n : i - 1 \in G => i \in G
    BY <1>1, <2>1, <2>2
  <2>. HIDE DEF G, n
  <2>. QED
    BY <1>1, <2>3, StUpTo
<1>. HIDE DEF n
<1>. QED
  BY <1>1, <1>7, <1>9

LEMMA StSuppressed ==
  ASSUME NEW s \in StTexts
  PROVE  Infer!Suppressed(s) \in StLeft(s)
<1>. DEFINE n == Len(Tags)
            Eq(f) == f = [k \in 0 .. n |-> IF k = 0 THEN s ELSE Infer!Replace(f[k - 1], Tags[k])]
            h == [k \in 1 .. n |-> [r \in StTexts |-> Infer!Replace(r, Tags[k])]]
<1>1. n \in Nat
  BY StTagCount
<1>2. h \in [1 .. n -> [StTexts -> StTexts]]
  <2>1. \A k \in 1 .. n : \A r \in StTexts : Infer!Replace(r, Tags[k]) \in StTexts
    BY StReplaced DEF StLeft
  <2>. QED
    BY <2>1
<1>3. PICK f \in [0 .. n -> StTexts] : f[0] = s /\ \A k \in 1 .. n : f[k] = h[k][f[k - 1]]
  <2>. HIDE DEF h, n
  <2>. QED
    BY <1>1, <1>2, StChain
<1>4. ASSUME NEW k \in 1 .. n
      PROVE  f[k] = Infer!Replace(f[k - 1], Tags[k])
  <2>1. k - 1 \in 0 .. n
    BY <1>1
  <2>2. f[k - 1] \in StTexts
    BY <1>3, <2>1
  <2>3. f[k] = h[k][f[k - 1]]
    BY <1>3
  <2>4. h[k] = [r \in StTexts |-> Infer!Replace(r, Tags[k])]
    OBVIOUS
  <2>. HIDE DEF h
  <2>. QED
    BY <2>2, <2>3, <2>4
<1>5. Eq(f)
  <2>1. ASSUME NEW k \in 0 .. n
        PROVE  f[k] = IF k = 0 THEN s ELSE Infer!Replace(f[k - 1], Tags[k])
    <3>1. CASE k = 0
      BY <1>3, <3>1
    <3>2. CASE k # 0
      <4>1. k \in 1 .. n
        BY <1>1, <3>2
      <4>. QED
        BY <1>4, <3>2, <4>1
    <3>. QED
      BY <3>1, <3>2
  <2>2. f = [k \in 0 .. n |-> f[k]]
    BY <1>3
  <2>. QED
    BY <2>1, <2>2
<1>. DEFINE after == CHOOSE g : Eq(g)
<1>6. Eq(after)
  <2>. HIDE DEF Eq
  <2>. QED
    BY <1>5
<1>7. Infer!Suppressed(s) = after[n]
  BY DEF Infer!Suppressed
<1>. HIDE DEF after, h
<1>8. after[0] = s /\ \A k \in 1 .. n : after[k] = Infer!Replace(after[k - 1], Tags[k])
  <2>. DEFINE F == [k \in 0 .. n |-> IF k = 0 THEN s ELSE Infer!Replace(after[k - 1], Tags[k])]
  <2>1. after = F
    BY <1>6
  <2>2. F[0] = s
    BY <1>1
  <2>3. ASSUME NEW k \in 1 .. n
        PROVE  F[k] = Infer!Replace(after[k - 1], Tags[k])
    BY <1>1
  <2>. HIDE DEF F
  <2>. QED
    BY <2>1, <2>2, <2>3
<1>. DEFINE G == {k \in 0 .. n : after[k] \in StLeft(s)}
<1>9. \A k \in 0 .. n : k \in G
  <2>1. after[0] \in StLeft(s)
    BY <1>8, StLeftSelf
  <2>2. ASSUME NEW k \in 1 .. n, k - 1 \in G PROVE after[k] \in StLeft(s)
    <3>1. PICK u : u = after[k - 1]
      OBVIOUS
    <3>2. u \in StLeft(s) /\ after[k] = Infer!Replace(u, Tags[k])
      BY <1>8, <2>2, <3>1
    <3>3. u \in StTexts
      BY <3>2 DEF StLeft
    <3>4. Infer!Replace(u, Tags[k]) \in StLeft(u)
      BY <3>3, StReplaced
    <3>. QED
      BY <3>2, <3>4, StLeftTrans
  <2>3. 0 \in G /\ \A k \in 1 .. n : k - 1 \in G => k \in G
    BY <1>1, <2>1, <2>2
  <2>. HIDE DEF G, n
  <2>. QED
    BY <1>1, <2>3, StUpTo
<1>. HIDE DEF n
<1>. QED
  BY <1>1, <1>7, <1>9

-----------------------------------------------------------------------------
(* The stream: nothing is written before it begins, what is held back is   *)
(* a text, and the outcome of a call is open as long as it is under way.   *)
StInv ==
  /\ text \in StTexts /\ buffer \in StTexts
  /\ ask \in [kind : Infer!Kinds \cup {"none"}, provider : Infer!Providers \cup {"none"},
              at : {"idle", "posted", "streaming"}]
  /\ ask.at = "posted" => text = <<>> /\ buffer = <<>> /\ out = <<>>
  /\ ask.at = "streaming" => /\ ask.kind = "complete" /\ out \in StTexts
                             /\ out \o buffer \in StLeft(text)
                             /\ ask.provider # "ollama" => buffer = <<>>
  /\ ask.at # "idle" => outcome = "none"
  /\ outcome = "answer" /\ text # <<>> => out \in StLeft(text)

LEMMA StNil == <<>> \in StTexts /\ \A s \in StTexts : s \o <<>> = s /\ <<>> \o s = s
BY ConcatEmptySeq, EmptySeq DEF StTexts

LEMMA StPieces ==
  ASSUME NEW n \in 1 .. MaxPiece, NEW piece \in [1 .. n -> Chars]
  PROVE  piece \in StTexts
<1>1. n \in Nat
  OBVIOUS
<1>. QED
  BY <1>1 DEF StTexts

(* What is left of a text, with what follows it and after what precedes it.*)
LEMMA StLeftBefore ==
  ASSUME NEW s \in StTexts, NEW u \in StLeft(s), NEW y \in StTexts
  PROVE  u \o y \in StLeft(s \o y)
<1>1. u \in StTexts
  BY DEF StLeft
<1>2. PICK x \in StTexts : x = <<>>
  BY StNil
<1>3. (x \o u) \o y \in StLeft((x \o s) \o y)
  BY StLeftAround
<1>4. x \o u = u /\ x \o s = s
  BY <1>1, <1>2, StNil
<1>. QED
  BY <1>3, <1>4, Zenon

LEMMA StLeftAfter ==
  ASSUME NEW s \in StTexts, NEW u \in StLeft(s), NEW x \in StTexts
  PROVE  x \o u \in StLeft(x \o s)
<1>1. u \in StTexts /\ x \o u \in StTexts /\ x \o s \in StTexts
  BY StConcat DEF StLeft
<1>2. PICK y \in StTexts : y = <<>>
  BY StNil
<1>3. (x \o u) \o y \in StLeft((x \o s) \o y)
  BY StLeftAround
<1>4. (x \o u) \o y = x \o u /\ (x \o s) \o y = x \o s
  BY <1>1, <1>2, StNil, Zenon
<1>. QED
  BY <1>3, <1>4, Zenon

(* A piece comes: what is given now, after what was given before, is left  *)
(* of the text with the piece.                                             *)
LEMMA StLonger ==
  ASSUME NEW o \in StTexts, NEW b \in StTexts, NEW t \in StTexts, NEW piece \in StTexts,
         o \o b \in StLeft(t)
  PROVE  o \o Infer!Suppressed(b \o piece) \in StLeft(t \o piece)
<1>1. (o \o b) \o piece \in StLeft(t \o piece)
  <2>1. PICK u : u = o \o b
    OBVIOUS
  <2>. QED
    BY <2>1, StLeftBefore
<1>2. (o \o b) \o piece = o \o (b \o piece)
  BY StAssoc
<1>3. PICK held \in StTexts : held = b \o piece
  BY StConcat
<1>4. o \o Infer!Suppressed(held) \in StLeft(o \o held)
  <2>1. PICK r \in StLeft(held) : r = Infer!Suppressed(held)
    BY StSuppressed
  <2>. QED
    BY <2>1, StLeftAfter
<1>5. o \o held \in StLeft(t \o piece)
  BY <1>1, <1>2, <1>3, Zenon
<1>. QED
  BY <1>3, <1>4, <1>5, StLeftTrans, Zenon

LEMMA StInit == Infer!Init => StInv
BY StNil DEF Infer!Init, Infer!Idle, StInv

LEMMA StPiece ==
  ASSUME StInv, Infer!Piece
  PROVE  StInv'
<1>1. PICK n \in 1 .. MaxPiece :
        \E piece \in [1 .. n -> Chars] :
          LET held == buffer \o piece
              rest == Infer!Suppressed(held)
          IN /\ ask.at = "streaming" /\ ask.provider = "ollama"
             /\ text' = text \o piece
             /\ \/ buffer' = rest /\ out' = out
                \/ out' = out \o rest /\ buffer' = <<>>
             /\ ask' = ask /\ outcome' = outcome
  BY DEF Infer!Piece
<1>2. PICK piece \in [1 .. n -> Chars] :
        LET rest == Infer!Suppressed(buffer \o piece)
        IN /\ ask.at = "streaming" /\ ask.provider = "ollama"
           /\ text' = text \o piece
           /\ \/ buffer' = rest /\ out' = out
              \/ out' = out \o rest /\ buffer' = <<>>
           /\ ask' = ask /\ outcome' = outcome
  BY <1>1
<1>. DEFINE rest == Infer!Suppressed(buffer \o piece)
<1>3. piece \in StTexts
  BY StPieces
<1>4. /\ text \in StTexts /\ buffer \in StTexts /\ out \in StTexts
      /\ out \o buffer \in StLeft(text) /\ outcome = "none"
  BY <1>2 DEF StInv
<1>5. text' \in StTexts /\ rest \in StTexts /\ out \o rest \in StTexts
  BY <1>2, <1>3, <1>4, StConcat, StSuppressed DEF StLeft
<1>6. out \o rest \in StLeft(text')
  BY <1>2, <1>3, <1>4, StLonger
<1>. HIDE DEF rest
<1>7. buffer' \in StTexts /\ out' \in StTexts /\ out' \o buffer' = out \o rest
  <2>1. CASE buffer' = rest /\ out' = out
    BY <1>4, <1>5, <2>1
  <2>2. CASE out' = out \o rest /\ buffer' = <<>>
    BY <1>5, <2>2, StNil
  <2>. QED
    BY <1>2, <2>1, <2>2 DEF rest
<1>. QED
  BY <1>2, <1>4, <1>5, <1>6, <1>7 DEF StInv

LEMMA StDelta ==
  ASSUME StInv, Infer!Delta
  PROVE  StInv'
<1>1. PICK n \in 1 .. MaxPiece :
        \E piece \in [1 .. n -> Chars] :
          /\ ask.at = "streaming" /\ ask.provider # "ollama"
          /\ text' = text \o piece /\ out' = out \o piece
          /\ ask' = ask /\ buffer' = buffer /\ outcome' = outcome
  BY DEF Infer!Delta
<1>2. PICK piece \in [1 .. n -> Chars] :
        /\ ask.at = "streaming" /\ ask.provider # "ollama"
        /\ text' = text \o piece /\ out' = out \o piece
        /\ ask' = ask /\ buffer' = buffer /\ outcome' = outcome
  BY <1>1
<1>3. piece \in StTexts
  BY StPieces
<1>4. /\ text \in StTexts /\ out \in StTexts /\ buffer = <<>> /\ outcome = "none"
      /\ out \o buffer \in StLeft(text)
  BY <1>2 DEF StInv
<1>5. text' \in StTexts /\ out' \in StTexts
  BY <1>2, <1>3, <1>4, StConcat
<1>6. out \in StLeft(text)
  BY <1>4, StNil, Zenon
<1>7. out' \in StLeft(text') /\ out' \o buffer' = out'
  BY <1>2, <1>3, <1>4, <1>5, <1>6, StLeftBefore, StNil
<1>. QED
  BY <1>2, <1>4, <1>5, <1>7 DEF StInv

LEMMA StStreamEnds ==
  ASSUME StInv, Infer!StreamEnds
  PROVE  StInv'
<1>1. /\ ask.at = "streaming" /\ text' = text /\ buffer' = <<>>
      /\ out' = out \o Infer!Suppressed(buffer)
      /\ outcome' = "answer" /\ ask' = Infer!Idle
  BY DEF Infer!StreamEnds, Infer!Ends
<1>2. text \in StTexts /\ buffer \in StTexts /\ out \in StTexts /\ out \o buffer \in StLeft(text)
  BY <1>1 DEF StInv
<1>3. out \o Infer!Suppressed(buffer) \in StLeft(out \o buffer)
  <2>1. PICK r \in StLeft(buffer) : r = Infer!Suppressed(buffer)
    BY <1>2, StSuppressed
  <2>. QED
    BY <1>2, <2>1, StLeftAfter
<1>4. out' \in StLeft(text')
  BY <1>1, <1>2, <1>3, StLeftTrans, Zenon
<1>. QED
  BY <1>1, <1>2, <1>4, StNil DEF StInv, Infer!Idle

LEMMA StStreams ==
  ASSUME StInv, Infer!Streams
  PROVE  StInv'
<1>1. /\ ask.at = "posted" /\ ask.kind = "complete" /\ ask' = [ask EXCEPT !.at = "streaming"]
      /\ UNCHANGED <<text, buffer, out, outcome>>
  BY DEF Infer!Streams
<1>2. text = <<>> /\ buffer = <<>> /\ out = <<>> /\ outcome = "none"
  BY <1>1 DEF StInv
<1>3. out' \in StTexts /\ out' \o buffer' \in StLeft(text')
  BY <1>1, <1>2, StNil, StLeftSelf
<1>. QED
  BY <1>1, <1>2, <1>3 DEF StInv

LEMMA StStep ==
  ASSUME StInv, Infer!Next
  PROVE  StInv'
<1>1. CASE Infer!Ask
  <2>1. PICK kd \in Infer!Kinds, p \in Infer!Providers :
          LET provider == IF kd = "embed" /\ p = "anthropic" THEN "ollama" ELSE p
          IN /\ text' = <<>> /\ buffer' = <<>> /\ out' = <<>>
             /\ \/ outcome' = "no key" /\ ask' = Infer!Idle
                \/ /\ ask' = [kind |-> kd, provider |-> provider, at |-> "posted"]
                   /\ outcome' = "none"
    BY <1>1 DEF Infer!Ask, Infer!Ends
  <2>2. \/ outcome' = "no key" /\ ask' = Infer!Idle
        \/ outcome' = "none" /\ \E q \in Infer!Providers :
             ask' = [kind |-> kd, provider |-> q, at |-> "posted"]
    BY <2>1 DEF Infer!Providers
  <2>3. CASE outcome' = "no key" /\ ask' = Infer!Idle
    BY <2>1, <2>3, StNil DEF StInv, Infer!Idle
  <2>4. CASE outcome' = "none" /\ \E q \in Infer!Providers :
               ask' = [kind |-> kd, provider |-> q, at |-> "posted"]
    <3>1. PICK q \in Infer!Providers : ask' = [kind |-> kd, provider |-> q, at |-> "posted"]
      BY <2>4
    <3>2. ask'.at = "posted" /\ outcome' = "none"
      BY <2>4, <3>1
    <3>3. ask' \in [kind : Infer!Kinds \cup {"none"}, provider : Infer!Providers \cup {"none"},
                    at : {"idle", "posted", "streaming"}]
      BY <3>1
    <3>. QED
      BY <2>1, <3>2, <3>3, StNil DEF StInv
  <2>. QED
    BY <2>2, <2>3, <2>4
<1>2. CASE Infer!Refused \/ Infer!TimedOut \/ Infer!Whole \/ Infer!Embedded
  <2>1. /\ ask.at # "idle" /\ text' = text /\ buffer' = buffer /\ ask' = Infer!Idle
        /\ outcome' # "answer" \/ ask.at = "posted" \/ ask.kind = "chat"
    BY <1>2 DEF Infer!Refused, Infer!TimedOut, Infer!Whole, Infer!Embedded, Infer!Ends
  <2>2. ask.kind = "chat" => ask.at = "posted"
    BY <2>1 DEF StInv
  <2>3. outcome' = "answer" => text' = <<>>
    BY <2>1, <2>2 DEF StInv
  <2>. QED
    BY <2>1, <2>3 DEF StInv, Infer!Idle
<1>3. CASE Infer!Close \/ Infer!Closed
  BY <1>3 DEF Infer!Close, Infer!Closed, StInv
<1>. QED
  BY <1>1, <1>2, <1>3, StStreams, StPiece, StDelta, StStreamEnds DEF Infer!Next

LEMMA StRests == StInv /\ UNCHANGED inference => StInv'
BY DEF StInv, inference

LEMMA StKept == StInv => StreamKept
<1>1. StInv => text \in StTexts
  BY DEF StInv
<1>. QED
  BY <1>1, StRemainders DEF StInv, StreamKept, Infer!StreamKept

(* However the answer of a model is cut into pieces, the caller gets what  *)
(* the model wrote less some tags, in its order and nothing twice, and in  *)
(* the end nothing is held back (_complete_ollama, inference_client.py).   *)
THEOREM StreamLosesOnlyTags == Spec => []StreamKept
<1>1. Init => StInv
  BY StInit DEF Init, ServicesAtRest
<1>2. StInv /\ [Next]_services => StInv'
  BY PartSteps, StStep, StRests
<1>. QED
  BY <1>1, <1>2, StKept, PTL DEF Spec
=============================================================================
