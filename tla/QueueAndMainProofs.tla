-------------------------- MODULE QueueAndMainProofs --------------------------
(***************************************************************************)
(* Theorems about the two ends of a benchmark: main() with the report it    *)
(* prints, for any threads, runs, flags, bounds and any pace of the clock;  *)
(* and the queue that its work comes from, for any number of threads and of *)
(* works per thread.                                                        *)
(***************************************************************************)
EXTENDS BenchmarkMain, WorkQueue, FiniteSetTheorems, SequenceTheorems, WellFoundedInduction,
        TLAPS

-----------------------------------------------------------------------------
(* main(): what its state is, and how it ends. *)

\* The threads are joined: the run is over, and it succeeded.
Joined == main \in {"stop", "joining", "results"} \/ exit_status = "0"

\* Where main() is decides what the workers still do.
ControlInv ==
    /\ main = "ended" <=> ~Alive
    /\ main = "start" => operations = << >> /\ \A t \in Threads : pc[t] = "idle"
    /\ \A t \in Threads : pc[t] # "idle" => left[t] > 0
    /\ Joined => \A t \in Threads : left[t] = 0

\* Begun in the run, and over by then.
Within(o, end) == run_start <= o.time /\ EndOf(o) <= end

\* The times of an operation, being made or recorded, lie in the run.
TimeInv ==
    /\ run_start <= clock
    /\ \A t \in Threads :
          /\ pc[t] = "calling" => run_start <= op[t].time /\ op[t].time <= clock
          /\ pc[t] = "ended" => Within(op[t], clock)
    /\ \A i \in DOMAIN operations :
          /\ Within(operations[i], clock)
          /\ Joined => Within(operations[i], run_start + duration)

\* A thread's last operation is one that succeeded, so the last of all is, too.
LastSucceeds ==
    \/ \E t \in Threads : left[t] > 0
    \/ operations = << >>
    \/ operations[Len(operations)].ok

AdminInv ==
    /\ g_admin_server = "null" <=> g_admin_thread # "waiting"
    /\ main = "start" => g_admin_thread = "none"
    /\ main = "results" => g_admin_thread = "none"
    /\ g_admin_server = "shutdown" \/ g_admin_thread = "exited" => main = "joining"
    /\ ~Alive => EndsWell

MainInv == TypeOK /\ ControlInv /\ TimeInv /\ LastSucceeds /\ AdminInv

\* The constants are numbers.
LEMMA BoundTypes ==
    /\ Runs \in Nat \ {0} /\ MaxTime \in Nat /\ MaxFailures \in Nat
    /\ Cardinality(Threads) \in Nat
  BY BenchmarkMainAssumption, FS_CardinalityType

\* The operations after the warm-ups are the last of those recorded.
LEMMA NonWarmupsAreLast ==
    ASSUME TypeOK
    PROVE  \E m \in Nat :
              /\ NonWarmups \in Seq(Operations)
              /\ Len(NonWarmups) = IF m <= Len(operations) THEN Len(operations) - m ELSE 0
              /\ \A i \in 1 .. Len(NonWarmups) :
                    i + m \in 1 .. Len(operations) /\ NonWarmups[i] = operations[i + m]
  <1> DEFINE m == parameters.warmups * Cardinality(Threads)
             n == Len(operations)
  <1>1. m \in Nat
    <2>1. parameters.warmups \in Nat
      BY BenchmarkMainAssumption DEF TypeOK, ParameterRecords
    <2>2. QED
      BY <2>1, BoundTypes
  <1>2. operations \in Seq(Operations) /\ n \in Nat
    BY DEF TypeOK
  <1>3. NonWarmups = SubSeq(operations, m + 1, n)
    BY DEF NonWarmups
  <1> HIDE DEF m
  <1>4. \A i \in m + 1 .. n : i \in 1 .. n /\ operations[i] \in Operations
    BY <1>1, <1>2, ElementOfSeq
  <1>5. /\ NonWarmups \in Seq(Operations)
        /\ Len(NonWarmups) = IF m + 1 <= n THEN n - (m + 1) + 1 ELSE 0
        /\ \A i \in 1 .. n - (m + 1) + 1 : NonWarmups[i] = operations[m + 1 + i - 1]
    BY <1>1, <1>2, <1>3, <1>4, SubSeqProperties
  <1>6. Len(NonWarmups) = IF m <= n THEN n - m ELSE 0
    BY <1>1, <1>2, <1>5
  <1>7. \A i \in 1 .. Len(NonWarmups) : i + m \in 1 .. n /\ NonWarmups[i] = operations[i + m]
    <2> TAKE i \in 1 .. Len(NonWarmups)
    <2>1. m <= n /\ i \in 1 .. n - m
      BY <1>1, <1>2, <1>6
    <2>2. i + m \in 1 .. n /\ i \in 1 .. n - (m + 1) + 1 /\ m + 1 + i - 1 = i + m
      BY <1>1, <1>2, <2>1
    <2>3. QED
      BY <1>5, <2>2
  <1>8. QED
    BY <1>1, <1>5, <1>6, <1>7

\* The report's operations have one that succeeded, the last, once all threads had
\* what they had to.
LEMMA LastNonWarmupSucceeded ==
    ASSUME MainInv, Joined, NonWarmups # << >>
    PROVE  Len(NonWarmups) \in Succeeded(NonWarmups)
  <1>1. PICK m \in Nat :
           /\ NonWarmups \in Seq(Operations)
           /\ Len(NonWarmups) = IF m <= Len(operations) THEN Len(operations) - m ELSE 0
           /\ \A i \in 1 .. Len(NonWarmups) :
                 i + m \in 1 .. Len(operations) /\ NonWarmups[i] = operations[i + m]
    BY NonWarmupsAreLast DEF MainInv
  <1>2. operations \in Seq(Operations) /\ Len(operations) \in Nat
    BY DEF MainInv, TypeOK
  <1>3. Len(NonWarmups) \in Nat /\ Len(NonWarmups) # 0
    BY <1>1, EmptySeq
  <1>4. /\ Len(NonWarmups) \in 1 .. Len(NonWarmups)
        /\ Len(NonWarmups) + m = Len(operations)
    BY <1>1, <1>2, <1>3
  <1>5. NonWarmups[Len(NonWarmups)] = operations[Len(operations)]
    BY <1>1, <1>4
  <1>6. operations # << >>
    BY <1>1, <1>2, <1>3, <1>4, EmptySeq
  <1>7. \A t \in Threads : ~(left[t] > 0)
    BY DEF MainInv, ControlInv
  <1>8. operations[Len(operations)].ok
    BY <1>6, <1>7 DEF MainInv, LastSucceeds
  <1>9. DOMAIN NonWarmups = 1 .. Len(NonWarmups)
    BY <1>1
  <1>10. QED
    BY <1>4, <1>5, <1>8, <1>9 DEF Succeeded

\* A set of indexes is finite.
LEMMA SucceededIsFinite ==
    ASSUME NEW ops \in Seq(Operations)
    PROVE  /\ IsFiniteSet(Succeeded(ops)) /\ Cardinality(Succeeded(ops)) \in Nat
           /\ Succeeded(ops) \subseteq 1 .. Len(ops)
  <1>1. DOMAIN ops = 1 .. Len(ops) /\ Len(ops) \in Nat
    OBVIOUS
  <1>2. Succeeded(ops) \subseteq 1 .. Len(ops)
    BY <1>1 DEF Succeeded
  <1>3. IsFiniteSet(1 .. Len(ops))
    BY <1>1, FS_Interval
  <1>4. IsFiniteSet(Succeeded(ops))
    BY <1>2, <1>3, FS_Subset
  <1>5. QED
    BY <1>2, <1>4, FS_CardinalityType

\* Where an operation succeeded, no way of sorting the indexes leaves none.
LEMMA SomethingToIndex ==
    ASSUME NEW ops \in Seq(Operations), Succeeded(ops) # {}
    PROVE  << >> \notin GetSortedOperationIndex(ops)
  <1> DEFINE n == Cardinality(Succeeded(ops))
  <1>1. n \in Nat /\ n # 0
    BY SucceededIsFinite, FS_EmptySet
  <1>2. SUFFICES ASSUME << >> \in GetSortedOperationIndex(ops) PROVE FALSE
    OBVIOUS
  <1>3. << >> \in [1 .. n -> Succeeded(ops)]
    BY <1>2 DEF GetSortedOperationIndex, SetToSeqs
  <1>4. DOMAIN << >> = 1 .. n
    BY <1>3
  <1>5. DOMAIN << >> = {}
    OBVIOUS
  <1>6. 1 \in 1 .. n
    BY <1>1
  <1>7. QED
    BY <1>4, <1>5, <1>6

\* At the start no thread has begun.
LEMMA InitMainInv == Init => MainInv
  <1> SUFFICES ASSUME Init PROVE MainInv
    OBVIOUS
  <1>1. << >> \in Seq(Operations) /\ DOMAIN << >> = {}
    OBVIOUS
  <1>2. [time |-> 0, elapsed_time |-> 0, ok |-> FALSE] \in Operations
    BY BoundTypes DEF Operations
  <1>3. TypeOK
    BY <1>1, <1>2, BoundTypes DEF Init, TypeOK
  <1>4. ControlInv
    BY DEF Init, ControlInv, Alive, Joined
  <1>5. TimeInv
    BY <1>1 DEF Init, TimeInv
  <1>6. LastSucceeds /\ AdminInv
    BY DEF Init, LastSucceeds, AdminInv, Alive
  <1>7. QED
    BY <1>3, <1>4, <1>5, <1>6 DEF MainInv

\* A tick of the clock disturbs only that times are of the past.
LEMMA TickKeepsMainInv ==
    ASSUME MainInv, Tick
    PROVE  MainInv'
  <1> USE DEF Tick, adminVars, workerVars
  <1>1. TypeOK'
    BY BoundTypes DEF MainInv, TypeOK
  <1>2. ControlInv' /\ LastSucceeds' /\ AdminInv'
    BY DEF MainInv, ControlInv, LastSucceeds, AdminInv, Alive, Joined, EndsWell
  <1>3. TimeInv'
    <2>1. clock \in Int /\ clock' = clock + 1 /\ run_start \in Int
      BY DEF MainInv, TypeOK
    <2>2. \A o \in Operations : Within(o, clock) => Within(o, clock)'
      BY <2>1 DEF Within, EndOf, Operations
    <2>3. \A i \in DOMAIN operations : operations[i] \in Operations
      BY DEF MainInv, TypeOK
    <2>4. \A t \in Threads : op[t] \in Operations
      BY DEF MainInv, TypeOK
    <2>5. \A i \in DOMAIN operations :
             Within(operations[i], run_start + duration) =>
                Within(operations[i], run_start + duration)'
      BY DEF Within
    <2>6. \A t \in Threads : op[t].time <= clock => op[t].time <= clock'
      BY <2>1, <2>4 DEF Operations
    <2>7. run_start <= clock'
      BY <2>1 DEF MainInv, TimeInv
    <2>8. QED
      BY <2>2, <2>3, <2>4, <2>5, <2>6, <2>7 DEF MainInv, TimeInv, Joined, Within
  <1>4. QED
    BY <1>1, <1>2, <1>3 DEF MainInv

\* What neither the clock nor a worker has a part in disturbs no time, and no worker.
LEMMA WorkersAtRest ==
    ASSUME MainInv, UNCHANGED <<clock, run_start, duration, workerVars>>,
           main' # "start", Joined' => Joined
    PROVE  /\ TimeInv' /\ LastSucceeds'
           /\ \A t \in Threads : pc'[t] # "idle" => left'[t] > 0
           /\ Joined' => \A t \in Threads : left'[t] = 0
  <1> USE DEF workerVars
  <1>1. TimeInv'
    <2>1. \A o, end : Within(o, end) <=> Within(o, end)'
      BY DEF Within, EndOf
    <2>2. \A i \in DOMAIN operations : Within(operations[i], clock)'
      BY <2>1 DEF MainInv, TimeInv, Within
    <2>3. ASSUME Joined', NEW i \in DOMAIN operations
          PROVE  Within(operations[i], run_start + duration)'
      BY <2>3 DEF MainInv, TimeInv, Within
    <2>4. \A t \in Threads : pc[t] = "ended" => Within(op[t], clock)'
      BY DEF MainInv, TimeInv, Within
    <2>5. QED
      BY <2>2, <2>3, <2>4 DEF MainInv, TimeInv
  <1>2. LastSucceeds'
    BY DEF MainInv, LastSucceeds
  <1>3. QED
    BY <1>1, <1>2 DEF MainInv, ControlInv

\* The steps of the main thread, each with what it may disturb.
LEMMA MainKeepsMainInv ==
    ASSUME MainInv, Main
    PROVE  MainInv'
  <1> USE DEF adminVars, workerVars, Alive
  <1>1. CASE StartGrpcAdmin
    <2>1. TypeOK'
      BY <1>1 DEF StartGrpcAdmin, MainInv, TypeOK
    <2>2. ControlInv' /\ LastSucceeds' /\ AdminInv'
      BY <1>1 DEF StartGrpcAdmin, MainInv, ControlInv, LastSucceeds, AdminInv, Joined
    <2>3. TimeInv'
      <3>1. clock \in Int /\ run_start' = clock /\ clock' = clock
        BY <1>1 DEF StartGrpcAdmin, MainInv, TypeOK
      <3>2. operations' = << >> /\ \A t \in Threads : pc'[t] = "idle"
        BY <1>1 DEF StartGrpcAdmin, MainInv, ControlInv
      <3>3. QED
        BY <3>1, <3>2 DEF TimeInv
    <2>4. QED
      BY <2>1, <2>2, <2>3 DEF MainInv
  <1>2. CASE RejectClient
    <2>1. TypeOK'
      BY <1>2 DEF RejectClient, ExitWith1, MainInv, TypeOK
    <2>2. main' = "ended" /\ exit_status' \in {"1", "aborted"} /\ main = "running"
      BY <1>2 DEF RejectClient, ExitWith1
    <2>3. UNCHANGED <<clock, run_start, duration, workerVars, adminVars>>
      BY <1>2 DEF RejectClient
    <2>4. AdminInv'
      BY <2>2, <2>3 DEF MainInv, AdminInv, EndsWell
    <2>5. QED
      BY <2>1, <2>2, <2>3, <2>4, WorkersAtRest DEF MainInv, ControlInv, Joined
  <1>3. CASE JoinThreads
    <2>1. /\ clock \in 0 .. MaxTime /\ run_start \in 0 .. MaxTime /\ run_start <= clock
          /\ duration' = clock - run_start
          /\ UNCHANGED <<parameters, clock, exit_status, run_start, adminVars, workerVars>>
          /\ main = "running" /\ main' = "stop"
          /\ \A t \in Threads : left[t] = 0
      BY <1>3 DEF JoinThreads, MainInv, TypeOK, TimeInv
    <2>2. duration' \in 0 .. MaxTime /\ run_start + duration' = clock
      BY <2>1, BoundTypes
    <2>3. TypeOK'
      BY <2>1, <2>2 DEF MainInv, TypeOK
    <2>4. ControlInv' /\ LastSucceeds' /\ AdminInv'
      BY <2>1 DEF MainInv, ControlInv, LastSucceeds, AdminInv, Joined
    <2>5. TimeInv'
      BY <2>1, <2>2 DEF MainInv, TimeInv, Within, EndOf
    <2>6. QED
      BY <2>3, <2>4, <2>5 DEF MainInv
  <1>4. CASE StopGrpcAdmin
    <2>1. TypeOK'
      BY <1>4 DEF StopGrpcAdmin, MainInv, TypeOK
    <2>2. /\ UNCHANGED <<clock, run_start, duration, g_admin_thread, workerVars>>
          /\ main = "stop" /\ exit_status = "none"
          /\ \/ /\ g_admin_thread = "none" /\ main' = "results"
                /\ UNCHANGED <<exit_status, g_admin_server>>
             \/ /\ g_admin_thread # "none" /\ g_admin_server # "null"
                /\ g_admin_server' = "shutdown" /\ main' = "joining" /\ UNCHANGED exit_status
             \/ /\ g_admin_thread # "none" /\ g_admin_server = "null"
                /\ exit_status' = "crashed" /\ main' = "ended" /\ UNCHANGED g_admin_server
      BY <1>4 DEF StopGrpcAdmin
    <2>3. AdminInv'
      BY <2>2 DEF MainInv, TypeOK, AdminInv, EndsWell
    <2>4. QED
      BY <2>1, <2>2, <2>3, WorkersAtRest DEF MainInv, ControlInv, Joined
  <1>5. CASE JoinAdmin
    <2>1. TypeOK'
      BY <1>5 DEF JoinAdmin, MainInv, TypeOK
    <2>2. /\ UNCHANGED <<clock, exit_status, run_start, duration, g_admin_server, workerVars>>
          /\ main = "joining" /\ exit_status = "none" /\ main' = "results"
          /\ g_admin_thread = "exited" /\ g_admin_thread' = "none"
      BY <1>5 DEF JoinAdmin
    <2>3. AdminInv'
      BY <2>2 DEF MainInv, AdminInv, EndsWell
    <2>4. QED
      BY <2>1, <2>2, <2>3, WorkersAtRest DEF MainInv, ControlInv, Joined
  <1>6. CASE PrintResult
    <2>1. /\ UNCHANGED <<parameters, clock, run_start, duration, adminVars, workerVars>>
          /\ main = "results" /\ exit_status = "none" /\ main' = "ended"
      BY <1>6 DEF PrintResult
    <2>2. exit_status' = "0"
      <3>1. SUFFICES ASSUME NonWarmups # << >> PROVE << >> \notin GetSortedOperationIndex(NonWarmups)
        BY <1>6 DEF PrintResult
      <3>2. Succeeded(NonWarmups) # {}
        BY <2>1, <3>1, LastNonWarmupSucceeded DEF Joined
      <3>3. NonWarmups \in Seq(Operations)
        BY NonWarmupsAreLast DEF MainInv
      <3>4. QED
        BY <3>2, <3>3, SomethingToIndex
    <2>3. TypeOK'
      BY <2>1, <2>2 DEF MainInv, TypeOK
    <2>4. AdminInv'
      BY <2>1, <2>2 DEF MainInv, AdminInv, EndsWell
    <2>5. QED
      BY <2>1, <2>2, <2>3, <2>4, WorkersAtRest DEF MainInv, ControlInv, Joined
  <1>7. CASE RunFails
    <2>1. TypeOK'
      BY <1>7 DEF RunFails, ExitWith1, MainInv, TypeOK
    <2>2. main' = "ended" /\ exit_status' \in {"1", "aborted"} /\ main = "running"
      BY <1>7 DEF RunFails, ExitWith1
    <2>3. UNCHANGED <<clock, run_start, duration, workerVars, adminVars>>
      BY <1>7 DEF RunFails
    <2>4. AdminInv'
      BY <2>2, <2>3 DEF MainInv, AdminInv, EndsWell
    <2>5. QED
      BY <2>1, <2>2, <2>3, <2>4, WorkersAtRest DEF MainInv, ControlInv, Joined
  <1>8. QED
    BY <1>1, <1>2, <1>3, <1>4, <1>5, <1>6, <1>7 DEF Main

\* The steps of the admin thread.
LEMMA AdminKeepsMainInv ==
    ASSUME MainInv, Admin
    PROVE  MainInv'
  <1> USE DEF adminVars, workerVars, Alive
  <1>1. CASE BuildAndStart
    <2>1. TypeOK'
      BY <1>1 DEF BuildAndStart, MainInv, TypeOK
    <2>2. /\ UNCHANGED <<clock, run_start, duration, workerVars>>
          /\ exit_status = "none" /\ g_admin_thread = "building"
          /\ \/ /\ g_admin_server' = "up" /\ g_admin_thread' = "waiting"
                /\ UNCHANGED <<exit_status, main>>
             \/ exit_status' = "crashed" /\ main' = "ended" /\ UNCHANGED adminVars
      BY <1>1 DEF BuildAndStart
    <2>3. main # "start"
      BY <2>2 DEF MainInv, AdminInv
    <2>4. AdminInv'
      BY <2>2, <2>3 DEF MainInv, AdminInv, EndsWell
    <2>5. QED
      BY <2>1, <2>2, <2>3, <2>4, WorkersAtRest DEF MainInv, ControlInv, Joined
  <1>2. CASE WaitReturns
    <2>1. TypeOK'
      BY <1>2 DEF WaitReturns, MainInv, TypeOK
    <2>2. /\ UNCHANGED <<clock, main, exit_status, run_start, duration, workerVars>>
          /\ exit_status = "none" /\ g_admin_thread = "waiting" /\ g_admin_server = "shutdown"
          /\ g_admin_server' = "null" /\ g_admin_thread' = "exited"
      BY <1>2 DEF WaitReturns
    <2>3. main = "joining"
      BY <2>2 DEF MainInv, AdminInv
    <2>4. AdminInv'
      BY <2>2, <2>3 DEF MainInv, AdminInv, EndsWell
    <2>5. QED
      BY <2>1, <2>2, <2>3, <2>4, WorkersAtRest DEF MainInv, ControlInv, Joined
  <1>3. QED
    BY <1>1, <1>2 DEF Admin

\* An operation begins: its time is the clock's.
LEMMA BeginKeepsMainInv ==
    ASSUME MainInv, NEW t \in Threads, BeginCall(t)
    PROVE  MainInv'
  <1> USE DEF adminVars, Running, Alive
  <1>1. /\ UNCHANGED <<parameters, clock, main, exit_status, run_start, duration, adminVars,
                       left, operations, failures>>
        /\ main = "running" /\ exit_status = "none" /\ left[t] > 0
        /\ op' = [op EXCEPT ![t].time = clock]
        /\ pc' = [pc EXCEPT ![t] = "calling"]
    BY DEF BeginCall
  <1>2. op[t] \in Operations /\ clock \in 0 .. MaxTime /\ op \in [Threads -> Operations]
        /\ pc \in [Threads -> {"idle", "calling", "ended", "failed"}]
    BY DEF MainInv, TypeOK
  <1>3. [op[t] EXCEPT !.time = clock] \in Operations
    BY <1>2 DEF Operations
  <1>4. op' = [op EXCEPT ![t] = [op[t] EXCEPT !.time = clock]]
    BY <1>1
  <1>5. TypeOK'
    BY <1>1, <1>2, <1>3, <1>4 DEF MainInv, TypeOK
  <1>6. ControlInv' /\ LastSucceeds' /\ AdminInv'
    BY <1>1, <1>2 DEF MainInv, ControlInv, LastSucceeds, AdminInv, Joined
  <1>7. TimeInv'
    <2>1. run_start <= clock /\ op'[t].time = clock
      BY <1>2, <1>4 DEF MainInv, TimeInv, Operations
    <2>2. \A u \in Threads : u # t => op'[u] = op[u] /\ pc'[u] = pc[u]
      BY <1>1, <1>2, <1>4
    <2>3. pc'[t] = "calling"
      BY <1>1, <1>2
    <2>4. \A u \in Threads :
             /\ pc'[u] = "calling" => run_start <= op'[u].time /\ op'[u].time <= clock
             /\ pc'[u] = "ended" => Within(op'[u], clock)
      <3> TAKE u \in Threads
      <3>1. CASE u = t
        BY <1>2, <2>1, <2>3, <3>1
      <3>2. CASE u # t
        BY <2>2, <3>2 DEF MainInv, TimeInv
      <3>3. QED
        BY <3>1, <3>2
    <2>5. QED
      BY <1>1, <2>4 DEF MainInv, TimeInv, Within, Joined
  <1>8. QED
    BY <1>5, <1>6, <1>7 DEF MainInv

\* An operation ends, now: what it took is what passed since it began.
LEMMA EndKeepsMainInv ==
    ASSUME MainInv, NEW t \in Threads, EndCall(t)
    PROVE  MainInv'
  <1> USE DEF adminVars, Running, Alive
  <1>1. PICK ok \in BOOLEAN :
           /\ op' = [op EXCEPT ![t].elapsed_time = clock - op[t].time, ![t].ok = ok]
           /\ \/ ok /\ UNCHANGED failures
              \/ ~ok /\ failures < MaxFailures /\ failures' = failures + 1
    BY DEF EndCall
  <1>2. /\ UNCHANGED <<parameters, clock, main, exit_status, run_start, duration, adminVars,
                       left, operations>>
        /\ main = "running" /\ exit_status = "none" /\ pc[t] = "calling"
        /\ pc' = [pc EXCEPT ![t] = "ended"]
    BY DEF EndCall
  <1>3. /\ op[t] \in Operations /\ clock \in 0 .. MaxTime /\ op \in [Threads -> Operations]
        /\ pc \in [Threads -> {"idle", "calling", "ended", "failed"}]
        /\ failures \in 0 .. MaxFailures
        /\ run_start <= op[t].time /\ op[t].time <= clock
    BY <1>2 DEF MainInv, TypeOK, TimeInv
  <1>4. op[t].time \in 0 .. MaxTime /\ clock - op[t].time \in 0 .. MaxTime
    BY <1>3, BoundTypes DEF Operations
  <1>5. /\ op' \in [Threads -> Operations]
        /\ op'[t].time = op[t].time /\ op'[t].elapsed_time = clock - op[t].time
        /\ \A u \in Threads : u # t => op'[u] = op[u]
    BY <1>1, <1>3, <1>4 DEF Operations
  <1>6. failures' \in 0 .. MaxFailures
    BY <1>1, <1>3, BoundTypes
  <1>7. TypeOK'
    BY <1>2, <1>3, <1>5, <1>6 DEF MainInv, TypeOK
  <1>8. left[t] > 0
    BY <1>2 DEF MainInv, ControlInv
  <1>9. ControlInv' /\ LastSucceeds' /\ AdminInv'
    BY <1>2, <1>3, <1>8 DEF MainInv, ControlInv, LastSucceeds, AdminInv, Joined
  <1>10. TimeInv'
    <2>1. Within(op'[t], clock)
      BY <1>3, <1>4, <1>5 DEF Within, EndOf
    <2>2. \A u \in Threads : u # t => op'[u] = op[u] /\ pc'[u] = pc[u]
      BY <1>2, <1>3, <1>5
    <2>3. pc'[t] = "ended"
      BY <1>2, <1>3
    <2>4. \A u \in Threads :
             /\ pc'[u] = "calling" => run_start <= op'[u].time /\ op'[u].time <= clock
             /\ pc'[u] = "ended" => Within(op'[u], clock)
      <3> TAKE u \in Threads
      <3>1. CASE u = t
        BY <2>1, <2>3, <3>1
      <3>2. CASE u # t
        BY <2>2, <3>2 DEF MainInv, TimeInv
      <3>3. QED
        BY <3>1, <3>2
    <2>5. QED
      BY <1>2, <2>4 DEF MainInv, TimeInv, Within, Joined
  <1>11. QED
    BY <1>7, <1>9, <1>10 DEF MainInv

\* An operation is recorded, and the thread has one less to do, or tries again, or
\* has failed.
LEMMA NotifyKeepsMainInv ==
    ASSUME MainInv, NEW t \in Threads, NotifyCompleted(t)
    PROVE  MainInv'
  <1> USE DEF adminVars, Running, Alive
  <1>1. /\ UNCHANGED <<parameters, clock, main, exit_status, run_start, duration, adminVars, op,
                       failures>>
        /\ main = "running" /\ exit_status = "none" /\ pc[t] = "ended"
        /\ operations' = Append(operations, op[t])
    BY DEF NotifyCompleted
  <1>2. \/ /\ op[t].ok /\ left' = [left EXCEPT ![t] = @ - 1]
           /\ pc' = [pc EXCEPT ![t] = "idle"]
        \/ /\ ~op[t].ok /\ UNCHANGED left
           /\ pc' = [pc EXCEPT ![t] = IF parameters.trying THEN "idle" ELSE "failed"]
    BY DEF NotifyCompleted
  <1>3. /\ op[t] \in Operations /\ operations \in Seq(Operations)
        /\ pc \in [Threads -> {"idle", "calling", "ended", "failed"}]
        /\ left \in [Threads -> 0 .. Runs] /\ left[t] > 0
    BY <1>1 DEF MainInv, TypeOK, ControlInv
  <1>4. /\ operations' \in Seq(Operations)
        /\ Len(operations) \in Nat
        /\ Len(operations') = Len(operations) + 1
        /\ operations'[Len(operations) + 1] = op[t]
        /\ \A i \in 1 .. Len(operations) : operations'[i] = operations[i]
        /\ DOMAIN operations' = 1 .. Len(operations) + 1
        /\ DOMAIN operations = 1 .. Len(operations)
    BY <1>1, <1>3, AppendProperties
  <1>5. left' \in [Threads -> 0 .. Runs]
    <2>1. left[t] \in 0 .. Runs /\ left[t] - 1 \in 0 .. Runs
      BY <1>3, BoundTypes
    <2>2. QED
      BY <1>2, <1>3, <2>1
  <1>6. TypeOK'
    BY <1>1, <1>2, <1>3, <1>4, <1>5 DEF MainInv, TypeOK
  <1>7. ControlInv'
    <2>1. \A u \in Threads : u # t => left'[u] = left[u] /\ pc'[u] = pc[u]
      BY <1>1, <1>2, <1>3
    <2>2. pc'[t] = "idle" \/ left'[t] = left[t]
      BY <1>2, <1>3
    <2>3. QED
      BY <1>1, <1>2, <2>1, <2>2 DEF MainInv, ControlInv, Joined
  <1>8. LastSucceeds'
    <2>1. CASE op[t].ok
      BY <1>4, <2>1 DEF LastSucceeds
    <2>2. CASE ~op[t].ok
      BY <1>2, <1>3, <2>2 DEF LastSucceeds
    <2>3. QED
      BY <2>1, <2>2
  <1>9. AdminInv'
    BY <1>1, <1>2 DEF MainInv, AdminInv, EndsWell
  <1>10. TimeInv'
    <2>1. Within(op[t], clock)
      BY <1>1 DEF MainInv, TimeInv
    <2>2. \A i \in DOMAIN operations' : Within(operations'[i], clock)
      <3> TAKE i \in DOMAIN operations'
      <3>1. CASE i = Len(operations) + 1
        BY <1>4, <2>1, <3>1
      <3>2. CASE i # Len(operations) + 1
        <4>1. i \in 1 .. Len(operations)
          BY <1>4, <3>2
        <4>2. QED
          BY <1>4, <4>1 DEF MainInv, TimeInv
      <3>3. QED
        BY <3>1, <3>2
    <2>3. \A u \in Threads : pc'[u] = pc[u] \/ pc'[u] \in {"idle", "failed"}
      BY <1>2, <1>3
    <2>4. ~Joined'
      BY <1>1, <1>2 DEF Joined
    <2>5. QED
      BY <1>1, <2>2, <2>3, <2>4 DEF MainInv, TimeInv, Within
  <1>11. QED
    BY <1>6, <1>7, <1>8, <1>9, <1>10 DEF MainInv

\* A thread that failed ends the process, as RejectClient and RunFails do.
LEMMA ExitKeepsMainInv ==
    ASSUME MainInv, NEW t \in Threads, ExitProcess(t)
    PROVE  MainInv'
  <1> USE DEF adminVars, workerVars, Running, Alive
  <1>1. TypeOK'
    BY DEF ExitProcess, ExitWith1, MainInv, TypeOK
  <1>2. main' = "ended" /\ exit_status' \in {"1", "aborted"} /\ main = "running"
    BY DEF ExitProcess, ExitWith1
  <1>3. UNCHANGED <<clock, run_start, duration, workerVars, adminVars>>
    BY DEF ExitProcess
  <1>4. AdminInv'
    BY <1>2, <1>3 DEF MainInv, AdminInv, EndsWell
  <1>5. QED
    BY <1>1, <1>2, <1>3, <1>4, WorkersAtRest DEF MainInv, ControlInv, Joined

\* The state of main(), its threads and their operations stays as described.
LEMMA MainInvariant == Spec => []MainInv
  <1>1. MainInv /\ [Next]_vars => MainInv'
    <2> SUFFICES ASSUME MainInv, [Next]_vars PROVE MainInv'
      OBVIOUS
    <2>1. CASE Tick
      BY <2>1, TickKeepsMainInv
    <2>2. CASE Main
      BY <2>2, MainKeepsMainInv
    <2>3. CASE Admin
      BY <2>3, AdminKeepsMainInv
    <2>4. ASSUME NEW t \in Threads, Worker(t) PROVE MainInv'
      BY <2>4, BeginKeepsMainInv, EndKeepsMainInv, NotifyKeepsMainInv, ExitKeepsMainInv
         DEF Worker
    <2>5. CASE UNCHANGED vars
      <3>1. \A o, end : Within(o, end) <=> Within(o, end)'
        BY <2>5 DEF vars, Within, EndOf
      <3>2. TypeOK' /\ ControlInv' /\ LastSucceeds' /\ AdminInv'
        BY <2>5 DEF vars, adminVars, workerVars, MainInv, TypeOK, ControlInv, LastSucceeds,
                    AdminInv, Alive, Joined, EndsWell
      <3>3. TimeInv'
        BY <2>5, <3>1 DEF vars, workerVars, MainInv, TimeInv, Joined, Within
      <3>4. QED
        BY <3>2, <3>3 DEF MainInv
    <2>6. QED
      BY <2>1, <2>2, <2>3, <2>4, <2>5 DEF Next, Over
  <1>2. QED
    BY <1>1, InitMainInv, PTL DEF Spec

\* What main() keeps stays of its types, and no thread is left with less than nothing
\* to do.
THEOREM TypeCorrect == Spec => []TypeOK
  BY MainInvariant, PTL DEF MainInv

\* The process ends in one of the ways that Ends waits for, and in no other: with 0
\* only when the admin thread is joined and its server gone, in a crash only while
\* there is no server to shut down, and never in the report.
THEOREM EndsInNoOtherWay == Spec => [](~Alive => EndsWell)
  <1>1. MainInv => (~Alive => EndsWell)
    BY DEF MainInv, AdminInv
  <1>2. QED
    BY <1>1, MainInvariant, PTL

-----------------------------------------------------------------------------
(* Facts about numbers. *)

\* Numbers have a least one.
LEMMA NatSetHasMin ==
    ASSUME NEW S \in SUBSET Nat, S # {}
    PROVE  \E m \in S : \A k \in S : m <= k
  <1> DEFINE R == {ss \in Nat \X Nat : ss[1] < ss[2]}
  <1>1. IsWellFoundedOn(R, Nat)
    BY NatLessThanWellFounded DEF OpToRel
  <1> HIDE DEF R
  <1>2. PICK m \in S : \A k \in S : ~(<<k, m>> \in R)
    BY <1>1, WFMin
  <1>3. \A k \in S : ~(k < m)
    BY <1>2 DEF R
  <1>4. QED
    BY <1>3

\* Induction, for a property given as the set of the numbers up to n that have it.
LEMMA InductionUpTo ==
    ASSUME NEW n \in Nat, NEW S, 0 \in S,
           \A k \in 0 .. n - 1 : k \in S => k + 1 \in S
    PROVE  0 .. n \subseteq S
  <1> DEFINE Missing == {k \in 0 .. n : k \notin S}
  <1>1. SUFFICES ASSUME Missing # {} PROVE FALSE
    OBVIOUS
  <1>2. PICK m \in Missing : \A k \in Missing : m <= k
    <2>1. Missing \in SUBSET Nat
      OBVIOUS
    <2> HIDE DEF Missing
    <2>2. QED
      BY <1>1, <2>1, NatSetHasMin
  <1>3. m \in 1 .. n /\ m \notin S /\ m - 1 \in 0 .. n - 1
    BY <1>2
  <1>4. m - 1 \in S
    <2>1. m - 1 \notin Missing
      BY <1>2, <1>3
    <2>2. QED
      BY <1>3, <2>1
  <1>5. m - 1 + 1 = m
    BY <1>3
  <1>6. QED
    BY <1>3, <1>4, <1>5

\* A bounded set of numbers has a greatest one.
LEMMA BoundedSetHasMax ==
    ASSUME NEW n \in Nat, NEW S \in SUBSET (0 .. n), S # {}
    PROVE  /\ Max(S) \in S
           /\ \A k \in S : Max(S) >= k
  <1> DEFINE Below == {n - k : k \in S}
  <1>1. Below \in SUBSET Nat /\ Below # {} /\ \A k \in S : k \in Int
    <2>1. \A k \in S : k \in 0 .. n
      OBVIOUS
    <2>2. \A k \in S : k \in Int /\ n - k \in Nat
      BY <2>1
    <2>3. QED
      BY <2>2
  <1>2. PICK b \in Below : \A c \in Below : b <= c
    <2> HIDE DEF Below
    <2>1. QED
      BY <1>1, NatSetHasMin
  <1>3. PICK x \in S : b = n - x
    BY <1>2
  <1>4. \A k \in S : x >= k
    <2> TAKE k \in S
    <2>1. n - x <= n - k
      BY <1>2, <1>3
    <2>2. k \in Int /\ x \in Int
      BY <1>1
    <2>3. QED
      BY <2>1, <2>2
  <1>5. QED
    BY <1>4 DEF Max

\* The greatest number up to k is k.
LEMMA MaxUpTo ==
    ASSUME NEW k \in Nat \ {0}
    PROVE  Max(1 .. k) = k /\ (1 .. k) \ {k} = 1 .. k - 1
  <1>1. Max(1 .. k) \in 1 .. k /\ \A i \in 1 .. k : Max(1 .. k) >= i
    <2>1. 1 .. k \in SUBSET (0 .. k) /\ 1 .. k # {}
      OBVIOUS
    <2>2. QED
      BY <2>1, BoundedSetHasMax
  <1>2. k \in 1 .. k
    OBVIOUS
  <1>3. QED
    BY <1>1, <1>2

-----------------------------------------------------------------------------
(* What GetNonWarmupsDuration computes. *)

\* The loop's variables after one operation more.
Measure(span, o) ==
    [begin |-> Least(span.begin, o.time),
     end |-> Greatest(Least(span.begin, o.time), o.time) + o.elapsed_time]

\* The loop's variables before the first operation.
Before(ops) == [begin |-> ops[1].time, end |-> EndOf(ops[1])]

\* A fold over the first n operations: its equation, for the sets of their indexes.
FoldsTo(f, n, ops) ==
    f = [s \in SUBSET (1 .. n) |->
            IF s = {} THEN Before(ops)
            ELSE Measure(f[s \ {Max(s)}], ops[Max(s)])]

\* The equation of the fold has a solution.
LEMMA FoldExists ==
    ASSUME NEW ops, NEW n \in Nat
    PROVE  \E f : FoldsTo(f, n, ops)
  <1> DEFINE S == {m \in 0 .. n : \E f : FoldsTo(f, m, ops)}
  <1>1. 0 \in S
    <2> DEFINE z == [s \in SUBSET (1 .. 0) |-> Before(ops)]
    <2>1. \A s \in SUBSET (1 .. 0) : s = {}
      OBVIOUS
    <2>2. FoldsTo(z, 0, ops)
      BY <2>1 DEF FoldsTo
    <2> HIDE DEF z
    <2>3. QED
      BY <2>2
  <1>2. ASSUME NEW m \in 0 .. n - 1, m \in S
        PROVE  m + 1 \in S
    <2>1. PICK f : FoldsTo(f, m, ops)
      BY <1>2
    <2>2. m \in Nat /\ 1 .. m + 1 = (1 .. m) \cup {m + 1} /\ m + 1 \notin 1 .. m
      OBVIOUS
    <2> DEFINE h == [s \in SUBSET (1 .. m + 1) |->
                       IF m + 1 \in s THEN Measure(f[s \ {m + 1}], ops[m + 1]) ELSE f[s]]
    <2>3. ASSUME NEW s \in SUBSET (1 .. m + 1)
          PROVE  h[s] = IF s = {} THEN Before(ops)
                        ELSE Measure(h[s \ {Max(s)}], ops[Max(s)])
      <3>1. CASE m + 1 \in s
        <4>1. Max(s) = m + 1
          <5>1. s \in SUBSET (0 .. m + 1) /\ s # {} /\ m + 1 \in Nat
            BY <3>1
          <5>2. Max(s) \in s /\ Max(s) >= m + 1
            BY <3>1, <5>1, BoundedSetHasMax
          <5>3. Max(s) \in 1 .. m + 1
            BY <5>2
          <5>4. QED
            BY <2>2, <5>2, <5>3
        <4>2. s \ {m + 1} \in SUBSET (1 .. m + 1) /\ m + 1 \notin s \ {m + 1}
          OBVIOUS
        <4>3. h[s \ {m + 1}] = f[s \ {m + 1}]
          BY <4>2
        <4>4. QED
          BY <3>1, <4>1, <4>3
      <3>2. CASE m + 1 \notin s
        <4>1. s \in SUBSET (1 .. m) /\ h[s] = f[s]
          BY <2>2, <3>2
        <4>2. CASE s = {}
          BY <2>1, <4>1, <4>2 DEF FoldsTo
        <4>3. CASE s # {}
          <5>1. Max(s) \in s
            <6>1. s \in SUBSET (0 .. m)
              BY <4>1
            <6>2. QED
              BY <2>2, <4>3, <6>1, BoundedSetHasMax
          <5>2. s \ {Max(s)} \in SUBSET (1 .. m + 1) /\ m + 1 \notin s \ {Max(s)}
            BY <3>2
          <5>3. h[s \ {Max(s)}] = f[s \ {Max(s)}]
            BY <5>2
          <5>4. f[s] = Measure(f[s \ {Max(s)}], ops[Max(s)])
            BY <2>1, <4>1, <4>3 DEF FoldsTo
          <5>5. QED
            BY <4>1, <4>3, <5>3, <5>4
        <4>4. QED
          BY <4>2, <4>3
      <3>3. QED
        BY <3>1, <3>2
    <2>4. h = [s \in SUBSET (1 .. m + 1) |-> h[s]]
      OBVIOUS
    <2> HIDE DEF h
    <2>5. FoldsTo(h, m + 1, ops)
      BY <2>3, <2>4 DEF FoldsTo
    <2>6. QED
      BY <2>5
  <1>3. 0 .. n \subseteq S
    <2> HIDE DEF S
    <2>1. QED
      BY <1>1, <1>2, InductionUpTo
  <1>4. QED
    BY <1>3

\* The duration is what the loop makes of the operations, one after the other.
LEMMA MeasuredStepByStep ==
    ASSUME NEW ops \in Seq(Operations), ops # << >>
    PROVE  \E span : /\ span[0] = Before(ops)
                     /\ \A k \in 1 .. Len(ops) : span[k] = Measure(span[k - 1], ops[k])
                     /\ GetNonWarmupsDuration(ops) = span[Len(ops)].end - span[Len(ops)].begin
  <1> DEFINE n == Len(ops)
             f == CHOOSE g : FoldsTo(g, n, ops)
             span == [k \in 0 .. n |-> f[1 .. k]]
  <1>1. n \in Nat /\ DOMAIN ops = 1 .. n
    OBVIOUS
  <1>2. FoldsTo(f, n, ops)
    BY <1>1, FoldExists
  <1>3. GetNonWarmupsDuration(ops) = f[1 .. n].end - f[1 .. n].begin
    BY <1>1 DEF GetNonWarmupsDuration, FoldLeft, MapThenFoldSet, FoldsTo, Measure, Before
  <1> HIDE DEF f
  <1>4. span[0] = Before(ops)
    <2>1. 1 .. 0 = {} /\ {} \in SUBSET (1 .. n) /\ 0 \in 0 .. n
      BY <1>1
    <2>2. QED
      BY <1>2, <2>1 DEF FoldsTo
  <1>5. ASSUME NEW k \in 1 .. n PROVE span[k] = Measure(span[k - 1], ops[k])
    <2>1. k \in Nat \ {0} /\ k \in 0 .. n /\ k - 1 \in 0 .. n
      BY <1>1
    <2>2. 1 .. k \in SUBSET (1 .. n) /\ k \in 1 .. k
      BY <1>1, <2>1
    <2>3. f[1 .. k] = Measure(f[(1 .. k) \ {Max(1 .. k)}], ops[Max(1 .. k)])
      BY <1>2, <2>2 DEF FoldsTo
    <2>4. QED
      BY <2>1, <2>3, MaxUpTo
  <1>6. n \in 0 .. n
    BY <1>1
  <1>7. QED
    BY <1>3, <1>4, <1>5, <1>6

\* The loop keeps the least begin there was and the end of the operation it was at:
\* std::max(begin, op.time) is always op.time, as begin was lowered to it before.
LEMMA DurationIs ==
    ASSUME NEW ops \in Seq(Operations), ops # << >>
    PROVE  \E i \in 1 .. Len(ops) :
              /\ \A k \in 1 .. Len(ops) : ops[i].time <= ops[k].time
              /\ GetNonWarmupsDuration(ops) = EndOf(ops[Len(ops)]) - ops[i].time
  <1> DEFINE n == Len(ops)
  <1>1. n \in Nat \ {0} /\ \A k \in 1 .. n : ops[k] \in Operations
    BY EmptySeq, ElementOfSeq
  <1>2. \A k \in 1 .. n : ops[k].time \in Int /\ ops[k].elapsed_time \in Int
    BY <1>1 DEF Operations
  <1>3. PICK span : /\ span[0] = Before(ops)
                    /\ \A k \in 1 .. n : span[k] = Measure(span[k - 1], ops[k])
                    /\ GetNonWarmupsDuration(ops) = span[n].end - span[n].begin
    BY MeasuredStepByStep
  <1> DEFINE S == {k \in 0 .. n :
                     \E i \in 1 .. n :
                        /\ span[k].begin = ops[i].time
                        /\ \A l \in 1 .. k : ops[i].time <= ops[l].time
                        /\ k > 0 => span[k].end = EndOf(ops[k])}
  <1>4. 0 \in S
    <2>1. 1 \in 1 .. n /\ 0 \in 0 .. n /\ span[0].begin = ops[1].time
      BY <1>1, <1>3 DEF Before
    <2>2. \A l \in 1 .. 0 : ops[1].time <= ops[l].time
      OBVIOUS
    <2>3. QED
      BY <2>1, <2>2
  <1>5. ASSUME NEW k \in 0 .. n - 1, k \in S PROVE k + 1 \in S
    <2>1. PICK i \in 1 .. n : /\ span[k].begin = ops[i].time
                              /\ \A l \in 1 .. k : ops[i].time <= ops[l].time
      BY <1>5
    <2>2. k + 1 \in 1 .. n /\ k + 1 \in 0 .. n /\ k + 1 - 1 = k
          /\ 1 .. k + 1 = (1 .. k) \cup {k + 1}
      BY <1>1
    <2>3. span[k + 1] = Measure(span[k], ops[k + 1])
      BY <1>3, <2>2
    <2> DEFINE least == Least(span[k].begin, ops[k + 1].time)
    <2>4. PICK j \in {i, k + 1} :
             least = ops[j].time /\ least <= ops[i].time /\ least <= ops[k + 1].time
      BY <1>2, <2>1, <2>2 DEF Least
    <2>5. span[k + 1].begin = ops[j].time
      BY <2>3, <2>4 DEF Measure
    <2>6. span[k + 1].end = EndOf(ops[k + 1])
      <3>1. Greatest(least, ops[k + 1].time) = ops[k + 1].time
        BY <1>2, <2>1, <2>2, <2>4 DEF Greatest
      <3>2. QED
        BY <2>3, <3>1 DEF Measure, EndOf
    <2>7. \A l \in 1 .. k + 1 : ops[j].time <= ops[l].time
      <3> TAKE l \in 1 .. k + 1
      <3>1. CASE l = k + 1
        BY <2>4, <3>1
      <3>2. CASE l \in 1 .. k
        <4>1. ops[i].time <= ops[l].time /\ ops[j].time <= ops[i].time /\ l \in 1 .. n
          BY <2>1, <2>2, <2>4, <3>2
        <4>2. QED
          BY <1>2, <2>2, <2>4, <4>1
      <3>3. QED
        BY <2>2, <3>1, <3>2
    <2>8. j \in 1 .. n
      BY <2>2, <2>4
    <2>9. QED
      BY <2>2, <2>5, <2>6, <2>7, <2>8
  <1>6. n \in S
    <2> HIDE DEF S
    <2>1. 0 .. n \subseteq S
      BY <1>1, <1>4, <1>5, InductionUpTo
    <2>2. QED
      BY <1>1, <2>1
  <1>7. QED
    BY <1>1, <1>3, <1>6

\* The least of a set of numbers that has one.
LEMMA MinIs ==
    ASSUME NEW S \in SUBSET Int, NEW m \in S, \A k \in S : m <= k
    PROVE  Min(S) = m
  <1>1. Min(S) \in S /\ \A k \in S : Min(S) <= k
    BY DEF Min
  <1>2. Min(S) <= m /\ m <= Min(S) /\ m \in Int /\ Min(S) \in Int
    BY <1>1
  <1>3. QED
    BY <1>2

\* There is a report to compute only once the threads are joined.
LEMMA ReportedAfterJoin ==
    ASSUME MainInv, HasReport
    PROVE  /\ Joined
           /\ NonWarmups \in Seq(Operations) /\ NonWarmups # << >>
           /\ \A i \in 1 .. Len(NonWarmups) :
                 Within(NonWarmups[i], run_start + duration)
  <1>1. Joined
    BY DEF MainInv, ControlInv, HasReport, Joined, Alive
  <1>2. PICK m \in Nat :
           /\ NonWarmups \in Seq(Operations)
           /\ \A i \in 1 .. Len(NonWarmups) :
                 i + m \in 1 .. Len(operations) /\ NonWarmups[i] = operations[i + m]
    BY NonWarmupsAreLast DEF MainInv
  <1>3. DOMAIN operations = 1 .. Len(operations)
    BY DEF MainInv, TypeOK
  <1>4. \A i \in 1 .. Len(NonWarmups) : Within(NonWarmups[i], run_start + duration)
    BY <1>1, <1>2, <1>3 DEF MainInv, TimeInv
  <1>5. QED
    BY <1>1, <1>2, <1>4 DEF HasReport

\* The elapsed time of the report lies within the true one, and that within the run,
\* in whatever order the operations were recorded; it is the true one if the last
\* recorded was the last to end.
THEOREM MeasuredSpanIsBounded == Spec => []MeasuredSpan
  <1>1. ASSUME MainInv PROVE MeasuredSpan
    <2> SUFFICES ASSUME HasReport PROVE MeasuredSpan
      BY DEF MeasuredSpan
    <2> DEFINE ops == NonWarmups
               n == Len(ops)
               Begins == {ops[i].time : i \in DOMAIN ops}
               Ends_ == {EndOf(ops[i]) : i \in DOMAIN ops}
               measured == GetNonWarmupsDuration(ops)
    <2>1. /\ ops \in Seq(Operations) /\ ops # << >>
          /\ \A i \in 1 .. n : run_start <= ops[i].time /\ EndOf(ops[i]) <= run_start + duration
      BY <1>1, ReportedAfterJoin DEF Within
    <2>2. n \in Nat \ {0} /\ DOMAIN ops = 1 .. n /\ \A i \in 1 .. n : ops[i] \in Operations
      BY <2>1, EmptySeq, ElementOfSeq
    <2>3. run_start \in Nat /\ duration \in Nat
      BY <1>1, BoundTypes DEF MainInv, TypeOK
    <2> HIDE DEF ops
    <2>4. \A i \in 1 .. n :
             ops[i].time \in Nat /\ EndOf(ops[i]) \in Nat /\ ops[i].time <= EndOf(ops[i])
      BY <2>2, BoundTypes DEF Operations, EndOf
    <2>5. PICK i \in 1 .. n :
             /\ \A k \in 1 .. n : ops[i].time <= ops[k].time
             /\ measured = EndOf(ops[n]) - ops[i].time
      BY <2>1, DurationIs
    <2>6. Min(Begins) = ops[i].time
      <3>1. Begins \in SUBSET Int /\ ops[i].time \in Begins /\ \A k \in Begins : ops[i].time <= k
        BY <2>2, <2>4, <2>5
      <3> HIDE DEF Begins
      <3>2. QED
        BY <3>1, MinIs
    <2>7. Max(Ends_) \in Ends_ /\ \A k \in Ends_ : Max(Ends_) >= k
      <3>1. \A k \in 1 .. n : EndOf(ops[k]) \in 0 .. run_start + duration
        BY <2>1, <2>3, <2>4
      <3>2. Ends_ \in SUBSET (0 .. run_start + duration) /\ Ends_ # {}
        BY <2>2, <3>1
      <3>3. run_start + duration \in Nat
        BY <2>3
      <3> HIDE DEF Ends_
      <3>4. QED
        BY <3>2, <3>3, BoundedSetHasMax
    <2>8. PICK j \in 1 .. n : Max(Ends_) = EndOf(ops[j])
      BY <2>2, <2>7
    <2>9. EndOf(ops[n]) <= EndOf(ops[j]) /\ n \in 1 .. n
      BY <2>2, <2>7, <2>8
    <2>10. ops[i].time <= ops[n].time /\ ops[n].time <= EndOf(ops[n])
      BY <2>4, <2>5, <2>9
    <2> DEFINE begin == ops[i].time
               last == EndOf(ops[n])
               end == EndOf(ops[j])
    <2>11. /\ begin \in Nat /\ last \in Nat /\ end \in Nat
           /\ begin <= last /\ last <= end /\ run_start <= begin /\ end <= run_start + duration
           /\ measured = last - begin
      BY <2>1, <2>4, <2>5, <2>8, <2>9, <2>10
    <2>12. Last(ops) = ops[n]
      BY DEF Last
    <2> DEFINE span == Max(Ends_) - Min(Begins)
    <2>13. span = end - begin
      BY <2>6, <2>8
    <2> HIDE DEF Begins, Ends_, begin, last, end, measured
    <2>14. /\ 0 <= last - begin /\ last - begin <= end - begin /\ end - begin <= duration
      BY <2>3, <2>11
    <2>15. EndOf(Last(ops)) = Max(Ends_) => measured = span
      BY <2>8, <2>11, <2>12, <2>13 DEF last, end
    <2>16. 0 <= measured /\ measured <= span /\ span <= duration
      BY <2>11, <2>13, <2>14
    <2>17. QED
      BY <2>15, <2>16 DEF MeasuredSpan, ops, measured, Begins, Ends_
  <1>2. QED
    BY <1>1, MainInvariant, PTL

-----------------------------------------------------------------------------
(* The percentiles. *)

\* The index of a percentile is one of the n there are.
LEMMA PercentileIndex ==
    ASSUME NEW n \in Nat \ {0}, NEW p \in SevenPercentiles
    PROVE  \E q \in 0 .. n - 1 :
              /\ q = (p * n) \div 1000
              /\ q * 1000 <= p * n /\ p * n < (q + 1) * 1000
  <1> DEFINE q == (p * n) \div 1000
  <1>1. p * n \in Nat /\ p * n < 1000 * n
    <2>1. \A k \in {1, 10, 100, 500, 900, 990, 999} : k * n \in Nat /\ k * n < 1000 * n
      OBVIOUS
    <2>2. QED
      BY <2>1 DEF SevenPercentiles
  <1>2. q \in Nat /\ q * 1000 <= p * n /\ p * n < (q + 1) * 1000
    <2>1. \A x \in Nat : /\ x \div 1000 \in Nat /\ (x \div 1000) * 1000 <= x
                         /\ x < (x \div 1000 + 1) * 1000
      OBVIOUS
    <2>2. QED
      BY <1>1, <2>1
  <1> HIDE DEF q
  <1>3. q \in 0 .. n - 1
    <2>1. q * 1000 < 1000 * n
      BY <1>1, <1>2
    <2>2. QED
      BY <1>2, <2>1
  <1>4. QED
    BY <1>2, <1>3 DEF q

\* A way of sorting the indexes is an enumeration of them, the slowest first.
LEMMA SortedIndexes ==
    ASSUME NEW ops \in Seq(Operations), NEW indexes \in GetSortedOperationIndex(ops),
           NEW n \in Nat, n = Cardinality(Succeeded(ops))
    PROVE  /\ Len(indexes) = n /\ DOMAIN indexes = 1 .. n
           /\ indexes \in Bijection(1 .. n, Succeeded(ops))
           /\ \A j, k \in 1 .. n :
                 j < k => ops[indexes[j]].elapsed_time >= ops[indexes[k]].elapsed_time
  <1>1. /\ indexes \in [1 .. n -> Succeeded(ops)]
        /\ \A i, j \in 1 .. n : i # j => indexes[i] # indexes[j]
        /\ SlowestFirst(indexes, ops)
    BY DEF GetSortedOperationIndex, SetToSeqs
  <1>2. DOMAIN indexes = 1 .. n
    BY <1>1
  <1>3. Len(indexes) = n
    <2>1. indexes \in Seq(Succeeded(ops))
      BY <1>1, SeqDef
    <2>2. Len(indexes) \in Nat /\ DOMAIN indexes = 1 .. Len(indexes)
      BY <2>1
    <2>3. QED
      BY <1>2, <2>2
  <1>4. indexes \in Injection(1 .. n, Succeeded(ops))
    BY <1>1, <1>2 DEF Injection, IsInjective
  <1>5. indexes \in Surjection(1 .. n, Succeeded(ops))
    <2>1. Cardinality(1 .. n) = n
      BY FS_Interval
    <2>2. QED
      BY <1>4, <2>1, SucceededIsFinite, FS_Injection
  <1>6. QED
    BY <1>1, <1>2, <1>3, <1>4, <1>5 DEF Bijection, SlowestFirst

\* The operation at place q + 1 of the sorted indexes has at most q slower ones, and
\* at least q + 1 as slow, itself among them.
LEMMA RankInSorted ==
    ASSUME NEW ops \in Seq(Operations), NEW indexes \in GetSortedOperationIndex(ops),
           NEW q \in 0 .. Cardinality(Succeeded(ops)) - 1,
           NEW x, x = ops[indexes[q + 1]].elapsed_time
    PROVE  /\ indexes[q + 1] \in Succeeded(ops)
           /\ Cardinality({i \in Succeeded(ops) : ops[i].elapsed_time > x}) \in 0 .. q
           /\ Cardinality({i \in Succeeded(ops) : ops[i].elapsed_time >= x}) \in Nat
           /\ Cardinality({i \in Succeeded(ops) : ops[i].elapsed_time >= x}) >= q + 1
  <1> DEFINE all == Succeeded(ops)
             n == Cardinality(all)
             slower == {i \in all : ops[i].elapsed_time > x}
             as_slow == {i \in all : ops[i].elapsed_time >= x}
             before == [k \in 1 .. q |-> indexes[k]]
             upto == [k \in 1 .. q + 1 |-> indexes[k]]
  <1>1. n \in Nat /\ q \in Nat /\ q + 1 \in 1 .. n /\ IsFiniteSet(all)
    BY SucceededIsFinite
  <1>2. /\ indexes \in [1 .. n -> all]
        /\ \A j, k \in 1 .. n : indexes[j] = indexes[k] => j = k
        /\ \A i \in all : \E k \in 1 .. n : indexes[k] = i
        /\ \A j, k \in 1 .. n :
              j < k => ops[indexes[j]].elapsed_time >= ops[indexes[k]].elapsed_time
    <2>1. /\ DOMAIN indexes = 1 .. n /\ indexes \in Bijection(1 .. n, all)
          /\ \A j, k \in 1 .. n :
                j < k => ops[indexes[j]].elapsed_time >= ops[indexes[k]].elapsed_time
      BY <1>1, SortedIndexes
    <2>2. QED
      BY <2>1 DEF Bijection, Injection, Surjection, IsInjective
  <1>3. \A i \in all : ops[i].elapsed_time \in Int
    <2>1. \A i \in all : ops[i] \in Operations
      BY SucceededIsFinite, ElementOfSeq
    <2>2. QED
      BY <2>1 DEF Operations
  <1>4. indexes[q + 1] \in all /\ x \in Int
    BY <1>1, <1>2, <1>3
  <1> HIDE DEF all, n
  <1>5. IsFiniteSet(slower) /\ Cardinality(slower) \in 0 .. q
    <2> DEFINE T == {before[k] : k \in 1 .. q}
    <2>1. before \in Surjection(1 .. q, T)
      BY DEF Surjection
    <2>2. IsFiniteSet(1 .. q) /\ Cardinality(1 .. q) = q
      BY <1>1, FS_Interval
    <2>3. slower \subseteq T
      <3> SUFFICES ASSUME NEW i \in all, ops[i].elapsed_time > x PROVE i \in T
        OBVIOUS
      <3>1. PICK k \in 1 .. n : indexes[k] = i
        BY <1>2
      <3>2. ASSUME k > q PROVE FALSE
        <4>1. CASE k = q + 1
          BY <1>3, <1>4, <3>1, <4>1
        <4>2. CASE q + 1 < k
          <5>1. x >= ops[i].elapsed_time
            BY <1>1, <1>2, <3>1, <4>2
          <5>2. QED
            BY <1>3, <1>4, <5>1
        <4>3. QED
          BY <1>1, <3>2, <4>1, <4>2
      <3>3. k \in 1 .. q
        BY <1>1, <3>2
      <3>4. QED
        BY <3>1, <3>3
    <2> HIDE DEF T, slower, before
    <2>4. IsFiniteSet(T) /\ Cardinality(T) <= q
      BY <2>1, <2>2, FS_Surjection
    <2>5. IsFiniteSet(slower) /\ Cardinality(slower) <= Cardinality(T)
      BY <2>3, <2>4, FS_Subset
    <2>6. Cardinality(slower) \in Nat /\ Cardinality(T) \in Nat
      BY <2>4, <2>5, FS_CardinalityType
    <2>7. QED
      BY <1>1, <2>4, <2>5, <2>6
  <1>6. Cardinality(as_slow) \in Nat /\ Cardinality(as_slow) >= q + 1
    <2>1. IsFiniteSet(as_slow)
      BY <1>1, FS_Subset
    <2>2. \A k \in 1 .. q + 1 : k \in 1 .. n
      BY <1>1
    <2>3. \A k \in 1 .. q + 1 : indexes[k] \in as_slow
      <3> TAKE k \in 1 .. q + 1
      <3>1. indexes[k] \in all
        BY <1>2, <2>2
      <3>2. CASE k = q + 1
        BY <1>3, <1>4, <3>1, <3>2
      <3>3. CASE k < q + 1
        BY <1>1, <1>2, <2>2, <3>1, <3>3
      <3>4. QED
        BY <1>1, <3>2, <3>3
    <2>4. upto \in Injection(1 .. q + 1, as_slow)
      BY <1>2, <2>2, <2>3 DEF Injection, IsInjective
    <2>5. Cardinality(1 .. q + 1) = q + 1
      BY <1>1, FS_Interval
    <2> HIDE DEF as_slow, upto
    <2>6. QED
      BY <2>1, <2>4, <2>5, FS_Injection, FS_CardinalityType
  <1>7. QED
    BY <1>4, <1>5, <1>6 DEF all

\* There is a way of sorting the indexes, so that the percentiles are of something:
\* each index at the place that the number of those not after it says.
THEOREM SomeOrderIsSorted ==
    ASSUME NEW ops \in Seq(Operations)
    PROVE  GetSortedOperationIndex(ops) # {}
  <1> DEFINE all == Succeeded(ops)
             n == Cardinality(all)
             E(i) == ops[i].elapsed_time
             UpTo(i) == {j \in all : E(j) > E(i) \/ (E(j) = E(i) /\ j <= i)}
             rank == [i \in all |-> Cardinality(UpTo(i))]
  <1>1. n \in Nat /\ IsFiniteSet(all) /\ \A i \in all : i \in Nat /\ E(i) \in Int
    <2>1. n \in Nat /\ IsFiniteSet(all) /\ all \subseteq 1 .. Len(ops)
      BY SucceededIsFinite
    <2>2. \A i \in all : ops[i] \in Operations
      BY <2>1, ElementOfSeq
    <2>3. QED
      BY <2>1, <2>2 DEF Operations
  <1> HIDE DEF all, n, E
  <1>2. \A i \in all : IsFiniteSet(UpTo(i)) /\ UpTo(i) \subseteq all /\ i \in UpTo(i)
    <2> TAKE i \in all
    <2>1. UpTo(i) \subseteq all /\ i \in UpTo(i)
      BY <1>1
    <2> HIDE DEF UpTo
    <2>2. QED
      BY <1>1, <2>1, FS_Subset
  <1>3. \A i \in all : Cardinality(UpTo(i)) \in 1 .. n
    <2> TAKE i \in all
    <2> HIDE DEF UpTo
    <2>1. /\ IsFiniteSet(UpTo(i)) /\ UpTo(i) \subseteq all /\ UpTo(i) # {}
      BY <1>2
    <2>2. Cardinality(UpTo(i)) <= n
      BY <1>1, <2>1, FS_Subset DEF n
    <2>3. Cardinality(UpTo(i)) \in Nat /\ Cardinality(UpTo(i)) # 0
      BY <2>1, FS_CardinalityType, FS_EmptySet
    <2>4. QED
      BY <1>1, <2>2, <2>3
  <1>4. ASSUME NEW i \in all, NEW k \in all, E(i) > E(k) \/ (E(i) = E(k) /\ i < k)
        PROVE  Cardinality(UpTo(i)) < Cardinality(UpTo(k))
    <2>1. UpTo(i) \subseteq UpTo(k) /\ k \notin UpTo(i)
      BY <1>1, <1>4
    <2>2. k \in UpTo(k) /\ IsFiniteSet(UpTo(k))
      BY <1>2
    <2>3. /\ Cardinality(UpTo(i)) \in Nat /\ Cardinality(UpTo(k)) \in Nat
      BY <1>1, <1>3
    <2> HIDE DEF UpTo
    <2>4. Cardinality(UpTo(i)) <= Cardinality(UpTo(k)) /\ UpTo(i) # UpTo(k)
      BY <2>1, <2>2, FS_Subset
    <2>5. Cardinality(UpTo(i)) # Cardinality(UpTo(k))
      BY <2>1, <2>2, <2>4, FS_Subset
    <2>6. QED
      BY <2>3, <2>4, <2>5
  <1> HIDE DEF UpTo
  <1>5. rank \in Bijection(all, 1 .. n)
    <2>1. rank \in [all -> 1 .. n]
      BY <1>3
    <2>2. ASSUME NEW i \in all, NEW k \in all, i # k
          PROVE  rank[i] # rank[k]
      <3>1. \/ E(i) > E(k) \/ (E(i) = E(k) /\ i < k)
            \/ E(k) > E(i) \/ (E(k) = E(i) /\ k < i)
        BY <1>1, <2>2
      <3>2. rank[i] \in Int /\ rank[k] \in Int
        BY <2>1
      <3>3. rank[i] < rank[k] \/ rank[k] < rank[i]
        BY <1>4, <3>1
      <3>4. QED
        BY <3>2, <3>3
    <2>3. rank \in Injection(all, 1 .. n)
      BY <2>1, <2>2 DEF Injection, IsInjective
    <2>4. Cardinality(1 .. n) = Cardinality(all) /\ IsFiniteSet(1 .. n)
      BY <1>1, FS_Interval DEF n
    <2>5. rank \in Surjection(all, 1 .. n)
      BY <2>3, <2>4, FS_Injection
    <2>6. QED
      BY <2>3, <2>5 DEF Bijection
  <1>6. \A k \in 1 .. n : \E i \in all : rank[i] = k
    BY <1>5 DEF Bijection, Surjection
  <1> DEFINE indexes == [k \in 1 .. n |-> CHOOSE i \in all : rank[i] = k]
  <1>7. \A k \in 1 .. n : indexes[k] \in all /\ rank[indexes[k]] = k
    BY <1>6
  <1>8. indexes \in [1 .. n -> all] /\ DOMAIN indexes = 1 .. n
    BY <1>7
  <1> HIDE DEF indexes
  <1>9. \A j, k \in 1 .. n : j # k => indexes[j] # indexes[k]
    BY <1>7
  <1>10. ASSUME NEW j \in 1 .. n, NEW k \in 1 .. n, j < k
         PROVE  E(indexes[j]) >= E(indexes[k])
    <2>1. indexes[j] \in all /\ indexes[k] \in all
          /\ rank[indexes[j]] = j /\ rank[indexes[k]] = k
      BY <1>7
    <2>2. E(indexes[k]) > E(indexes[j]) => rank[indexes[k]] < rank[indexes[j]]
      BY <1>4, <2>1
    <2>3. ~(k < j)
      BY <1>10
    <2>4. QED
      BY <1>1, <2>1, <2>2, <2>3
  <1>11. SlowestFirst(indexes, ops)
    BY <1>8, <1>10 DEF SlowestFirst, E
  <1>12. indexes \in SetToSeqs(all)
    BY <1>8, <1>9 DEF SetToSeqs, n
  <1>13. QED
    BY <1>11, <1>12 DEF GetSortedOperationIndex, all

\* Whatever order std::sort leaves equally slow operations in, each percentile of the
\* report is that of a successful operation, and of the right rank.
THEOREM PercentilesHaveTheirRank == Spec => []PercentileRanks
  <1>1. ASSUME MainInv PROVE PercentileRanks
    <2> SUFFICES ASSUME HasReport,
                        NEW indexes \in GetSortedOperationIndex(NonWarmups),
                        NEW p \in SevenPercentiles
                 PROVE  LET picked == NonWarmups[Percentile(p, indexes)]
                            share  == p * Cardinality(Succeeded(NonWarmups))
                            Slower == {i \in Succeeded(NonWarmups) :
                                          NonWarmups[i].elapsed_time > picked.elapsed_time}
                            AsSlow == {i \in Succeeded(NonWarmups) :
                                          NonWarmups[i].elapsed_time >= picked.elapsed_time}
                        IN /\ picked.ok
                           /\ Cardinality(Slower) * 1000 <= share
                           /\ Cardinality(AsSlow) * 1000 > share
      BY DEF PercentileRanks
    <2> DEFINE ops == NonWarmups
               n == Cardinality(Succeeded(ops))
               picked == ops[Percentile(p, indexes)]
               Slower == {i \in Succeeded(ops) : ops[i].elapsed_time > picked.elapsed_time}
               AsSlow == {i \in Succeeded(ops) : ops[i].elapsed_time >= picked.elapsed_time}
    <2>1. ops \in Seq(Operations) /\ Succeeded(ops) # {}
      BY <1>1, ReportedAfterJoin, LastNonWarmupSucceeded
    <2>2. n \in Nat \ {0}
      BY <2>1, SucceededIsFinite, FS_EmptySet
    <2>3. Len(indexes) = n
      BY <2>1, <2>2, SortedIndexes
    <2> HIDE DEF ops, n
    <2>4. PICK q \in 0 .. n - 1 : /\ q = (p * n) \div 1000
                                  /\ q * 1000 <= p * n /\ p * n < (q + 1) * 1000
      BY <2>2, PercentileIndex
    <2>5. picked = ops[indexes[q + 1]]
      BY <2>3, <2>4 DEF Percentile
    <2> DEFINE x == picked.elapsed_time
    <2>6. x = ops[indexes[q + 1]].elapsed_time
      BY <2>5
    <2> HIDE DEF picked, x
    <2>7. /\ indexes[q + 1] \in Succeeded(ops)
          /\ Cardinality({i \in Succeeded(ops) : ops[i].elapsed_time > x}) \in 0 .. q
          /\ Cardinality({i \in Succeeded(ops) : ops[i].elapsed_time >= x}) \in Nat
          /\ Cardinality({i \in Succeeded(ops) : ops[i].elapsed_time >= x}) >= q + 1
      <3>1. /\ indexes \in GetSortedOperationIndex(ops)
            /\ q \in 0 .. Cardinality(Succeeded(ops)) - 1
        BY <2>4 DEF ops, n
      <3>2. QED
        BY <2>1, <2>6, <3>1, RankInSorted
    <2>8. Cardinality(Slower) \in 0 .. q /\ Cardinality(AsSlow) \in Nat
          /\ Cardinality(AsSlow) >= q + 1
      BY <2>7 DEF x
    <2>9. picked.ok
      BY <2>5, <2>7 DEF Succeeded
    <2>10. p * n \in Nat /\ q \in Nat
      BY <2>2, <2>4 DEF SevenPercentiles
    <2> HIDE DEF Slower, AsSlow
    <2>11. Cardinality(Slower) * 1000 <= p * n /\ Cardinality(AsSlow) * 1000 > p * n
      BY <2>4, <2>8, <2>10
    <2>12. QED
      BY <2>9, <2>11 DEF ops, n, picked, Slower, AsSlow
  <1>2. QED
    BY <1>1, MainInvariant, PTL

-----------------------------------------------------------------------------
(* The work queue: its counters, and who holds what. *)

\* pop advances the counter of one thread by one, and returns the pair that
\* this makes handed out.
LEMMA PopWorkHandsOut ==
    ASSUME QueueTypeOK, NEW t \in ThreadIds, PopWork(t)
    PROVE  \E u \in Source(t) :
              /\ u \in ThreadIds /\ thread_works[u] < WorkCountPerThread
              /\ thread_works' = [thread_works EXCEPT ![u] = @ + 1]
              /\ work' = [work EXCEPT ![t] = <<u, thread_works[u] + 1>>]
              /\ <<u, thread_works[u] + 1>> \in Works
  <1>1. PICK u \in Source(t) :
           /\ thread_works' = [thread_works EXCEPT ![u] = @ + 1]
           /\ work' = [work EXCEPT ![t] = <<u, thread_works[u] + 1>>]
    BY DEF PopWork
  <1>2. u \in ThreadIds /\ thread_works[u] < WorkCountPerThread
    BY <1>1 DEF Source, HasWork
  <1>3. thread_works[u] + 1 \in 1 .. WorkCountPerThread
    BY <1>2, WorkQueueAssumption DEF QueueTypeOK
  <1>4. QED
    BY <1>1, <1>2, <1>3 DEF Works

\* The counters stay within the work there is, and pop returns a pair or (0, 0).
THEOREM QueueTypeCorrect == QueueSpec => []QueueTypeOK
  <1>1. QueueInit => QueueTypeOK
    BY WorkQueueAssumption DEF QueueInit, QueueTypeOK
  <1>2. QueueTypeOK /\ [QueueNext]_queueVars => QueueTypeOK'
    <2> SUFFICES ASSUME QueueTypeOK, [QueueNext]_queueVars PROVE QueueTypeOK'
      OBVIOUS
    <2>1. ASSUME NEW t \in ThreadIds, PopWork(t) PROVE QueueTypeOK'
      <3>1. PICK u \in ThreadIds :
               /\ thread_works[u] < WorkCountPerThread
               /\ thread_works' = [thread_works EXCEPT ![u] = @ + 1]
               /\ work' = [work EXCEPT ![t] = <<u, thread_works[u] + 1>>]
               /\ <<u, thread_works[u] + 1>> \in Works
        BY <2>1, PopWorkHandsOut
      <3>2. thread_works[u] + 1 \in 0 .. WorkCountPerThread
        BY <3>1, WorkQueueAssumption DEF QueueTypeOK
      <3>3. UNCHANGED work_stealing_enabled
        BY <2>1 DEF PopWork
      <3>4. QED
        BY <3>1, <3>2, <3>3 DEF QueueTypeOK
    <2>2. ASSUME NEW t \in ThreadIds, PopNothing(t) PROVE QueueTypeOK'
      BY <2>2 DEF PopNothing, QueueTypeOK
    <2>3. CASE UNCHANGED queueVars
      BY <2>3 DEF queueVars, QueueTypeOK
    <2>4. QED
      BY <2>1, <2>2, <2>3 DEF QueueNext, Pop
  <1>3. QED
    BY <1>1, <1>2, PTL DEF QueueSpec

\* Exclusive is inductive once every popped pair is known to be handed out.
ExclusiveInv ==
    /\ QueueTypeOK
    /\ \A t \in ThreadIds : work[t] # NoWork => HandedOut(work[t])
    /\ Exclusive

\* No piece of work is in the hands of two threads, for any number of threads.
THEOREM WorkIsExclusive == QueueSpec => []Exclusive
  <1>1. QueueInit => ExclusiveInv
    BY WorkQueueAssumption DEF QueueInit, ExclusiveInv, QueueTypeOK, Exclusive
  <1>2. ExclusiveInv /\ QueueTypeOK' /\ [QueueNext]_queueVars => ExclusiveInv'
    <2> SUFFICES ASSUME ExclusiveInv, QueueTypeOK', [QueueNext]_queueVars PROVE ExclusiveInv'
      OBVIOUS
    <2>1. ASSUME NEW t \in ThreadIds, PopWork(t) PROVE ExclusiveInv'
      <3>1. PICK u \in ThreadIds :
               /\ thread_works[u] < WorkCountPerThread
               /\ thread_works' = [thread_works EXCEPT ![u] = @ + 1]
               /\ work' = [work EXCEPT ![t] = <<u, thread_works[u] + 1>>]
               /\ <<u, thread_works[u] + 1>> \in Works
        BY <2>1, PopWorkHandsOut DEF ExclusiveInv
      <3>2. ASSUME NEW w \in Works, w[2] <= thread_works[w[1]]
            PROVE  w[2] <= thread_works'[w[1]] /\ w # <<u, thread_works[u] + 1>>
        BY <3>1, <3>2 DEF Works, ExclusiveInv, QueueTypeOK
      <3>3. ASSUME NEW v \in ThreadIds, v # t, work'[v] # NoWork
            PROVE  work'[v][2] <= thread_works'[work'[v][1]] /\ work'[v] # work'[t]
        <4>1. work'[v] = work[v] /\ work'[t] = <<u, thread_works[u] + 1>>
          BY <3>1, <3>3 DEF ExclusiveInv, QueueTypeOK
        <4>2. work[v] \in Works /\ work[v][2] <= thread_works[work[v][1]]
          BY <3>3, <4>1 DEF ExclusiveInv, QueueTypeOK, HandedOut
        <4>3. QED
          BY <3>2, <4>1, <4>2
      <3>4. work'[t][2] <= thread_works'[work'[t][1]]
        BY <3>1 DEF ExclusiveInv, QueueTypeOK
      <3>5. \A v \in ThreadIds : work'[v] # NoWork => HandedOut(work[v])'
        BY <3>3, <3>4 DEF HandedOut
      <3>6. ASSUME NEW a \in ThreadIds, NEW b \in ThreadIds, work'[a] = work'[b]
            PROVE  a = b \/ work'[a] = NoWork
        <4>1. CASE a = t \/ b = t
          BY <3>3, <3>6, <4>1
        <4>2. CASE a # t /\ b # t
          BY <3>1, <3>6, <4>2 DEF ExclusiveInv, Exclusive, QueueTypeOK
        <4>3. QED
          BY <4>1, <4>2
      <3>7. QED
        BY <3>5, <3>6 DEF ExclusiveInv, Exclusive
    <2>2. ASSUME NEW t \in ThreadIds, PopNothing(t) PROVE ExclusiveInv'
      BY <2>2 DEF PopNothing, ExclusiveInv, QueueTypeOK, Exclusive, HandedOut
    <2>3. CASE UNCHANGED queueVars
      BY <2>3 DEF queueVars, ExclusiveInv, QueueTypeOK, Exclusive, HandedOut
    <2>4. QED
      BY <2>1, <2>2, <2>3 DEF QueueNext, Pop
  <1>3. QED
    BY <1>1, <1>2, QueueTypeCorrect, PTL DEF QueueSpec, ExclusiveInv

-----------------------------------------------------------------------------
(* The queue as a set of work. *)

\* What is left of a thread's own work, read off its counter.
LEMMA OwnWork ==
    ASSUME QueueTypeOK, NEW t \in ThreadIds
    PROVE  Pool!Own(t) = {} <=> ~HasWork(t)
  <1>1. ASSUME HasWork(t) PROVE <<t, thread_works[t] + 1>> \in Pool!Own(t)
    BY <1>1, WorkQueueAssumption DEF Pool!Own, Works, HandedOut, HasWork, QueueTypeOK
  <1>2. ASSUME ~HasWork(t), NEW w \in Pool!Own(t) PROVE FALSE
    BY <1>2, WorkQueueAssumption DEF Pool!Own, Works, HandedOut, HasWork, QueueTypeOK
  <1>3. QED
    BY <1>1, <1>2

\* A pop that returns work takes it from the pool.
LEMMA PopWorkTakes ==
    ASSUME QueueTypeOK, QueueTypeOK', NEW t \in ThreadIds, PopWork(t)
    PROVE  Pool!Take(t)
  <1> DEFINE remaining == {w \in Works : ~HandedOut(w)}
  <1>1. PICK u \in Source(t) :
           /\ u \in ThreadIds /\ thread_works[u] < WorkCountPerThread
           /\ thread_works' = [thread_works EXCEPT ![u] = @ + 1]
           /\ work' = [work EXCEPT ![t] = <<u, thread_works[u] + 1>>]
           /\ <<u, thread_works[u] + 1>> \in Works
    BY PopWorkHandsOut
  <1> DEFINE new == <<u, thread_works[u] + 1>>
  <1>2. new \in remaining
    BY <1>1 DEF HandedOut, QueueTypeOK
  <1>3. new \in Pool!Allowed(t)
    <2>1. CASE u = t
      BY <1>2, <2>1, OwnWork DEF Pool!Allowed, Pool!Own
    <2>2. CASE u # t
      <3>1. work_stealing_enabled /\ ~HasWork(t)
        BY <1>1, <2>2 DEF Source
      <3>2. Pool!Own(t) = {}
        BY <3>1, OwnWork
      <3>3. QED
        BY <1>2, <3>1, <3>2 DEF Pool!Allowed
    <2>3. QED
      BY <2>1, <2>2
  <1>4. ASSUME NEW w \in Works PROVE HandedOut(w)' <=> HandedOut(w) \/ w = new
    <2>1. PICK a \in ThreadIds, b \in 1 .. WorkCountPerThread : w = <<a, b>>
      BY DEF Works
    <2>2. b <= thread_works'[a] <=> b <= thread_works[a] \/ (a = u /\ b = thread_works[u] + 1)
      BY <1>1, <2>1 DEF QueueTypeOK
    <2>3. QED
      BY <2>1, <2>2 DEF HandedOut
  <1>5. remaining' = remaining \ {new}
    BY <1>4 DEF Works
  <1>6. UNCHANGED work_stealing_enabled
    BY DEF PopWork
  <1>7. QED
    BY <1>1, <1>3, <1>5, <1>6 DEF Pool!Take

\* A pop that returns (0, 0) finds nothing the thread may have.
LEMMA PopNothingRefuses ==
    ASSUME QueueTypeOK, NEW t \in ThreadIds, PopNothing(t)
    PROVE  Pool!Refuse(t)
  <1>1. Pool!Own(t) = {}
    BY OwnWork DEF PopNothing
  <1>2. ASSUME work_stealing_enabled, NEW w \in Works PROVE HandedOut(w)
    <2>1. ~HasWork(w[1])
      BY <1>2 DEF PopNothing, Works
    <2>2. QED
      BY <2>1, WorkQueueAssumption DEF HasWork, HandedOut, Works, QueueTypeOK
  <1>3. Pool!Allowed(t) = {}
    BY <1>1, <1>2 DEF Pool!Allowed
  <1>4. \A w \in Works : HandedOut(w)' <=> HandedOut(w)
    BY DEF PopNothing, HandedOut
  <1>5. QED
    BY <1>3, <1>4 DEF PopNothing, Pool!Refuse

\* The queue implements the pool: its counters are a set of remaining work.
THEOREM QueueImplementsPool == QueueSpec => PoolSpec
  <1>1. QueueInit => Pool!Init
    <2> SUFFICES ASSUME QueueInit PROVE Pool!Init
      OBVIOUS
    <2>1. \A w \in Works : ~HandedOut(w)
      BY WorkQueueAssumption DEF QueueInit, HandedOut, Works
    <2>2. QED
      BY <2>1 DEF QueueInit, Pool!Init
  <1>2. QueueTypeOK /\ QueueTypeOK' /\ [QueueNext]_queueVars => [Pool!Next]_(Pool!vars)
    <2> SUFFICES ASSUME QueueTypeOK, QueueTypeOK', [QueueNext]_queueVars
                 PROVE  [Pool!Next]_(Pool!vars)
      OBVIOUS
    <2>1. ASSUME NEW t \in ThreadIds, PopWork(t) PROVE Pool!Next
      BY <2>1, PopWorkTakes DEF Pool!Next
    <2>2. ASSUME NEW t \in ThreadIds, PopNothing(t) PROVE Pool!Next
      BY <2>2, PopNothingRefuses DEF Pool!Next
    <2>3. CASE UNCHANGED queueVars
      BY <2>3 DEF queueVars, Pool!vars, HandedOut
    <2>4. QED
      BY <2>1, <2>2, <2>3 DEF QueueNext, Pop
  <1>3. QED
    BY <1>1, <1>2, QueueTypeCorrect, PTL DEF QueueSpec, PoolSpec, Pool!Spec
=============================================================================
