----------------------------- MODULE BenchmarkMain -----------------------------
(***************************************************************************)
(* main() of benchmark/main.cc around the run: the admin server's thread    *)
(* (grpc_admin.cc), the times RunnerWatcher records, and what PrintResult   *)
(* (print_result.cc) computes from them.  The workers are those of module   *)
(* Runner as the watcher sees them: each has operations to get through, one *)
(* after the other, and tries again what failed, or fails the run.          *)
(***************************************************************************)
EXTENDS Integers, Sequences, FiniteSets, SequencesExt

CONSTANTS
    Threads,         \* the worker threads
    Runs,            \* --runs, the operations each has to get through
    ParameterSpace,  \* the flags that matter here
    MaxTime,         \* bound: how often the clock ticks
    MaxFailures      \* bound: operations that fail

ParameterRecords ==
    [grpc_admin : BOOLEAN,    \* a port for the admin server is given,
     port_free : BOOLEAN,     \* and the server can have it
     client_valid : BOOLEAN, trying : BOOLEAN, wait_threads : BOOLEAN, warmups : Nat]

ASSUME BenchmarkMainAssumption ==
    /\ ParameterSpace \subseteq ParameterRecords
    /\ Runs \in Nat \ {0} /\ MaxTime \in Nat /\ MaxFailures \in Nat
    /\ IsFiniteSet(Threads)

VARIABLES
    parameters,      \* chosen once
    clock,           \* absl::Now()
    main,            \* start, running, stop, joining, results, ended
    exit_status,     \* none, or how the process ended: 0, 1, aborted, crashed
    run_start, duration,
    g_admin_server,  \* null, up, shutdown
    g_admin_thread,  \* none, building, waiting, exited
    pc,              \* idle, calling, ended, failed
    left,            \* how many operations each thread has still to get through
    op,              \* the operation each thread is at
    operations,      \* operations_
    failures         \* how many have failed

adminVars  == <<g_admin_server, g_admin_thread>>
workerVars == <<pc, left, op, operations, failures>>
vars == <<parameters, clock, main, exit_status, run_start, duration, adminVars, workerVars>>

Operations == [time : 0 .. MaxTime, elapsed_time : 0 .. MaxTime, ok : BOOLEAN]

TypeOK ==
    /\ parameters \in ParameterSpace
    /\ clock \in 0 .. MaxTime /\ run_start \in 0 .. MaxTime /\ duration \in 0 .. MaxTime
    /\ main \in {"start", "running", "stop", "joining", "results", "ended"}
    /\ exit_status \in {"none", "0", "1", "aborted", "crashed"}
    /\ g_admin_server \in {"null", "up", "shutdown"}
    /\ g_admin_thread \in {"none", "building", "waiting", "exited"}
    /\ pc \in [Threads -> {"idle", "calling", "ended", "failed"}]
    /\ left \in [Threads -> 0 .. Runs]
    /\ op \in [Threads -> Operations]
    /\ operations \in Seq(Operations)
    /\ failures \in 0 .. MaxFailures

Init ==
    /\ parameters \in ParameterSpace
    /\ clock = 0 /\ run_start = 0 /\ duration = 0
    /\ main = "start" /\ exit_status = "none"
    /\ g_admin_server = "null" /\ g_admin_thread = "none"
    /\ pc = [t \in Threads |-> "idle"]
    /\ left = [t \in Threads |-> Runs]
    /\ op = [t \in Threads |-> [time |-> 0, elapsed_time |-> 0, ok |-> FALSE]]
    /\ operations = << >> /\ failures = 0

Alive == exit_status = "none"

Tick ==
    /\ Alive /\ clock < MaxTime
    /\ clock' = clock + 1
    /\ UNCHANGED <<parameters, main, exit_status, run_start, duration, adminVars, workerVars>>

-----------------------------------------------------------------------------
(* What the report is computed from. *)

\* GetNonWarmupsOperations
NonWarmups == SubSeq(operations, parameters.warmups * Cardinality(Threads) + 1, Len(operations))

EndOf(o) == o.time + o.elapsed_time

Least(a, b)    == IF a < b THEN a ELSE b
Greatest(a, b) == IF a > b THEN a ELSE b

\* Wrong on purpose: the interval begins where the last operation does.
DurationOfLast(ops) ==
    LET Step(span, o) == [begin |-> o.time, end |-> Greatest(span.end, EndOf(o))]
        span == FoldLeft(Step, [begin |-> ops[1].time, end |-> 0], ops)
    IN span.end - span.begin

\* "end = std::max(begin, op.time) + op.elapsed_time": each operation's end replaces
\* that of the one before it.
GetNonWarmupsDuration(ops) ==
    LET Step(span, o) ==
            LET begin == Least(span.begin, o.time)
            IN [begin |-> begin, end |-> Greatest(begin, o.time) + o.elapsed_time]
        span == FoldLeft(Step, [begin |-> ops[1].time, end |-> EndOf(ops[1])], ops)
    IN IF ops = << >> THEN 0 ELSE span.end - span.begin

SlowestFirst(indexes, ops) ==
    \A j, k \in DOMAIN indexes :
        j < k => ops[indexes[j]].elapsed_time >= ops[indexes[k]].elapsed_time

\* Wrong on purpose: the operations that failed are indexed as well.
IndexesOfAll(ops) == {indexes \in SetToSeqs(DOMAIN ops) : SlowestFirst(indexes, ops)}

Succeeded(ops) == {i \in DOMAIN ops : ops[i].ok}

\* The indexes of the operations that succeeded, the slowest first: what std::sort
\* may return, which leaves those that took the same time in any order.
GetSortedOperationIndex(ops) == {indexes \in SetToSeqs(Succeeded(ops)) : SlowestFirst(indexes, ops)}

\* kSevenPercentiles, in thousandths.
SevenPercentiles == {1, 10, 100, 500, 900, 990, 999}

\* The operation that stands for a percentile.
Percentile(p, indexes) == indexes[(p * Len(indexes)) \div 1000 + 1]

-----------------------------------------------------------------------------
(* The main thread. *)

\* main() reaches the creation of the runner with the admin thread under way.
StartGrpcAdmin ==
    /\ Alive /\ main = "start"
    /\ g_admin_thread' = IF parameters.grpc_admin THEN "building" ELSE "none"
    /\ run_start' = clock
    /\ main' = "running"
    /\ UNCHANGED <<parameters, clock, exit_status, duration, g_admin_server, workerVars>>

\* Destroying g_admin_thread at exit while it is joinable ends in std::terminate.
ExitWith1 ==
    /\ exit_status' = IF g_admin_thread = "none" THEN "1" ELSE "aborted"
    /\ main' = "ended"

\* Only now is an unknown client noticed.
RejectClient ==
    /\ Alive /\ main = "running"
    /\ ~parameters.client_valid
    /\ ExitWith1
    /\ UNCHANGED <<parameters, clock, run_start, duration, adminVars, workerVars>>

JoinThreads ==
    /\ Alive /\ main = "running" /\ parameters.client_valid
    /\ \A t \in Threads : left[t] = 0
    /\ duration' = clock - run_start
    /\ main' = "stop"
    /\ UNCHANGED <<parameters, clock, exit_status, run_start, adminVars, workerVars>>

\* Run() returns false: a thread that failed was waited for with the others, or the
\* result of one of several was lost (see Runner).
RunFails ==
    /\ Alive /\ main = "running" /\ parameters.client_valid
    /\ \A t \in Threads : left[t] = 0 \/ (pc[t] = "failed" /\ parameters.wait_threads)
    /\ (\E t \in Threads : pc[t] = "failed") \/ Cardinality(Threads) > 1
    /\ ExitWith1
    /\ UNCHANGED <<parameters, clock, run_start, duration, adminVars, workerVars>>

\* Wrong on purpose: the thread is joined, but its server is not shut down.
StopGrpcAdminOnlyJoins ==
    /\ Alive /\ main = "stop"
    /\ main' = IF g_admin_thread = "none" THEN "results" ELSE "joining"
    /\ UNCHANGED <<parameters, clock, exit_status, run_start, duration, adminVars, workerVars>>

\* Without a thread there is nothing to stop; without a server the call to
\* Shutdown() is one on a null pointer.  That wakes Wait() as the last thing it does:
\* it is one step here, as the library's destructor waits for the rest of it.
StopGrpcAdmin ==
    /\ Alive /\ main = "stop"
    /\ \/ /\ g_admin_thread = "none"
          /\ main' = "results"
          /\ UNCHANGED <<exit_status, g_admin_server>>
       \/ /\ g_admin_thread # "none" /\ g_admin_server # "null"
          /\ g_admin_server' = "shutdown"
          /\ main' = "joining"
          /\ UNCHANGED exit_status
       \/ /\ g_admin_thread # "none" /\ g_admin_server = "null"
          /\ exit_status' = "crashed" /\ main' = "ended"
          /\ UNCHANGED g_admin_server
    /\ UNCHANGED <<parameters, clock, run_start, duration, g_admin_thread, workerVars>>

JoinAdmin ==
    /\ Alive /\ main = "joining"
    /\ g_admin_thread = "exited"
    /\ g_admin_thread' = "none"
    /\ main' = "results"
    /\ UNCHANGED <<parameters, clock, exit_status, run_start, duration, g_admin_server,
                   workerVars>>

\* PrintResult indexes the successful operations, if there is any operation.
PrintResult ==
    /\ Alive /\ main = "results"
    /\ exit_status' = IF NonWarmups # << >> /\ << >> \in GetSortedOperationIndex(NonWarmups)
                      THEN "crashed" ELSE "0"
    /\ main' = "ended"
    /\ UNCHANGED <<parameters, clock, run_start, duration, adminVars, workerVars>>

Main == StartGrpcAdmin \/ RejectClient \/ JoinThreads \/ RunFails \/ StopGrpcAdmin
        \/ JoinAdmin \/ PrintResult

-----------------------------------------------------------------------------
(* The admin thread. *)

\* BuildAndStart returns null if the port is taken, and Wait() is called on that.
BuildAndStart ==
    /\ Alive /\ g_admin_thread = "building"
    /\ \/ /\ parameters.port_free
          /\ g_admin_server' = "up" /\ g_admin_thread' = "waiting"
          /\ UNCHANGED <<exit_status, main>>
       \/ /\ ~parameters.port_free
          /\ exit_status' = "crashed" /\ main' = "ended"
          /\ UNCHANGED adminVars
    /\ UNCHANGED <<parameters, clock, run_start, duration, workerVars>>

\* Wait() returns once the server is shut down, and the server is destroyed.
WaitReturns ==
    /\ Alive /\ g_admin_thread = "waiting" /\ g_admin_server = "shutdown"
    /\ g_admin_server' = "null" /\ g_admin_thread' = "exited"
    /\ UNCHANGED <<parameters, clock, main, exit_status, run_start, duration, workerVars>>

Admin == BuildAndStart \/ WaitReturns

-----------------------------------------------------------------------------
(* The workers. *)

Running == Alive /\ main = "running" /\ parameters.client_valid

\* Wrong on purpose: the loop runs once too often.
BeginCallOffByOne(t) ==
    /\ Running /\ pc[t] = "idle" /\ left[t] >= 0
    /\ op' = [op EXCEPT ![t].time = clock]
    /\ pc' = [pc EXCEPT ![t] = "calling"]
    /\ UNCHANGED <<parameters, clock, main, exit_status, run_start, duration, adminVars, left,
                   operations, failures>>

BeginCall(t) ==
    /\ Running /\ pc[t] = "idle" /\ left[t] > 0
    /\ op' = [op EXCEPT ![t].time = clock]
    /\ pc' = [pc EXCEPT ![t] = "calling"]
    /\ UNCHANGED <<parameters, clock, main, exit_status, run_start, duration, adminVars, left,
                   operations, failures>>

\* run_end is taken when the call has ended.
EndCall(t) ==
    /\ Running /\ pc[t] = "calling"
    /\ \E ok \in BOOLEAN :
          /\ op' = [op EXCEPT ![t].elapsed_time = clock - op[t].time, ![t].ok = ok]
          /\ \/ ok /\ UNCHANGED failures
             \/ ~ok /\ failures < MaxFailures /\ failures' = failures + 1
    /\ pc' = [pc EXCEPT ![t] = "ended"]
    /\ UNCHANGED <<parameters, clock, main, exit_status, run_start, duration, adminVars, left,
                   operations>>

\* The operation is recorded, maybe after one that ended later.
NotifyCompleted(t) ==
    /\ Running /\ pc[t] = "ended"
    /\ operations' = Append(operations, op[t])
    /\ \/ /\ op[t].ok
          /\ left' = [left EXCEPT ![t] = @ - 1]
          /\ pc' = [pc EXCEPT ![t] = "idle"]
       \/ /\ ~op[t].ok
          /\ pc' = [pc EXCEPT ![t] = IF parameters.trying THEN "idle" ELSE "failed"]
          /\ UNCHANGED left
    /\ UNCHANGED <<parameters, clock, main, exit_status, run_start, duration, adminVars, op,
                   failures>>

\* exit(1), unless told to wait for the other threads.
ExitProcess(t) ==
    /\ Running /\ pc[t] = "failed" /\ ~parameters.wait_threads
    /\ ExitWith1
    /\ UNCHANGED <<parameters, clock, run_start, duration, adminVars, workerVars>>

Worker(t) == BeginCall(t) \/ EndCall(t) \/ NotifyCompleted(t) \/ ExitProcess(t)

Over == ~Alive /\ UNCHANGED vars

Next == Tick \/ Main \/ Admin \/ (\E t \in Threads : Worker(t)) \/ Over

\* Threads are scheduled and calls end; the clock owes nothing to anyone.
Fairness == WF_vars(Main) /\ WF_vars(Admin) /\ \A t \in Threads : WF_vars(Worker(t))

Spec == Init /\ [][Next]_vars /\ Fairness

-----------------------------------------------------------------------------
(* Properties *)

HasReport == main \in {"results", "ended"} /\ exit_status \in {"none", "0"} /\ NonWarmups # << >>

\* The elapsed time that the throughput is divided by is never longer than the time
\* from the first begin to the last end, nor that than the run; it is shorter only
\* if the operation recorded last was not the last to end.
MeasuredSpan ==
    HasReport =>
        LET measured == GetNonWarmupsDuration(NonWarmups)
            Begins == {NonWarmups[i].time : i \in DOMAIN NonWarmups}
            Ends_  == {EndOf(NonWarmups[i]) : i \in DOMAIN NonWarmups}
            span   == Max(Ends_) - Min(Begins)
        IN /\ 0 <= measured /\ measured <= span /\ span <= duration
           /\ EndOf(Last(NonWarmups)) = Max(Ends_) => measured = span

\* However the indexes get sorted, each percentile is that of an operation that
\* succeeded, with no more slower ones before it than its share of the successes,
\* and not fewer as slow.
PercentileRanks ==
    HasReport =>
        \A indexes \in GetSortedOperationIndex(NonWarmups), p \in SevenPercentiles :
            LET picked == NonWarmups[Percentile(p, indexes)]
                share  == p * Cardinality(Succeeded(NonWarmups))
                Slower == {i \in Succeeded(NonWarmups) :
                              NonWarmups[i].elapsed_time > picked.elapsed_time}
                AsSlow == {i \in Succeeded(NonWarmups) :
                              NonWarmups[i].elapsed_time >= picked.elapsed_time}
            IN /\ picked.ok
               /\ Cardinality(Slower) * 1000 <= share
               /\ Cardinality(AsSlow) * 1000 > share

\* The ways the process may end: with 0 only after its admin thread and server have
\* ended, and in a crash only while that thread has not set g_admin_server yet.
EndsWell ==
    \/ exit_status = "0" /\ g_admin_thread = "none" /\ g_admin_server = "null"
    \/ exit_status \in {"1", "aborted"}
    \/ exit_status = "crashed" /\ g_admin_thread = "building" /\ g_admin_server = "null"

\* The process ends in one of these ways.
Ends == <>EndsWell
===============================================================================
