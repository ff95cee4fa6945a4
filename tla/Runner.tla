---------------------------------- MODULE Runner ----------------------------------
(***************************************************************************)
(* One run of the benchmark: main() of benchmark/main.cc, the Runner it     *)
(* creates (GrpcRunner of grpc_runner.cc, or GcscppRunner of                *)
(* gcscpp_runner.cc) with its worker threads, the WorkQueue that GrpcRunner *)
(* gives them, and the operations RunnerWatcher records.                    *)
(*                                                                         *)
(* The stub provider (channel_policy.cc) is left to the pool modules: what  *)
(* it returns never changes the control flow of a worker, only the channel  *)
(* its call runs on, and a call may end in any way on any channel.          *)
(***************************************************************************)
EXTENDS Integers, Sequences

CONSTANTS
    ThreadCount,      \* --threads
    Runs,             \* --runs, the work items of each thread
    ParameterSpace,   \* the other flags: the records a run may be started with
    WordBits,         \* bits in a word of std::vector<bool>
    MaxFailures       \* bound: calls of one run that fail

\* Parameters, as far as they decide what happens: sizes, names, credentials and
\* where the report goes do not, beyond being accepted.
ParameterRecords ==
    [client : {"grpc", "gcscpp"},            \* --client, gcscpp-json or -grpc
     flags_valid : BOOLEAN,     \* GetParameters and main() accept the flags
     mode : {"benchmark", "ctest", "mtest"}, \* --ctest, --mtest
     policy_valid : BOOLEAN,    \* --cpolicy and --carg agree
     arguments_valid : BOOLEAN, \* the operation accepts its sizes
     operation : {"read", "random-read", "write"},
     resumable : BOOLEAN, crc32c : BOOLEAN, trying : BOOLEAN,
     wait_threads : BOOLEAN, steal_work : BOOLEAN,
     warmups : Nat]

ASSUME RunnerAssumption ==
    /\ ThreadCount \in Nat
    /\ Runs \in Nat
    /\ WordBits \in Nat \ {0}
    /\ MaxFailures \in Nat
    /\ ParameterSpace \subseteq ParameterRecords

VARIABLES
    parameters,     \* parameters_, chosen once
    main,           \* where main() is
    thread_works,   \* the queue's counters
    run,            \* a thread's own loop counter, without a queue: iterations begun
    pc,             \* where each worker thread is
    job,            \* the <<thread_id, work_id>> each thread works on
    call,           \* how its last call ended: status and whether its data was intact
    outcome,        \* what DoOperation returned
    operations,     \* RunnerWatcher::operations_
    returns,        \* the vector<bool> the threads store their result in
    word,           \* the word of it a thread has loaded and not yet stored
    failures        \* calls that failed so far, at most MaxFailures

vars == <<parameters, main, thread_works, run, pc, job, call, outcome,
          operations, returns, word, failures>>

queueVars  == <<thread_works, run, job>>
resultVars == <<outcome, returns, word>>

Threads == 1 .. ThreadCount
Jobs    == Threads \X (1 .. Runs)

Queue == INSTANCE WorkQueue
    WITH WorkCountPerThread <- Runs,
         work_stealing_enabled <- parameters.steal_work,
         work <- job

Calls == [ok : BOOLEAN, intact : BOOLEAN]
Operations == [job : Jobs, ok : BOOLEAN, intact : BOOLEAN]

TypeOK ==
    /\ parameters \in ParameterSpace
    /\ main \in {"start", "running", "report", "succeeded", "failed", "exited"}
    /\ thread_works \in [Threads -> 0 .. Runs]
    /\ run \in [Threads -> 0 .. Runs]
    /\ pc \in [Threads -> {"unborn", "begin", "next", "call", "spinning",
                           "notify", "return", "store", "done"}]
    /\ job \in [Threads -> Jobs \cup {Queue!NoWork}]
    /\ call \in [Threads -> Calls]
    /\ outcome \in [Threads -> BOOLEAN]
    /\ operations \in Seq(Operations)
    /\ returns \in [Threads -> BOOLEAN]
    /\ word \in [Threads -> [Threads -> BOOLEAN]]
    /\ failures \in 0 .. MaxFailures

Init ==
    /\ parameters \in ParameterSpace
    /\ main = "start"
    /\ thread_works = [t \in Threads |-> 0]
    /\ run = [t \in Threads |-> 0]
    /\ pc = [t \in Threads |-> "unborn"]
    /\ job = [t \in Threads |-> Queue!NoWork]
    /\ call = [t \in Threads |-> [ok |-> FALSE, intact |-> TRUE]]
    /\ outcome = [t \in Threads |-> FALSE]
    /\ operations = << >>
    /\ returns = [t \in Threads |-> FALSE]
    /\ word = [t \in Threads |-> [u \in Threads |-> FALSE]]
    /\ failures = 0

-----------------------------------------------------------------------------
(* The main thread. *)

\* GetParameters knows the operation and the policy, main() knows the client and
\* could start what serves --prometheus_endpoint.
FlagsAccepted == parameters.flags_valid

\* main() returns 1 before there is a runner.
RejectFlags ==
    /\ main = "start"
    /\ ~FlagsAccepted
    /\ main' = "failed"
    /\ UNCHANGED <<parameters, queueVars, pc, call, resultVars, operations, failures>>

\* GrpcRunner::Run() returns run_ctest's or run_mtest's int as a bool: both are 0.
RunDiagnostic ==
    /\ main = "start"
    /\ FlagsAccepted
    /\ parameters.client = "grpc"
    /\ parameters.mode # "benchmark"
    /\ main' = "failed"
    /\ UNCHANGED <<parameters, queueVars, pc, call, resultVars, operations, failures>>

RejectPolicy ==
    /\ main = "start"
    /\ FlagsAccepted
    /\ parameters.client = "grpc"
    /\ parameters.mode = "benchmark"
    /\ ~parameters.policy_valid
    /\ main' = "failed"
    /\ UNCHANGED <<parameters, queueVars, pc, call, resultVars, operations, failures>>

\* GcscppRunner has neither modes nor policies.
StartRun ==
    /\ main = "start"
    /\ FlagsAccepted
    /\ \/ parameters.client = "gcscpp"
       \/ parameters.mode = "benchmark" /\ parameters.policy_valid
    /\ main' = "running"
    /\ UNCHANGED <<parameters, queueVars, pc, call, resultVars, operations, failures>>

\* Threads are created one by one, and run while the later ones are created.
SpawnThread(t) ==
    /\ main = "running"
    /\ pc[t] = "unborn"
    /\ \A u \in 1 .. t - 1 : pc[u] # "unborn"
    /\ pc' = [pc EXCEPT ![t] = "begin"]
    /\ UNCHANGED <<parameters, main, queueVars, call, resultVars, operations, failures>>

\* Wrong on purpose: one thread's success is enough.
JoinThreadsAny ==
    /\ main = "running"
    /\ \A t \in Threads : pc[t] = "done"
    /\ main' = IF \E t \in Threads : returns[t] THEN "report" ELSE "failed"
    /\ UNCHANGED <<parameters, queueVars, pc, call, resultVars, operations, failures>>

\* Every thread joined: Run() returns whether all of returns is true.
JoinThreads ==
    /\ main = "running"
    /\ \A t \in Threads : pc[t] = "done"
    /\ main' = IF \A t \in Threads : returns[t] THEN "report" ELSE "failed"
    /\ UNCHANGED <<parameters, queueVars, pc, call, resultVars, operations, failures>>

\* PrintResult, WriteReport and WriteData, then main returns 0.
Report ==
    /\ main = "report"
    /\ main' = "succeeded"
    /\ UNCHANGED <<parameters, queueVars, pc, call, resultVars, operations, failures>>

-----------------------------------------------------------------------------
(* A worker thread: DoOperation, then the store of its result. *)

\* GcscppRunner has no queue, DoRandomRead of GrpcRunner leaves it alone.
UsesQueue == parameters.client = "grpc" /\ parameters.operation \in {"read", "write"}

Goto(t, label) == pc' = [pc EXCEPT ![t] = label]

Return(t, result) ==
    /\ outcome' = [outcome EXCEPT ![t] = result]
    /\ Goto(t, "return")

\* DoRandomRead and DoWrite check their sizes first; DoRead takes any.
CheckArguments(t) ==
    /\ main = "running"
    /\ pc[t] = "begin"
    /\ \/ /\ parameters.arguments_valid \/ parameters.operation = "read"
          /\ Goto(t, "next")
          /\ UNCHANGED outcome
       \/ /\ ~parameters.arguments_valid /\ parameters.operation # "read"
          /\ Return(t, FALSE)
    /\ UNCHANGED <<parameters, main, queueVars, call, operations, returns, word, failures>>

\* Wrong on purpose: a thread leaves when its own work is done, whoever else
\* still has some.
PopJobNoStealing(t) ==
    /\ main = "running"
    /\ pc[t] = "next"
    /\ UsesQueue
    /\ UNCHANGED <<parameters, main, run, call, operations, returns, word, failures>>
    /\ \/ Queue!HasWork(t) /\ Queue!PopWork(t) /\ Goto(t, "call") /\ UNCHANGED outcome
       \/ ~Queue!HasWork(t) /\ Return(t, TRUE) /\ UNCHANGED <<thread_works, job>>

\* DoRead and DoWrite of GrpcRunner: the next job comes from the queue.
PopJob(t) ==
    /\ main = "running"
    /\ pc[t] = "next"
    /\ UsesQueue
    /\ UNCHANGED <<parameters, main, run, call, operations, returns, word, failures>>
    /\ \/ Queue!PopWork(t) /\ Goto(t, "call") /\ UNCHANGED outcome
       \/ Queue!PopNothing(t) /\ Return(t, TRUE)

\* Wrong on purpose: one run too many.
NextRunOffByOne(t) ==
    /\ main = "running"
    /\ pc[t] = "next"
    /\ ~UsesQueue
    /\ \/ /\ run[t] <= Runs
          /\ run' = [run EXCEPT ![t] = @ + 1]
          /\ job' = [job EXCEPT ![t] = <<t, run[t] + 1>>]
          /\ Goto(t, "call")
          /\ UNCHANGED outcome
       \/ /\ run[t] > Runs
          /\ Return(t, TRUE)
          /\ UNCHANGED <<run, job>>
    /\ UNCHANGED <<parameters, main, thread_works, call, operations, returns, word, failures>>

\* Without a queue: a plain loop over the thread's own runs (numbered from 1 here).
NextRun(t) ==
    /\ main = "running"
    /\ pc[t] = "next"
    /\ ~UsesQueue
    /\ \/ /\ run[t] < Runs
          /\ run' = [run EXCEPT ![t] = @ + 1]
          /\ job' = [job EXCEPT ![t] = <<t, run[t] + 1>>]
          /\ Goto(t, "call")
          /\ UNCHANGED outcome
       \/ /\ run[t] >= Runs
          /\ Return(t, TRUE)
          /\ UNCHANGED <<run, job>>
    /\ UNCHANGED <<parameters, main, thread_works, call, operations, returns, word, failures>>

\* A resumable write first asks for an upload id; an error there ends the
\* thread, with nothing reported to the provider or to the watcher.
StartResumableFails(t) ==
    /\ main = "running"
    /\ pc[t] = "call"
    /\ parameters.client = "grpc"
    /\ parameters.operation = "write" /\ parameters.resumable
    /\ Return(t, FALSE)
    /\ UNCHANGED <<parameters, main, queueVars, call, operations, returns, word, failures>>

\* GcscppRunner: the reader or writer does not open, which ends the thread too.
OpenFails(t) ==
    /\ main = "running"
    /\ pc[t] = "call"
    /\ parameters.client = "gcscpp"
    /\ Return(t, FALSE)
    /\ UNCHANGED <<parameters, main, queueVars, call, operations, returns, word, failures>>

\* The streaming call, up to what Finish() returned.
CallEnds(t, c) ==
    /\ main = "running"
    /\ pc[t] = "call"
    /\ call' = [call EXCEPT ![t] = c]
    /\ \/ c.ok /\ UNCHANGED failures
       \/ ~c.ok /\ failures < MaxFailures /\ failures' = failures + 1
    /\ Goto(t, "notify")
    /\ UNCHANGED <<parameters, main, queueVars, resultVars, operations>>

\* A read that checks and meets a bad checksum stops reading, and takes the
\* status of the stream as it is.
ReadObject(t) ==
    /\ parameters.client = "grpc" /\ parameters.operation = "read"
    /\ \E c \in Calls : (c.intact \/ parameters.crc32c) /\ CallEnds(t, c)

RandomReadObject(t) ==
    /\ parameters.client = "grpc" /\ parameters.operation = "random-read"
    /\ \E c \in Calls : (c.intact \/ parameters.crc32c) /\ CallEnds(t, c)

\* A write leaves the checking to the server.
WriteObject(t) ==
    /\ parameters.client = "grpc" /\ parameters.operation = "write"
    /\ \E c \in Calls : c.intact /\ CallEnds(t, c)

\* GcscppRunner records OK, whatever became of the stream.
ClientReadObject(t) ==
    /\ parameters.client = "gcscpp" /\ parameters.operation = "read"
    /\ \E c \in Calls : c.ok /\ CallEnds(t, c)

ClientWriteObject(t) ==
    /\ parameters.client = "gcscpp" /\ parameters.operation = "write"
    /\ \E c \in Calls : c.ok /\ CallEnds(t, c)

\* A random read goes on until it has all bytes it wants: if the stream ends
\* before, it reads nothing for ever.
ClientRandomReadObject(t) ==
    /\ parameters.client = "gcscpp" /\ parameters.operation = "random-read"
    /\ \/ CallEnds(t, [ok |-> TRUE, intact |-> TRUE])
       \/ /\ main = "running"
          /\ pc[t] = "call"
          /\ Goto(t, "spinning")
          /\ UNCHANGED <<parameters, main, queueVars, call, resultVars, operations,
                         failures>>

Call(t) == ReadObject(t) \/ RandomReadObject(t) \/ WriteObject(t)
           \/ ClientReadObject(t) \/ ClientRandomReadObject(t) \/ ClientWriteObject(t)

\* One more turn of the loop that reads nothing.
Spin(t) == main = "running" /\ pc[t] = "spinning" /\ UNCHANGED vars

\* The watcher adds the operation to the others, under its lock.
NotifyCompleted(t) ==
    operations' = Append(operations, [job |-> job[t], ok |-> call[t].ok,
                                      intact |-> call[t].intact])

\* Wrong on purpose: a failed job is skipped, and the next one taken.
NotifySkips(t) ==
    /\ main = "running"
    /\ pc[t] = "notify"
    /\ NotifyCompleted(t)
    /\ \/ (call[t].ok \/ parameters.trying) /\ Goto(t, "next") /\ UNCHANGED outcome
       \/ ~call[t].ok /\ ~parameters.trying /\ Return(t, FALSE)
    /\ UNCHANGED <<parameters, main, queueVars, call, returns, word, failures>>

\* Wrong on purpose: with trying set, a job is tried again whatever happened.
NotifyRepeats(t) ==
    /\ main = "running"
    /\ pc[t] = "notify"
    /\ Len(operations) < ThreadCount * Runs + MaxFailures
    /\ NotifyCompleted(t)
    /\ \/ call[t].ok /\ ~parameters.trying /\ Goto(t, "next") /\ UNCHANGED outcome
       \/ parameters.trying /\ Goto(t, "call") /\ UNCHANGED outcome
       \/ ~call[t].ok /\ ~parameters.trying /\ Return(t, FALSE)
    /\ UNCHANGED <<parameters, main, queueVars, call, returns, word, failures>>

\* The watcher is told of the call; then the same job is tried again, the
\* next one is taken, or the thread gives up.  DoRandomRead's "run -= 1" is
\* undone by the loop's own increment, so it too stays on its job.
Notify(t) ==
    /\ main = "running"
    /\ pc[t] = "notify"
    /\ NotifyCompleted(t)
    /\ \/ call[t].ok /\ Goto(t, "next") /\ UNCHANGED outcome
       \/ ~call[t].ok /\ parameters.trying /\ Goto(t, "call") /\ UNCHANGED outcome
       \/ ~call[t].ok /\ ~parameters.trying /\ Return(t, FALSE)
    /\ UNCHANGED <<parameters, main, queueVars, call, returns, word, failures>>

\* exit(1): the first failing thread ends the process, unless told to wait.
ExitProcess(t) ==
    /\ main = "running"
    /\ pc[t] = "return"
    /\ ~outcome[t] /\ ~parameters.wait_threads
    /\ main' = "exited"
    /\ UNCHANGED <<parameters, queueVars, pc, call, resultVars, operations, failures>>

\* returns[thread_id - 1] = r on a vector<bool>: the thread loads the word
\* its bit lives in and stores it back with the bit changed.  Threads whose
\* bits share a word race.
LoadWord(t) ==
    /\ main = "running"
    /\ pc[t] = "return"
    /\ outcome[t] \/ parameters.wait_threads
    /\ word' = [word EXCEPT ![t] = returns]
    /\ Goto(t, "store")
    /\ UNCHANGED <<parameters, main, queueVars, call, outcome, operations, returns, failures>>

SameWord(t, u) == (t - 1) \div WordBits = (u - 1) \div WordBits

\* Wrong on purpose: a thread whose result is stored goes back to storing it.
StoreWordAgain(t) ==
    /\ main = "running"
    /\ pc[t] = "store"
    /\ returns' = [returns EXCEPT ![t] = outcome[t]]
    /\ Goto(t, "return")
    /\ UNCHANGED <<parameters, main, queueVars, call, outcome, operations, word, failures>>

StoreWord(t) ==
    /\ main = "running"
    /\ pc[t] = "store"
    /\ returns' = [u \in Threads |->
                     IF u = t THEN outcome[t]
                     ELSE IF SameWord(t, u) THEN word[t][u] ELSE returns[u]]
    /\ Goto(t, "done")
    /\ UNCHANGED <<parameters, main, queueVars, call, outcome, operations, word, failures>>

-----------------------------------------------------------------------------

Main == RejectFlags \/ RunDiagnostic \/ RejectPolicy \/ StartRun \/ JoinThreads \/ Report
        \/ \E t \in Threads : SpawnThread(t)

Worker(t) == CheckArguments(t) \/ PopJob(t) \/ NextRun(t)
             \/ StartResumableFails(t) \/ OpenFails(t) \/ Call(t) \/ Notify(t)
             \/ ExitProcess(t) \/ LoadWord(t) \/ StoreWord(t)

Ended == main \in {"succeeded", "failed", "exited"}

\* The process is gone: nothing more happens.
Gone == Ended /\ UNCHANGED vars

Next == Main \/ (\E t \in Threads : Worker(t) \/ Spin(t)) \/ Gone

\* The operating system schedules every thread, and a call ends sooner or later.
Fairness == WF_vars(Main) /\ \A t \in Threads : WF_vars(Worker(t))

Spec == Init /\ [][Next]_vars /\ Fairness

-----------------------------------------------------------------------------
(* Properties *)

Finished(t) == pc[t] \in {"return", "store", "done"}
Failed(t)   == Finished(t) /\ ~outcome[t]
Holds(t, j) == pc[t] \in {"call", "spinning", "notify"} /\ job[t] = j

\* A job was begun when the queue, or the random-read loop, has given it out.
Begun(j) == IF UsesQueue THEN Queue!HandedOut(j) ELSE j[2] <= run[j[1]]

CompletedJobs == {operations[i].job : i \in {k \in DOMAIN operations : operations[k].ok}}

\* RunnerWatcher::GetNonWarmupsOperations with the warmups main() passes it.
NonWarmups ==
    SubSeq(operations, parameters.warmups * ThreadCount + 1, Len(operations))

\* Two threads never work on the same job, whoever's queue it came from.
JobsExclusive ==
    \A t, u \in Threads : \A j \in Jobs : Holds(t, j) /\ Holds(u, j) => t = u

\* Retries and stealing never make a job succeed twice: the report's
\* throughput counts each job's bytes once.
OnceOnly ==
    \A i, k \in DOMAIN operations :
        /\ operations[i].ok /\ operations[k].ok
        /\ operations[i].job = operations[k].job
        => i = k

\* A job that was begun is completed, in the hands of a thread, or was given
\* up by a thread that failed: no path through the retries drops one.
NoJobLost ==
    \A j \in Jobs : Begun(j) =>
        \/ j \in CompletedJobs
        \/ \E t \in Threads : Holds(t, j)
        \/ \E t \in Threads : Failed(t)

\* With stealing, a thread leaves only when no thread's work is left to take.
StealComplete ==
    UsesQueue /\ parameters.steal_work =>
        \A t \in Threads : Finished(t) /\ outcome[t] =>
            \A u \in Threads : ~Queue!HasWork(u)

\* Run() never reports a success that one of the threads did not have, though
\* the threads race on the words of returns.
NoFalseSuccess ==
    main \in {"report", "succeeded"} => \A t \in Threads : Finished(t) /\ outcome[t]

\* PrintResult and WriteReport index the peers of the successful operations
\* after the warm-ups without looking whether there are any: there is one
\* whenever there is an operation to report at all.
ReportHasSuccess ==
    main = "report" /\ NonWarmups # << >> =>
        \E i \in DOMAIN NonWarmups : NonWarmups[i].ok

\* The run implements the promise of module Benchmark.
Verdict ==
    IF main \in {"report", "succeeded"} THEN "succeeded"
    ELSE IF main \in {"failed", "exited"} THEN "failed"
    ELSE "pending"

Promise == INSTANCE Benchmark WITH completed <- CompletedJobs, verdict <- Verdict

PromiseSpec == Promise!Spec

\* Every run ends, whatever fails: no thread retries or waits for ever once
\* calls stop failing, unless one spins at the early end of a random read.
Terminates == <>(Ended \/ \E t \in Threads : pc[t] = "spinning")

\* With trying, calls that fail only delay a GrpcRunner (GcscppRunner knows no
\* trying): all jobs get completed.  The one exception is a resumable write that
\* cannot start: see TryingNeverFails.
TryingCompletes ==
    /\ main = "start" /\ FlagsAccepted /\ parameters.client = "grpc"
    /\ parameters.mode = "benchmark" /\ parameters.policy_valid
    /\ parameters.arguments_valid /\ parameters.trying
    ~> \/ CompletedJobs = Jobs
       \/ /\ parameters.operation = "write" /\ parameters.resumable
          /\ \E t \in Threads : Failed(t) /\ job[t] \notin CompletedJobs

\* What the source says, and the code does not do.  A run shows the first; TLC finds
\* the others violated when they are added to MCRunner.cfg.

\* "Runner failed to complete a run.": said only of a run with a failure.
FailureIsReal ==
    main = "failed" /\ FlagsAccepted /\ parameters.policy_valid => \E t \in Threads : Failed(t)

\* "Check CRC32C check for received content": content that fails the check is
\* not an operation that succeeded.
CorruptReadFails ==
    \A i \in DOMAIN operations : operations[i].ok => operations[i].intact

\* "Keep trying the same operation if failed": no thread gives up on one.
TryingNeverFails ==
    parameters.trying /\ parameters.arguments_valid =>
        \A t \in Threads : ~Failed(t)

=============================================================================
