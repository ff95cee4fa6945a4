---------------------------- MODULE RunnerProofs ----------------------------
(***************************************************************************)
(* Theorems about Runner for any number of threads, runs and failures,      *)
(* any flags, and any word size of vector<bool>.                            *)
(***************************************************************************)
EXTENDS Runner, TLAPS

\* The queue's step as the runner sees it: one counter advances.
LEMMA QueueStep ==
    ASSUME TypeOK, NEW t \in Threads, Queue!PopWork(t)
    PROVE  \E u \in Threads :
              /\ thread_works[u] < Runs
              /\ thread_works' = [thread_works EXCEPT ![u] = @ + 1]
              /\ job' = [job EXCEPT ![t] = <<u, thread_works[u] + 1>>]
              /\ <<u, thread_works[u] + 1>> \in Jobs
  <1>1. PICK u \in Queue!Source(t) :
           /\ thread_works' = [thread_works EXCEPT ![u] = @ + 1]
           /\ job' = [job EXCEPT ![t] = <<u, thread_works[u] + 1>>]
    BY DEF Queue!PopWork
  <1>2. u \in Threads /\ thread_works[u] < Runs
    BY <1>1 DEF Queue!Source, Queue!HasWork, Queue!ThreadIds, Threads
  <1>3. thread_works[u] + 1 \in 1 .. Runs
    BY <1>2, RunnerAssumption DEF TypeOK
  <1>4. QED
    BY <1>1, <1>2, <1>3 DEF Jobs

Working(t) == pc[t] \in {"call", "spinning", "notify"}

\* A thread that is about to record an operation has a real job to record it for.
HasJob == \A t \in Threads : Working(t) => job[t] \in Jobs

\* DoRandomRead's next iteration is a step of its own counter.
LEMMA RunStep ==
    ASSUME TypeOK, NEW t \in Threads, NextRun(t), run[t] < Runs
    PROVE  /\ run' = [run EXCEPT ![t] = @ + 1]
           /\ job' = [job EXCEPT ![t] = <<t, run[t] + 1>>]
           /\ pc' = [pc EXCEPT ![t] = "call"]
           /\ UNCHANGED outcome
           /\ run[t] + 1 \in 0 .. Runs
           /\ <<t, run[t] + 1>> \in Jobs
  <1>1. ~(run[t] >= Runs) /\ run[t] + 1 \in 1 .. Runs /\ run[t] + 1 \in 0 .. Runs
    BY RunnerAssumption DEF TypeOK
  <1>2. <<t, run[t] + 1>> \in Jobs
    BY <1>1 DEF Jobs
  <1>3. QED
    BY <1>1, <1>2 DEF NextRun, Goto

\* A thread whose runs are over returns.
LEMMA RunsOut ==
    ASSUME TypeOK, NEW t \in Threads, NextRun(t), ~(run[t] < Runs)
    PROVE  Return(t, TRUE) /\ UNCHANGED <<run, job>>
  BY DEF NextRun

\* Types, and a job in every working thread's hands: neither is inductive
\* without the other, since Notify records the job.
LEMMA TypesAndJobs == Spec => [](TypeOK /\ HasJob)
  <1> DEFINE Inv == TypeOK /\ HasJob
  <1>1. Init => Inv
    BY RunnerAssumption DEF Init, TypeOK, Calls, HasJob, Working
  <1>2. Inv /\ [Next]_vars => Inv'
    <2> SUFFICES ASSUME TypeOK, HasJob, [Next]_vars PROVE Inv'
      OBVIOUS
    <2> USE DEF queueVars, resultVars, Goto, Return, HasJob, Working
    <2>1. CASE RunDiagnostic \/ RejectFlags
      BY <2>1 DEF RejectFlags, RunDiagnostic, TypeOK
    <2>2. CASE RejectPolicy
      BY <2>2 DEF RejectPolicy, TypeOK
    <2>3. CASE StartRun
      BY <2>3 DEF StartRun, TypeOK
    <2>4. CASE JoinThreads
      BY <2>4 DEF JoinThreads, TypeOK
    <2>5. CASE Report
      BY <2>5 DEF Report, TypeOK
    <2>6. ASSUME NEW t \in Threads, SpawnThread(t) PROVE Inv'
      BY <2>6 DEF SpawnThread, TypeOK
    <2>7. ASSUME NEW t \in Threads, CheckArguments(t) PROVE Inv'
      BY <2>7 DEF CheckArguments, TypeOK
    <2>8. ASSUME NEW t \in Threads, PopJob(t) PROVE Inv'
      <3>1. CASE Queue!PopWork(t) /\ Goto(t, "call") /\ UNCHANGED outcome
        <4>1. PICK u \in Threads :
                 /\ thread_works[u] < Runs
                 /\ thread_works' = [thread_works EXCEPT ![u] = @ + 1]
                 /\ job' = [job EXCEPT ![t] = <<u, thread_works[u] + 1>>]
                 /\ <<u, thread_works[u] + 1>> \in Jobs
          BY <3>1, QueueStep
        <4>2. thread_works[u] + 1 \in 0 .. Runs
          BY <4>1, RunnerAssumption DEF TypeOK
        <4>3. QED
          BY <2>8, <3>1, <4>1, <4>2 DEF PopJob, TypeOK
      <3>2. CASE Queue!PopNothing(t) /\ Return(t, TRUE)
        BY <2>8, <3>2 DEF PopJob, Queue!PopNothing, TypeOK
      <3>3. QED
        BY <2>8, <3>1, <3>2 DEF PopJob
    <2>9. ASSUME NEW t \in Threads, NextRun(t) PROVE Inv'
      <3>1. UNCHANGED <<parameters, main, thread_works, call, operations, returns, word, failures>>
        BY <2>9 DEF NextRun
      <3>2. CASE run[t] < Runs
        <4>1. /\ run' = [run EXCEPT ![t] = @ + 1]
              /\ job' = [job EXCEPT ![t] = <<t, run[t] + 1>>]
              /\ pc' = [pc EXCEPT ![t] = "call"]
              /\ UNCHANGED outcome
              /\ run[t] + 1 \in 0 .. Runs
              /\ <<t, run[t] + 1>> \in Jobs
          BY <2>9, <3>2, RunStep
        <4>2. /\ run' \in [Threads -> 0 .. Runs]
              /\ job' \in [Threads -> Jobs \cup {Queue!NoWork}]
          BY <4>1 DEF TypeOK
        <4>3. HasJob'
          BY <4>1 DEF TypeOK
        <4>4. QED
          BY <3>1, <4>1, <4>2, <4>3 DEF TypeOK
      <3>3. CASE ~(run[t] < Runs)
        BY <2>9, <3>1, <3>3, RunsOut DEF TypeOK
      <3>4. QED
        BY <3>2, <3>3
    <2>10. ASSUME NEW t \in Threads, StartResumableFails(t) \/ OpenFails(t) PROVE Inv'
      BY <2>10 DEF StartResumableFails, OpenFails, TypeOK
    <2>11. ASSUME NEW t \in Threads, Call(t) PROVE Inv'
      <3>1. failures' \in 0 .. MaxFailures
        BY <2>11, RunnerAssumption
           DEF Call, ReadObject, RandomReadObject, WriteObject,
               ClientReadObject, ClientRandomReadObject, ClientWriteObject, CallEnds,
               TypeOK
      <3>2. call' \in [Threads -> Calls]
        <4>1. CASE \E c \in Calls : CallEnds(t, c)
          BY <4>1 DEF CallEnds, TypeOK
        <4>2. CASE UNCHANGED call
          BY <4>2 DEF TypeOK
        <4>3. [ok |-> TRUE, intact |-> TRUE] \in Calls
          BY DEF Calls
        <4>4. QED
          BY <2>11, <4>1, <4>2, <4>3
             DEF Call, ReadObject, RandomReadObject, WriteObject,
                 ClientReadObject, ClientRandomReadObject, ClientWriteObject
      <3>3. QED
        BY <2>11, <3>1, <3>2
           DEF Call, ReadObject, RandomReadObject, WriteObject,
               ClientReadObject, ClientRandomReadObject, ClientWriteObject, CallEnds,
               TypeOK
    <2>12. ASSUME NEW t \in Threads, Notify(t) PROVE Inv'
      <3>1. [job |-> job[t], ok |-> call[t].ok, intact |-> call[t].intact] \in Operations
        BY <2>12 DEF Notify, NotifyCompleted, TypeOK, Calls, Operations
      <3>2. operations' \in Seq(Operations)
        BY <2>12, <3>1 DEF Notify, NotifyCompleted, TypeOK
      <3>3. QED
        BY <2>12, <3>2 DEF Notify, NotifyCompleted, TypeOK
    <2>13. ASSUME NEW t \in Threads, ExitProcess(t) PROVE Inv'
      BY <2>13 DEF ExitProcess, TypeOK
    <2>14. ASSUME NEW t \in Threads, LoadWord(t) PROVE Inv'
      BY <2>14 DEF LoadWord, TypeOK
    <2>15. ASSUME NEW t \in Threads, StoreWord(t) PROVE Inv'
      BY <2>15 DEF StoreWord, TypeOK
    <2>16. CASE UNCHANGED vars
      BY <2>16 DEF vars, TypeOK
    <2>17. QED
      BY <2>1, <2>2, <2>3, <2>4, <2>5, <2>6, <2>7, <2>8, <2>9, <2>10, <2>11,
         <2>12, <2>13, <2>14, <2>15, <2>16 DEF Next, Main, Worker, Spin, Gone
  <1>3. QED
    BY <1>1, <1>2, PTL DEF Spec

\* Every variable keeps to its type, in every action.
THEOREM TypeCorrect == Spec => []TypeOK
  BY TypesAndJobs, PTL

-----------------------------------------------------------------------------
(* The life of a job. *)

Succeeded(t) == Finished(t) /\ outcome[t]

OwnDone(t) == IF UsesQueue THEN ~Queue!HasWork(t) ELSE run[t] >= Runs

NothingToSteal ==
    UsesQueue /\ parameters.steal_work => \A u \in Threads : ~Queue!HasWork(u)

HeldIsFresh ==
    \A t \in Threads : Working(t) => Begun(job[t]) /\ job[t] \notin CompletedJobs

CompletedWasBegun == \A j \in Jobs : j \in CompletedJobs => Begun(j)

LeavesWhenDone == \A t \in Threads : Succeeded(t) => OwnDone(t) /\ NothingToSteal

JobInv ==
    /\ HeldIsFresh
    /\ CompletedWasBegun
    /\ LeavesWhenDone
    /\ JobsExclusive
    /\ OnceOnly
    /\ NoJobLost

\* Most steps begin and complete no job: a thread they stop working has failed,
\* and a thread they let leave has nothing left to do.
JobFrame ==
    /\ UNCHANGED <<parameters, thread_works, run, operations>>
    /\ \A t \in Threads :
          /\ Working(t)' => Working(t) /\ job'[t] = job[t]
          /\ Working(t) => Working(t)' \/ Failed(t)'
          /\ Failed(t) => Failed(t)'
          /\ Succeeded(t)' => Succeeded(t) \/ (OwnDone(t) /\ NothingToSteal)

\* A step that begins no job keeps the invariant of jobs.
LEMMA FrameKeepsJobInv ==
    ASSUME TypeOK, JobInv, JobFrame
    PROVE  JobInv'
  <1>1. /\ CompletedJobs' = CompletedJobs
        /\ OnceOnly'
    BY DEF JobFrame, JobInv, CompletedJobs, OnceOnly
  <1>2. \A j : Begun(j)' <=> Begun(j)
    BY DEF JobFrame, Begun, UsesQueue, Queue!HandedOut
  <1>3. \A t : OwnDone(t)' <=> OwnDone(t)
    BY DEF JobFrame, OwnDone, UsesQueue, Queue!HasWork
  <1>4. NothingToSteal' <=> NothingToSteal
    BY DEF JobFrame, NothingToSteal, UsesQueue, Queue!HasWork
  <1>5. HeldIsFresh'
    <2>1. ASSUME NEW t \in Threads, Working(t)'
          PROVE  Begun(job[t])' /\ job'[t] \notin CompletedJobs'
      <3>1. Working(t) /\ job'[t] = job[t]
        BY <2>1 DEF JobFrame
      <3>2. Begun(job[t]) /\ job[t] \notin CompletedJobs
        BY <3>1 DEF JobInv, HeldIsFresh
      <3>3. QED
        BY <1>1, <3>1, <3>2 DEF JobFrame, Begun, UsesQueue, Queue!HandedOut
    <2>2. QED
      BY <2>1 DEF HeldIsFresh
  <1>6. CompletedWasBegun'
    BY <1>1, <1>2 DEF JobInv, CompletedWasBegun
  <1>7. LeavesWhenDone'
    BY <1>3, <1>4 DEF JobFrame, JobInv, LeavesWhenDone
  <1>8. JobsExclusive'
    BY DEF JobFrame, JobInv, JobsExclusive, Holds, Working
  <1>9. NoJobLost'
    <2>1. ASSUME NEW j \in Jobs, Begun(j)'
          PROVE  \/ j \in CompletedJobs'
                 \/ \E t \in Threads : Holds(t, j)'
                 \/ \E t \in Threads : Failed(t)'
      <3>1. \/ j \in CompletedJobs
            \/ \E t \in Threads : Holds(t, j)
            \/ \E t \in Threads : Failed(t)
        BY <1>2, <2>1 DEF JobInv, NoJobLost
      <3>2. \A t \in Threads : Holds(t, j) => Holds(t, j)' \/ Failed(t)'
        BY DEF JobFrame, Holds, Working
      <3>3. QED
        BY <1>1, <3>1, <3>2 DEF JobFrame
    <2>2. QED
      BY <2>1 DEF NoJobLost
  <1>10. QED
    BY <1>1, <1>5, <1>6, <1>7, <1>8, <1>9 DEF JobInv

\* A thread begins a job nobody began before.
JobBegins(t) ==
    /\ UNCHANGED <<parameters, operations, outcome>>
    /\ ~Working(t) /\ ~Finished(t)
    /\ pc' = [pc EXCEPT ![t] = "call"]
    /\ \A u \in Threads : u # t => job'[u] = job[u]
    /\ job'[t] \in Jobs /\ ~Begun(job'[t])
    /\ \A j \in Jobs : Begun(j)' <=> Begun(j) \/ j = job'[t]
    /\ \A u \in Threads : OwnDone(u) => OwnDone(u)'
    /\ NothingToSteal => NothingToSteal'

\* So does one that begins a job, since the queue gives out new ones only.
LEMMA BeginKeepsJobInv ==
    ASSUME TypeOK, HasJob, HasJob', JobInv, NEW t \in Threads, JobBegins(t)
    PROVE  JobInv'
  <1>1. /\ CompletedJobs' = CompletedJobs
        /\ OnceOnly'
    BY DEF JobBegins, JobInv, CompletedJobs, OnceOnly
  <1>2. ASSUME NEW u \in Threads, u # t
        PROVE  /\ pc'[u] = pc[u] /\ job'[u] = job[u]
               /\ Working(u)' <=> Working(u)
               /\ Succeeded(u)' <=> Succeeded(u)
               /\ Failed(u)' <=> Failed(u)
    BY <1>2 DEF JobBegins, Working, Succeeded, Failed, Finished, TypeOK
  <1>3. Working(t)' /\ ~Finished(t)'
    BY DEF JobBegins, Working, Finished, TypeOK
  <1>4. ASSUME NEW u \in Threads, u # t, Working(u)
        PROVE  /\ job[u] \in Jobs /\ Begun(job[u]) /\ job[u] \notin CompletedJobs
               /\ job[u] # job'[t]
    BY <1>4 DEF JobInv, HeldIsFresh, JobBegins, HasJob
  <1>5. job'[t] \notin CompletedJobs
    BY DEF JobInv, CompletedWasBegun, JobBegins
  <1>6. HeldIsFresh'
    <2>1. ASSUME NEW u \in Threads, Working(u)', NEW j \in Jobs, j = job'[u]
          PROVE  Begun(j)' /\ j \notin CompletedJobs'
      BY <1>1, <1>2, <1>4, <1>5, <2>1 DEF JobBegins
    <2>2. ASSUME NEW u \in Threads, Working(u)'
          PROVE  (Begun(job[u]))' /\ job'[u] \notin CompletedJobs'
      <3>1. job'[u] \in Jobs
        BY <2>2 DEF HasJob
      <3>2. PICK j \in Jobs : j = job'[u]
        BY <3>1
      <3>3. Begun(j)' /\ j \notin CompletedJobs'
        BY <2>1, <2>2, <3>2
      <3>4. QED
        BY <3>2, <3>3 DEF Begun, Queue!HandedOut
    <2>3. QED
      BY <2>2 DEF HeldIsFresh
  <1>7. CompletedWasBegun'
    BY <1>1 DEF JobInv, CompletedWasBegun, JobBegins
  <1>8. LeavesWhenDone'
    BY <1>2, <1>3 DEF JobInv, LeavesWhenDone, JobBegins, Succeeded
  <1>9. JobsExclusive'
    BY <1>2, <1>4 DEF JobInv, JobsExclusive, Holds, Working
  <1>10. NoJobLost'
    <2>1. ASSUME NEW j \in Jobs, Begun(j)'
          PROVE  \/ j \in CompletedJobs'
                 \/ \E u \in Threads : Holds(u, j)'
                 \/ \E u \in Threads : Failed(u)'
      <3>1. CASE j = job'[t]
        BY <1>3, <3>1 DEF Holds, Working
      <3>2. CASE Begun(j)
        <4>1. \/ j \in CompletedJobs
              \/ \E u \in Threads : Holds(u, j)
              \/ \E u \in Threads : Failed(u)
          BY <3>2 DEF JobInv, NoJobLost
        <4>2. \A u \in Threads : Holds(u, j) => Holds(u, j)'
          BY <1>2 DEF Holds, JobBegins, Working
        <4>3. \A u \in Threads : Failed(u) => Failed(u)'
          BY <1>2 DEF JobBegins, Failed
        <4>4. QED
          BY <1>1, <4>1, <4>2, <4>3
      <3>3. QED
        BY <2>1, <3>1, <3>2 DEF JobBegins
    <2>2. QED
      BY <2>1 DEF NoJobLost
  <1>11. QED
    BY <1>1, <1>6, <1>7, <1>8, <1>9, <1>10 DEF JobInv

\* What NotifyCompleted appends.
LEMMA Recorded ==
    ASSUME TypeOK, NEW t \in Threads, Notify(t)
    PROVE  /\ DOMAIN operations = 1 .. Len(operations)
           /\ DOMAIN operations' = 1 .. Len(operations) + 1
           /\ Len(operations') = Len(operations) + 1
           /\ Len(operations) \in Nat
           /\ \A i \in 1 .. Len(operations) : operations'[i] = operations[i]
           /\ operations'[Len(operations) + 1].job = job[t]
           /\ operations'[Len(operations) + 1].ok = call[t].ok
  <1> DEFINE op == [job |-> job[t], ok |-> call[t].ok, intact |-> call[t].intact]
  <1>1. operations' = Append(operations, op)
    BY DEF Notify, NotifyCompleted
  <1>2. operations \in Seq(Operations)
    BY DEF TypeOK
  <1>3. QED
    BY <1>1, <1>2

\* Recording a call leaves the thread working, moves it on after a success, or
\* makes it fail.
LEMMA NotifyKeepsJobInv ==
    ASSUME TypeOK, HasJob, JobInv, NEW t \in Threads, Notify(t)
    PROVE  JobInv'
  <1> DEFINE last == Len(operations) + 1
  <1>1. /\ UNCHANGED <<parameters, thread_works, run, job>>
        /\ Working(t) /\ ~Finished(t)
    BY DEF Notify, NotifyCompleted, queueVars, Working, Finished
  <1>2. ASSUME NEW u \in Threads, u # t
        PROVE  /\ pc'[u] = pc[u]
               /\ Working(u)' <=> Working(u)
               /\ Succeeded(u)' <=> Succeeded(u)
               /\ Failed(u)' <=> Failed(u)
    BY <1>2 DEF Notify, NotifyCompleted, Goto, Return, Working, Succeeded, Failed,
       Finished, TypeOK
  <1>3. \/ Working(t)' /\ ~call[t].ok /\ ~Finished(t)'
        \/ ~Working(t)' /\ call[t].ok /\ ~Finished(t)'
        \/ ~Working(t)' /\ ~call[t].ok /\ Failed(t)'
    BY DEF Notify, NotifyCompleted, Goto, Return, Working, Failed, Finished, TypeOK
  <1>4. CompletedJobs' = IF call[t].ok THEN CompletedJobs \cup {job[t]} ELSE CompletedJobs
    BY Recorded DEF CompletedJobs
  <1>5. \A j : Begun(j)' <=> Begun(j)
    BY <1>1 DEF Begun, UsesQueue, Queue!HandedOut
  <1>6. \A u : OwnDone(u)' <=> OwnDone(u)
    BY <1>1 DEF OwnDone, UsesQueue, Queue!HasWork
  <1>7. NothingToSteal' <=> NothingToSteal
    BY <1>1 DEF NothingToSteal, UsesQueue, Queue!HasWork
  <1>8. job[t] \in Jobs /\ Begun(job[t]) /\ job[t] \notin CompletedJobs
    BY <1>1 DEF HasJob, JobInv, HeldIsFresh
  <1>9. ASSUME NEW u \in Threads, Working(u), u # t PROVE job[u] # job[t]
    BY <1>1, <1>8, <1>9 DEF JobInv, JobsExclusive, Holds, Working
  <1>10. HeldIsFresh'
    <2>1. ASSUME NEW u \in Threads, Working(u)'
          PROVE  Begun(job[u]) /\ job[u] \notin CompletedJobs'
      BY <1>2, <1>3, <1>4, <1>8, <1>9, <2>1 DEF JobInv, HeldIsFresh
    <2>2. ASSUME NEW u \in Threads PROVE (Begun(job[u]))' <=> Begun(job[u])
      BY <1>1 DEF Begun, UsesQueue, Queue!HandedOut
    <2>3. QED
      BY <1>1, <2>1, <2>2 DEF HeldIsFresh
  <1>11. CompletedWasBegun'
    BY <1>4, <1>5, <1>8 DEF JobInv, CompletedWasBegun
  <1>12. LeavesWhenDone'
    <2>1. ~Succeeded(t)'
      BY <1>3 DEF Succeeded, Failed
    <2>2. QED
      BY <1>2, <1>6, <1>7, <2>1 DEF JobInv, LeavesWhenDone
  <1>13. JobsExclusive'
    BY <1>1, <1>2 DEF JobInv, JobsExclusive, Holds, Working
  <1>14. OnceOnly'
    <2>1. ASSUME NEW i \in 1 .. Len(operations), operations[i].ok
          PROVE  operations[i].job # job[t]
      BY <1>8, <2>1, Recorded DEF CompletedJobs
    <2>2. ASSUME NEW i \in 1 .. last, NEW k \in 1 .. last,
                 operations'[i].ok, operations'[k].ok,
                 operations'[i].job = operations'[k].job
          PROVE  i = k
      <3>1. CASE i # last /\ k # last
        BY <2>2, <3>1, Recorded DEF JobInv, OnceOnly
      <3>2. CASE i = last \/ k = last
        BY <2>1, <2>2, <3>2, Recorded
      <3>3. QED
        BY <3>1, <3>2
    <2>3. QED
      BY <2>2, Recorded DEF OnceOnly
  <1>15. NoJobLost'
    <2>1. ASSUME NEW j \in Jobs, Begun(j)
          PROVE  \/ j \in CompletedJobs'
                 \/ \E u \in Threads : Holds(u, j)'
                 \/ \E u \in Threads : Failed(u)'
      <3>1. \/ j \in CompletedJobs
            \/ \E u \in Threads : Holds(u, j)
            \/ \E u \in Threads : Failed(u)
        BY <2>1 DEF JobInv, NoJobLost
      <3>2. CASE j \in CompletedJobs
        BY <1>4, <3>2
      <3>3. ASSUME NEW u \in Threads, Holds(u, j)
            PROVE  j \in CompletedJobs' \/ Holds(u, j)' \/ Failed(u)'
        BY <1>1, <1>2, <1>3, <1>4, <3>3 DEF Holds, Working
      <3>4. ASSUME NEW u \in Threads, Failed(u) PROVE Failed(u)'
        BY <1>1, <1>2, <3>4 DEF Failed
      <3>5. QED
        BY <3>1, <3>2, <3>3, <3>4
    <2>2. QED
      BY <1>5, <2>1 DEF NoJobLost
  <1>16. QED
    BY <1>10, <1>11, <1>12, <1>13, <1>14, <1>15 DEF JobInv

\* Taking a job, from the queue or from the random-read loop.
LEMMA TakingKeepsJobInv ==
    ASSUME TypeOK, HasJob, HasJob', JobInv, NEW t \in Threads,
           PopJob(t) \/ NextRun(t)
    PROVE  JobInv'
  <1> USE DEF UsesQueue
  <1>1. CASE PopJob(t) /\ Queue!PopWork(t) /\ Goto(t, "call") /\ UNCHANGED outcome
    <2>1. PICK u \in Threads :
             /\ thread_works[u] < Runs
             /\ thread_works' = [thread_works EXCEPT ![u] = @ + 1]
             /\ job' = [job EXCEPT ![t] = <<u, thread_works[u] + 1>>]
             /\ <<u, thread_works[u] + 1>> \in Jobs
      BY <1>1, QueueStep
    <2>2. ASSUME NEW j \in Jobs
          PROVE  Queue!HandedOut(j)' <=> Queue!HandedOut(j) \/ j = job'[t]
      <3>1. PICK a \in Threads, b \in 1 .. Runs : j = <<a, b>>
        BY DEF Jobs
      <3>2. b <= thread_works'[a] <=> b <= thread_works[a] \/ (a = u /\ b = thread_works[u] + 1)
        BY <2>1, <3>1 DEF TypeOK
      <3>3. QED
        BY <2>1, <3>1, <3>2 DEF Queue!HandedOut, TypeOK
    <2>3. ~Queue!HandedOut(job'[t])
      BY <2>1 DEF Queue!HandedOut, TypeOK
    <2>4. \A v \in Threads : ~Queue!HasWork(v) => ~Queue!HasWork(v)'
      BY <2>1 DEF Queue!HasWork, TypeOK
    <2>5. UNCHANGED <<parameters, operations, outcome, run>> /\ UsesQueue
      BY <1>1 DEF PopJob
    <2>6. NothingToSteal => NothingToSteal'
      BY <2>4, <2>5 DEF NothingToSteal
    <2>7. JobBegins(t)
      BY <1>1, <2>1, <2>2, <2>3, <2>4, <2>5, <2>6
         DEF JobBegins, PopJob, Goto, Working, Finished, Begun, OwnDone, TypeOK
    <2>8. QED
      BY <2>7, BeginKeepsJobInv
  <1>2. CASE PopJob(t) /\ Queue!PopNothing(t) /\ Return(t, TRUE)
    <2>1. OwnDone(t) /\ NothingToSteal
      BY <1>2 DEF PopJob, Queue!PopNothing, OwnDone, NothingToSteal,
                  Queue!ThreadIds, Threads
    <2>2. UNCHANGED <<parameters, thread_works, run, operations>>
      BY <1>2 DEF PopJob, Queue!PopNothing
    <2>3. JobFrame
      BY <1>2, <2>1, <2>2 DEF JobFrame, PopJob, Queue!PopNothing, Return, Goto,
         Working, Finished, Failed, Succeeded, TypeOK
    <2>4. QED
      BY <2>3, FrameKeepsJobInv
  <1>3. CASE NextRun(t) /\ run[t] < Runs
    <2>1. /\ run' = [run EXCEPT ![t] = @ + 1]
          /\ job' = [job EXCEPT ![t] = <<t, run[t] + 1>>]
          /\ pc' = [pc EXCEPT ![t] = "call"]
          /\ UNCHANGED outcome
          /\ run[t] + 1 \in 0 .. Runs
          /\ <<t, run[t] + 1>> \in Jobs
      BY <1>3, RunStep
    <2>2. UNCHANGED <<parameters, operations, thread_works>> /\ ~UsesQueue /\ pc[t] = "next"
      BY <1>3 DEF NextRun
    <2>3. ASSUME NEW j \in Jobs PROVE Begun(j)' <=> Begun(j) \/ j = job'[t]
      <3>1. PICK a \in Threads, b \in 1 .. Runs : j = <<a, b>>
        BY DEF Jobs
      <3>2. b <= run'[a] <=> b <= run[a] \/ (a = t /\ b = run[t] + 1)
        BY <2>1, <3>1 DEF TypeOK
      <3>3. job'[t] = <<t, run[t] + 1>>
        BY <2>1 DEF TypeOK
      <3>4. QED
        BY <2>2, <3>1, <3>2, <3>3 DEF Begun
    <2>4. ~Begun(job'[t])
      BY <2>1, <2>2 DEF Begun, TypeOK
    <2>5. \A u \in Threads : OwnDone(u) => OwnDone(u)'
      BY <2>1, <2>2, RunnerAssumption DEF OwnDone, TypeOK
    <2>6. NothingToSteal'
      BY <2>2 DEF NothingToSteal
    <2>7. JobBegins(t)
      BY <2>1, <2>2, <2>3, <2>4, <2>5, <2>6 DEF JobBegins, Working, Finished, TypeOK
    <2>8. QED
      BY <2>7, BeginKeepsJobInv
  <1>4. CASE NextRun(t) /\ ~(run[t] < Runs)
    <2>1. Return(t, TRUE) /\ UNCHANGED <<run, job>>
      BY <1>4, RunsOut
    <2>2. /\ UNCHANGED <<parameters, thread_works, operations>>
          /\ ~UsesQueue /\ pc[t] = "next"
      BY <1>4 DEF NextRun
    <2>3. OwnDone(t) /\ NothingToSteal
      BY <1>4, <2>2, RunnerAssumption DEF OwnDone, NothingToSteal, TypeOK
    <2>4. JobFrame
      BY <2>1, <2>2, <2>3 DEF JobFrame, Return, Goto,
         Working, Finished, Failed, Succeeded, TypeOK
    <2>5. QED
      BY <2>4, FrameKeepsJobInv
  <1>5. QED
    BY <1>1, <1>2, <1>3, <1>4 DEF PopJob

\* Every step keeps the invariant about jobs.
LEMMA NextKeepsJobInv ==
    ASSUME TypeOK, HasJob, HasJob', JobInv, [Next]_vars
    PROVE  JobInv'
  <1> USE DEF queueVars, resultVars, JobFrame, Working, Finished, Failed, Succeeded
  <1>1. CASE RejectFlags \/ RunDiagnostic \/ RejectPolicy \/ StartRun \/ JoinThreads \/ Report
    <2>1. UNCHANGED <<parameters, thread_works, run, job, operations, pc, outcome>>
      BY <1>1 DEF RejectFlags, RunDiagnostic, RejectPolicy, StartRun, JoinThreads, Report
    <2>2. QED
      BY <2>1, FrameKeepsJobInv
  <1>2. ASSUME NEW t \in Threads, SpawnThread(t) PROVE JobInv'
    <2>1. JobFrame
      BY <1>2 DEF SpawnThread, TypeOK
    <2>2. QED
      BY <2>1, FrameKeepsJobInv
  <1>3. ASSUME NEW t \in Threads, CheckArguments(t) PROVE JobInv'
    <2>1. JobFrame
      BY <1>3 DEF CheckArguments, Return, Goto, TypeOK
    <2>2. QED
      BY <2>1, FrameKeepsJobInv
  <1>4. ASSUME NEW t \in Threads, PopJob(t) \/ NextRun(t) PROVE JobInv'
    BY <1>4, TakingKeepsJobInv
  <1>5. ASSUME NEW t \in Threads, StartResumableFails(t) \/ OpenFails(t) PROVE JobInv'
    <2>1. JobFrame
      BY <1>5 DEF StartResumableFails, OpenFails, Return, Goto, TypeOK
    <2>2. QED
      BY <2>1, FrameKeepsJobInv
  <1>6. ASSUME NEW t \in Threads, Call(t) PROVE JobInv'
    <2>1. JobFrame
      BY <1>6 DEF Call, ReadObject, RandomReadObject, WriteObject,
                  ClientReadObject, ClientRandomReadObject, ClientWriteObject,
                  CallEnds, Goto, TypeOK
    <2>2. QED
      BY <2>1, FrameKeepsJobInv
  <1>7. ASSUME NEW t \in Threads, Notify(t) PROVE JobInv'
    BY <1>7, NotifyKeepsJobInv
  <1>8. ASSUME NEW t \in Threads, ExitProcess(t) PROVE JobInv'
    <2>1. JobFrame
      BY <1>8 DEF ExitProcess
    <2>2. QED
      BY <2>1, FrameKeepsJobInv
  <1>9. ASSUME NEW t \in Threads, LoadWord(t) PROVE JobInv'
    <2>1. JobFrame
      BY <1>9 DEF LoadWord, Goto, TypeOK
    <2>2. QED
      BY <2>1, FrameKeepsJobInv
  <1>10. ASSUME NEW t \in Threads, StoreWord(t) PROVE JobInv'
    <2>1. JobFrame
      BY <1>10 DEF StoreWord, Goto, TypeOK
    <2>2. QED
      BY <2>1, FrameKeepsJobInv
  <1>11. CASE UNCHANGED vars
    <2>1. JobFrame
      BY <1>11 DEF vars
    <2>2. QED
      BY <2>1, FrameKeepsJobInv
  <1>12. QED
    BY <1>1, <1>2, <1>3, <1>4, <1>5, <1>6, <1>7, <1>8, <1>9, <1>10, <1>11
       DEF Next, Main, Worker, Spin, Gone

\* At the start no job was begun.
LEMMA InitJobInv == Init => JobInv
  <1> SUFFICES ASSUME Init PROVE JobInv
    OBVIOUS
  <1>1. DOMAIN operations = {} /\ CompletedJobs = {}
    BY DEF Init, CompletedJobs
  <1>2. \A t \in Threads : pc[t] = "unborn"
    BY DEF Init
  <1>3. \A j \in Jobs : ~Begun(j)
    BY RunnerAssumption DEF Init, Begun, Queue!HandedOut, Jobs
  <1>4. QED
    BY <1>1, <1>2, <1>3 DEF JobInv, HeldIsFresh, CompletedWasBegun, LeavesWhenDone,
       JobsExclusive, OnceOnly, NoJobLost, Holds, Working, Succeeded, Finished

\* Types and the invariant of jobs hold in every state.
LEMMA JobInvariant == Spec => []JobInv
  BY InitJobInv, NextKeepsJobInv, TypesAndJobs, PTL DEF Spec

\* No two threads work on the same job.
THEOREM JobsAreExclusive == Spec => []JobsExclusive
  BY JobInvariant, PTL DEF JobInv

\* No job succeeds twice.
THEOREM JobsCompleteOnce == Spec => []OnceOnly
  BY JobInvariant, PTL DEF JobInv

\* No job is dropped.
THEOREM JobsAreNotLost == Spec => []NoJobLost
  BY JobInvariant, PTL DEF JobInv

\* With stealing, no thread leaves while there is work.
THEOREM StealingIsComplete == Spec => []StealComplete
  <1>1. JobInv => StealComplete
    BY DEF JobInv, LeavesWhenDone, StealComplete, Succeeded, NothingToSteal
  <1>2. QED
    BY <1>1, JobInvariant, PTL

-----------------------------------------------------------------------------
(* The verdict. *)

\* A bit that is set, in returns or in a word a thread has loaded, is the bit
\* of a thread that is done and succeeded: the race only ever clears bits.
BitsAreTrue ==
    \A t, u \in Threads :
        returns[t] \/ word[u][t] => pc[t] = "done" /\ outcome[t]

SuccessIsUnanimous ==
    main \in {"report", "succeeded"} => \A t \in Threads : returns[t]

\* The last operation recorded succeeded, unless a thread still works or failed.
LastSucceeded ==
    Len(operations) > 0 /\ ~operations[Len(operations)].ok =>
        \E t \in Threads : Working(t) \/ Failed(t)

ResultInv == BitsAreTrue /\ SuccessIsUnanimous /\ LastSucceeded

\* Steps of a thread that is not done yet, and that leave the results alone.
LEMMA UndoneKeepsBits ==
    ASSUME TypeOK, BitsAreTrue, SuccessIsUnanimous, NEW t \in Threads,
           main = "running", pc[t] # "done",
           UNCHANGED returns,
           word' = word \/ word' = [word EXCEPT ![t] = returns],
           \A u \in Threads : u # t => pc'[u] = pc[u] /\ outcome'[u] = outcome[u],
           main' \notin {"report", "succeeded"}
    PROVE  (BitsAreTrue /\ SuccessIsUnanimous)'
  <1>1. \A u \in Threads : word'[u] = word[u] \/ word'[u] = returns
    BY DEF TypeOK
  <1>2. \A u, v \in Threads : returns'[v] \/ word'[u][v] => v # t
    BY <1>1 DEF BitsAreTrue
  <1>3. QED
    BY <1>1, <1>2 DEF BitsAreTrue, SuccessIsUnanimous

\* Every step keeps set bits true, the racing stores included.
LEMMA NextKeepsResultInv ==
    ASSUME TypeOK, TypeOK', ResultInv, [Next]_vars
    PROVE  ResultInv'
  <1> USE DEF queueVars, resultVars
  <1>1. CASE RejectFlags \/ RunDiagnostic \/ RejectPolicy \/ StartRun \/ JoinThreads \/ Report
    <2>1. UNCHANGED <<returns, word, outcome, pc, operations>>
      BY <1>1 DEF RejectFlags, RunDiagnostic, RejectPolicy, StartRun, JoinThreads, Report
    <2>2. SuccessIsUnanimous'
      BY <1>1, <2>1 DEF ResultInv, SuccessIsUnanimous,
         RejectFlags, RunDiagnostic, RejectPolicy, StartRun, JoinThreads, Report
    <2>3. QED
      BY <2>1, <2>2 DEF ResultInv, BitsAreTrue, LastSucceeded, Working, Failed, Finished
  <1>2. ASSUME NEW t \in Threads,
               SpawnThread(t) \/ CheckArguments(t) \/ PopJob(t) \/ NextRun(t)
               \/ StartResumableFails(t) \/ OpenFails(t) \/ Call(t) \/ ExitProcess(t) \/ LoadWord(t)
        PROVE  ResultInv'
    <2>1. /\ main = "running" /\ pc[t] # "done"
          /\ UNCHANGED <<returns, operations>>
          /\ word' = word \/ word' = [word EXCEPT ![t] = returns]
          /\ main' \notin {"report", "succeeded"}
      BY <1>2 DEF SpawnThread, CheckArguments, PopJob, NextRun,
         StartResumableFails, OpenFails, Call, ReadObject, RandomReadObject, WriteObject,
         ClientReadObject, ClientRandomReadObject, ClientWriteObject,
         CallEnds, ExitProcess, LoadWord
    <2>2. /\ \A u \in Threads : u # t => pc'[u] = pc[u] /\ outcome'[u] = outcome[u]
          /\ Working(t) => Working(t)' \/ Failed(t)'
          /\ Failed(t) => Failed(t)'
      <3> USE DEF Return, Goto, Working, Failed, Finished, TypeOK
      <3>1. CASE SpawnThread(t) \/ CheckArguments(t) \/ ExitProcess(t) \/ LoadWord(t)
        BY <3>1 DEF SpawnThread, CheckArguments, ExitProcess, LoadWord
      <3>2. CASE PopJob(t) \/ NextRun(t)
        BY <3>2 DEF PopJob, NextRun
      <3>3. CASE StartResumableFails(t) \/ OpenFails(t)
        BY <3>3 DEF StartResumableFails, OpenFails
      <3>4. CASE Call(t)
        <4>1. /\ pc[t] = "call" /\ UNCHANGED outcome
              /\ \E label \in {"notify", "spinning"} : pc' = [pc EXCEPT ![t] = label]
          BY <3>4 DEF Call, ReadObject, RandomReadObject, WriteObject, ClientReadObject,
             ClientRandomReadObject, ClientWriteObject, CallEnds
        <4>2. QED
          BY <4>1
      <3>5. QED
        BY <1>2, <3>1, <3>2, <3>3, <3>4
    <2>3. (BitsAreTrue /\ SuccessIsUnanimous)'
      BY <2>1, <2>2, UndoneKeepsBits DEF ResultInv
    <2>4. LastSucceeded'
      <3>1. ASSUME NEW u \in Threads, Working(u) \/ Failed(u)
            PROVE  (Working(u) \/ Failed(u))'
        BY <2>2, <3>1 DEF Working, Failed, Finished
      <3>2. QED
        BY <2>1, <3>1 DEF ResultInv, LastSucceeded
    <2>5. QED
      BY <2>3, <2>4 DEF ResultInv
  <1>3. ASSUME NEW t \in Threads, Notify(t) PROVE ResultInv'
    <2>1. /\ main = "running" /\ pc[t] = "notify"
          /\ UNCHANGED <<returns, word, main>>
      BY <1>3 DEF Notify, NotifyCompleted
    <2>2. /\ \A u \in Threads : u # t => pc'[u] = pc[u] /\ outcome'[u] = outcome[u]
          /\ ~call[t].ok => Working(t)' \/ Failed(t)'
      BY <1>3 DEF Notify, NotifyCompleted, Return, Goto, Working, Failed, Finished, TypeOK
    <2>3. (BitsAreTrue /\ SuccessIsUnanimous)'
      BY <2>1, <2>2, UndoneKeepsBits DEF ResultInv
    <2>4. operations'[Len(operations')].ok = call[t].ok
      BY <1>3, Recorded
    <2>5. QED
      BY <2>2, <2>3, <2>4 DEF ResultInv, LastSucceeded
  <1>4. ASSUME NEW t \in Threads, StoreWord(t) PROVE ResultInv'
    <2>1. /\ main = "running" /\ pc[t] = "store" /\ pc' = [pc EXCEPT ![t] = "done"]
          /\ UNCHANGED <<main, outcome, word, operations>>
      BY <1>4 DEF StoreWord, Goto
    <2>2. \A u \in Threads :
             returns'[u] => (u = t /\ outcome[t]) \/ (u # t /\ (word[t][u] \/ returns[u]))
      BY <1>4 DEF StoreWord
    <2>3. BitsAreTrue'
      BY <2>1, <2>2 DEF ResultInv, BitsAreTrue, TypeOK
    <2>4. \A u \in Threads : Working(u) \/ Failed(u) => (Working(u) \/ Failed(u))'
      BY <2>1 DEF Working, Failed, Finished, TypeOK
    <2>5. QED
      BY <2>1, <2>3, <2>4 DEF ResultInv, SuccessIsUnanimous, LastSucceeded
  <1>5. CASE UNCHANGED vars
    BY <1>5 DEF vars, ResultInv, BitsAreTrue, SuccessIsUnanimous, LastSucceeded,
       Working, Failed, Finished
  <1>6. QED
    BY <1>1, <1>2, <1>3, <1>4, <1>5 DEF Next, Main, Worker, Spin, Gone

\* The invariant of results holds in every state.
LEMMA ResultInvariant == Spec => []ResultInv
  <1>1. Init => ResultInv
    BY DEF Init, ResultInv, BitsAreTrue, SuccessIsUnanimous, LastSucceeded
  <1>2. QED
    BY <1>1, NextKeepsResultInv, TypeCorrect, PTL DEF Spec

\* The run reports success only if every thread succeeded, whatever the race on
\* the result bits does.
THEOREM SuccessIsReal == Spec => []NoFalseSuccess
  <1>1. ResultInv => NoFalseSuccess
    BY DEF ResultInv, BitsAreTrue, SuccessIsUnanimous, NoFalseSuccess, Finished
  <1>2. QED
    BY <1>1, ResultInvariant, PTL

\* A report with any operation in it has a successful one: the percentiles of
\* the peers are never taken of an empty list.
THEOREM ReportsHaveSuccess == Spec => []ReportHasSuccess
  <1>1. TypeOK /\ ResultInv => ReportHasSuccess
    <2> SUFFICES ASSUME TypeOK, ResultInv, main = "report", NonWarmups # << >>
                 PROVE  \E i \in DOMAIN NonWarmups : NonWarmups[i].ok
      BY DEF ReportHasSuccess
    <2> DEFINE first == parameters.warmups * ThreadCount + 1
    <2>1. \A t \in Threads : ~Working(t) /\ ~Failed(t)
      BY DEF ResultInv, BitsAreTrue, SuccessIsUnanimous, Working, Failed, Finished
    <2>2. first \in Nat
      <3>1. parameters.warmups \in Nat /\ ThreadCount \in Nat
        BY RunnerAssumption DEF TypeOK, ParameterRecords
      <3>2. QED
        BY <3>1
    <2>3. operations \in Seq(Operations) /\ Len(operations) \in Nat
      BY DEF TypeOK
    <2>4. first <= Len(operations)
      BY <2>2, <2>3 DEF NonWarmups
    <2>5. first >= 1
      <3>1. parameters.warmups \in Nat /\ ThreadCount \in Nat
        BY RunnerAssumption DEF TypeOK, ParameterRecords
      <3>2. parameters.warmups * ThreadCount \in Nat
        BY <3>1
      <3>3. QED
        BY <3>2
    <2> HIDE DEF first
    <2>6. operations[Len(operations)].ok
      <3>1. Len(operations) > 0
        BY <2>2, <2>3, <2>4, <2>5
      <3>2. QED
        BY <2>1, <3>1, Zenon DEF ResultInv, LastSucceeded
    <2> DEFINE n == Len(operations) - first + 1
    <2>7. n \in DOMAIN NonWarmups /\ NonWarmups[n] = operations[Len(operations)]
      <3>1. NonWarmups = SubSeq(operations, first, Len(operations))
        BY DEF NonWarmups, first
      <3>2. /\ Len(NonWarmups) = n
            /\ \A i \in 1 .. n : NonWarmups[i] = operations[first + i - 1]
        BY <2>2, <2>3, <2>4, <2>5, <3>1
      <3>3. DOMAIN NonWarmups = 1 .. n
        BY <2>2, <2>3, <2>4, <2>5, <3>1
      <3>4. n \in 1 .. n /\ first + n - 1 = Len(operations)
        BY <2>2, <2>3, <2>4
      <3>5. QED
        BY <3>2, <3>3, <3>4
    <2>8. QED
      BY <2>6, <2>7
  <1>2. QED
    BY <1>1, ResultInvariant, TypeCorrect, PTL

\* The run implements the promise of module Benchmark: jobs complete one by
\* one, and success means that all of them did.
THEOREM RunKeepsPromise == Spec => PromiseSpec
  <1>1. Init => Promise!Init
    BY DEF Init, Promise!Init, CompletedJobs, Verdict
  <1>2. TypeOK /\ HasJob /\ JobInv /\ ResultInv /\ ResultInv' /\ [Next]_vars
        => [Promise!Next]_(Promise!vars)
    <2> SUFFICES ASSUME TypeOK, HasJob, JobInv, ResultInv, ResultInv', [Next]_vars
                 PROVE  [Promise!Next]_(Promise!vars)
      OBVIOUS
    <2> USE DEF queueVars, resultVars
    <2>1. CASE main' = main /\ operations' = operations
      BY <2>1 DEF Promise!vars, CompletedJobs, Verdict
    <2>2. CASE main' # main /\ operations' = operations
      <3>1. CompletedJobs' = CompletedJobs
        BY <2>2 DEF CompletedJobs
      <3>2. CASE main = "running" /\ main' = "report"
        <4>1. ASSUME NEW j \in Jobs PROVE j \in CompletedJobs
          <5>1. \A t \in Threads : pc'[t] = "done" /\ outcome'[t]
            BY <3>2 DEF ResultInv, BitsAreTrue, SuccessIsUnanimous
          <5>2. UNCHANGED <<pc, outcome, parameters, thread_works, run>>
            BY <2>2, <3>2 DEF Next, Main, Worker, Spin, Gone, JoinThreads,
               RejectFlags, RunDiagnostic,
               RejectPolicy, StartRun, Report, SpawnThread, CheckArguments, PopJob,
               NextRun, StartResumableFails, OpenFails, Call, ReadObject,
               RandomReadObject, WriteObject,
               ClientReadObject, ClientRandomReadObject, ClientWriteObject,
               CallEnds, Notify, NotifyCompleted, ExitProcess, LoadWord,
               StoreWord, vars
          <5>3. \A t \in Threads : Succeeded(t) /\ ~Working(t) /\ ~Failed(t)
            BY <5>1, <5>2 DEF Succeeded, Failed, Finished, Working
          <5>4. PICK t \in Threads, k \in 1 .. Runs : j = <<t, k>>
            BY DEF Jobs
          <5>5. OwnDone(t)
            BY <5>3 DEF JobInv, LeavesWhenDone
          <5>6. Begun(j)
            BY <5>4, <5>5, RunnerAssumption DEF OwnDone, Begun, Queue!HasWork,
               Queue!HandedOut, TypeOK
          <5>7. QED
            BY <5>3, <5>6 DEF JobInv, NoJobLost, Holds, Working
        <4>2. CompletedJobs \subseteq Jobs
          <5>1. \A i \in DOMAIN operations : operations[i] \in Operations
            BY DEF TypeOK
          <5>2. QED
            BY <5>1 DEF CompletedJobs, Operations
        <4>3. QED
          BY <3>1, <3>2, <4>1, <4>2 DEF Promise!Next, Promise!Succeed, Verdict
      <3>3. CASE main = "report" /\ main' = "succeeded"
        BY <3>1, <3>3 DEF Promise!vars, Verdict
      <3>4. CASE main \in {"start", "running"} /\ main' \in {"failed", "exited"}
        BY <3>1, <3>4 DEF Promise!Next, Promise!Fail, Verdict
      <3>5. CASE main = "start" /\ main' = "running"
        BY <3>1, <3>5 DEF Promise!vars, Verdict
      <3>6. QED
        BY <2>2, <3>2, <3>3, <3>4, <3>5 DEF Next, Main, Worker, Spin, Gone, JoinThreads,
           RejectFlags, RunDiagnostic, RejectPolicy, StartRun, Report, SpawnThread,
           CheckArguments,
           PopJob, NextRun, StartResumableFails, OpenFails, Call, ReadObject,
           RandomReadObject, WriteObject,
           ClientReadObject, ClientRandomReadObject, ClientWriteObject,
           CallEnds, Notify, NotifyCompleted, ExitProcess, LoadWord,
           StoreWord, vars
    <2>3. ASSUME NEW t \in Threads, Notify(t) PROVE [Promise!Next]_(Promise!vars)
      <3>1. CompletedJobs' = IF call[t].ok THEN CompletedJobs \cup {job[t]} ELSE CompletedJobs
        BY <2>3, Recorded DEF CompletedJobs
      <3>2. main = "running" /\ main' = main
        BY <2>3 DEF Notify, NotifyCompleted
      <3>3. job[t] \in Jobs \ CompletedJobs
        BY <2>3 DEF Notify, NotifyCompleted, HasJob, JobInv, HeldIsFresh, Working
      <3>4. QED
        BY <3>1, <3>2, <3>3 DEF Promise!Next, Promise!Complete, Promise!vars, Verdict
    <2>4. QED
      BY <2>1, <2>2, <2>3 DEF Next, Main, Worker, Spin, Gone, JoinThreads,
         RejectFlags, RunDiagnostic,
         RejectPolicy, StartRun, Report, SpawnThread, CheckArguments, PopJob, NextRun,
         StartResumableFails, OpenFails, Call, ReadObject, RandomReadObject, WriteObject,
         ClientReadObject, ClientRandomReadObject, ClientWriteObject,
         CallEnds, ExitProcess, LoadWord, StoreWord, vars
  <1>3. QED
    BY <1>1, <1>2, TypesAndJobs, TypeCorrect, JobInvariant, ResultInvariant, PTL
       DEF Spec, PromiseSpec, Promise!Spec
=================================================================================
