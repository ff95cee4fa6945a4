------------------------------ MODULE WorkQueue ------------------------------
(***************************************************************************)
(* benchmark/work_queue.{h,cc}: the queue that hands the benchmark's work   *)
(* out to its threads.  Work is a pair <<thread_id, work_id>>; the queue    *)
(* keeps only how many of each thread's pairs were handed out.  pop runs    *)
(* under mu_, so one call is one step.                                      *)
(*                                                                         *)
(* The definitions of its specification have names of their own, so that it *)
(* can stand beside a module that has a TypeOK, an Init and a Next as well. *)
(***************************************************************************)
EXTENDS Integers

CONSTANTS
    ThreadCount,         \* thread_count_
    WorkCountPerThread   \* work_count_per_thread_

ASSUME WorkQueueAssumption ==
    /\ ThreadCount \in Nat
    /\ WorkCountPerThread \in Nat

VARIABLES
    work_stealing_enabled,  \* work_stealing_enabled_, set once by the constructor
    thread_works,           \* thread_works_: per thread, the work handed out so far
    work                    \* per calling thread, the tuple its last pop returned

queueVars == <<work_stealing_enabled, thread_works, work>>

ThreadIds == 1 .. ThreadCount
Works     == ThreadIds \X (1 .. WorkCountPerThread)
NoWork    == <<0, 0>>

\* A pair was handed out when the counter of its thread has reached it.
HandedOut(w) == w[2] <= thread_works[w[1]]

QueueTypeOK ==
    /\ work_stealing_enabled \in BOOLEAN
    /\ thread_works \in [ThreadIds -> 0 .. WorkCountPerThread]
    /\ work \in [ThreadIds -> Works \cup {NoWork}]

QueueInit ==
    /\ work_stealing_enabled \in BOOLEAN
    /\ thread_works = [t \in ThreadIds |-> 0]
    /\ work = [t \in ThreadIds |-> NoWork]

HasWork(t) == thread_works[t] < WorkCountPerThread

\* Wrong on purpose: a thief takes the first thread there is, not the first
\* with work left.
SourceAny(thread_id) ==
    {t \in ThreadIds :
        \/ t = thread_id /\ HasWork(t)
        \/ t = 1 /\ work_stealing_enabled /\ ~HasWork(thread_id)}

\* Wrong on purpose: with stealing on, the first thread with work is robbed
\* even while the caller has work of its own.
SourceGreedy(thread_id) ==
    {t \in ThreadIds :
        /\ HasWork(t)
        /\ IF work_stealing_enabled
           THEN \A u \in 1 .. t - 1 : ~HasWork(u)
           ELSE t = thread_id}

\* The thread whose counter pop(thread_id) advances, as a set of at most one:
\* the caller while it has work, else the first thread that has some, if
\* stealing is enabled.
Source(thread_id) ==
    {t \in ThreadIds :
        /\ HasWork(t)
        /\ \/ t = thread_id
           \/ /\ work_stealing_enabled
              /\ ~HasWork(thread_id)
              /\ \A u \in 1 .. t - 1 : ~HasWork(u)}

PopWork(thread_id) ==
    \E t \in Source(thread_id) :
        /\ thread_works' = [thread_works EXCEPT ![t] = @ + 1]
        /\ work' = [work EXCEPT ![thread_id] = <<t, thread_works[t] + 1>>]
        /\ UNCHANGED work_stealing_enabled

PopNothing(thread_id) ==
    /\ ~HasWork(thread_id)
    /\ work_stealing_enabled => \A t \in ThreadIds : ~HasWork(t)
    /\ work' = [work EXCEPT ![thread_id] = NoWork]
    /\ UNCHANGED <<work_stealing_enabled, thread_works>>

Pop(thread_id) == PopWork(thread_id) \/ PopNothing(thread_id)

QueueNext == \E t \in ThreadIds : Pop(t)

QueueSpec == QueueInit /\ [][QueueNext]_queueVars

-----------------------------------------------------------------------------
(* Properties *)

\* No piece of work is ever in the hands of two threads: what two threads
\* popped last differs, however their pops (own or stolen) interleave.
Exclusive ==
    \A t, u \in ThreadIds : work[t] = work[u] => t = u \/ work[t] = NoWork

\* The counters implement a set of work: each pair is handed out once, own
\* work comes first, and pop answers (0, 0) only when nothing the thread may
\* have is left.
Pool == INSTANCE WorkPool
    WITH Threads <- ThreadIds,
         stealing <- work_stealing_enabled,
         remaining <- {w \in Works : ~HandedOut(w)}

PoolSpec == Pool!Spec
=============================================================================
