------------------------------ MODULE MCRunner ------------------------------
(***************************************************************************)
(* Instances of Runner.  One word of a vector<bool> holds the result of     *)
(* every thread, as it does for up to 64 threads.                           *)
(***************************************************************************)
EXTENDS Runner

MCThreadCount == 2
MCWordBits == 64

\* A run of the benchmark whose flags are accepted.
Benchmarks ==
    [client : {"grpc"}, flags_valid : {TRUE}, mode : {"benchmark"},
     policy_valid : {TRUE}, arguments_valid : {TRUE},
     operation : {"read", "random-read", "write"}, resumable : {FALSE},
     crc32c : BOOLEAN, trying : BOOLEAN, wait_threads : BOOLEAN,
     steal_work : BOOLEAN, warmups : {0, 1}]

\* DoRandomRead has no queue, DoWrite no warm-up or stealing of its own: leave
\* out the combinations that repeat DoRead's.  One read checks what it receives.
SafetyParameters ==
    {p \in Benchmarks :
        /\ p.operation = "random-read" => ~p.steal_work
        /\ p.operation = "write" => ~p.steal_work /\ p.warmups = 0
        /\ p.crc32c => /\ p.operation = "read" /\ ~p.steal_work
                       /\ p.warmups = 0 /\ ~p.trying /\ ~p.wait_threads}

\* The early returns: the diagnostic modes, flags that are refused, a
\* resumable write that cannot start.
EarlyParameters ==
    [client : {"grpc"}, flags_valid : BOOLEAN, mode : {"benchmark", "ctest"}, policy_valid : BOOLEAN,
     arguments_valid : BOOLEAN, operation : {"write"},
     resumable : {TRUE}, crc32c : {FALSE}, trying : {TRUE},
     wait_threads : BOOLEAN, steal_work : {FALSE}, warmups : {0}]

\* GcscppRunner pays no attention to the modes and policies of the other.
ClientParameters ==
    [client : {"gcscpp"}, flags_valid : {TRUE}, mode : {"mtest"}, policy_valid : {FALSE},
     arguments_valid : {TRUE}, operation : {"read", "random-read", "write"},
     resumable : {FALSE}, crc32c : {FALSE}, trying : {TRUE},
     wait_threads : BOOLEAN, steal_work : {FALSE}, warmups : {0, 1}]

Parameters == SafetyParameters \cup EarlyParameters \cup ClientParameters

ReadOnly ==
    {p \in Benchmarks :
        p.operation = "read" /\ p.warmups = 0 /\ ~p.steal_work /\ ~p.crc32c}
=================================================================================
