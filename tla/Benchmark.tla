------------------------------- MODULE Benchmark -------------------------------
(***************************************************************************)
(* What one run of the benchmark promises: it completes jobs one by one,    *)
(* never the same one twice, and reports success only when every job was    *)
(* completed.  It may fail at any moment before that.                       *)
(***************************************************************************)
CONSTANT Jobs

VARIABLES
    completed,  \* the jobs done so far
    verdict     \* what the run has said of itself

vars == <<completed, verdict>>

Init == completed = {} /\ verdict = "pending"

Complete ==
    /\ verdict = "pending"
    /\ \E j \in Jobs \ completed : completed' = completed \cup {j}
    /\ UNCHANGED verdict

Succeed ==
    /\ verdict = "pending"
    /\ completed = Jobs
    /\ verdict' = "succeeded"
    /\ UNCHANGED completed

Fail ==
    /\ verdict = "pending"
    /\ verdict' = "failed"
    /\ UNCHANGED completed

Next == Complete \/ Succeed \/ Fail

Spec == Init /\ [][Next]_vars
================================================================================
