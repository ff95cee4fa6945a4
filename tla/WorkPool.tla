------------------------------- MODULE WorkPool -------------------------------
(***************************************************************************)
(* What the benchmark expects of its work queue, without saying how: every  *)
(* <<thread, number>> pair is given out once, a thread is given its own     *)
(* pairs first and other threads' only when stealing is enabled, and it is  *)
(* refused only when nothing it may have remains.                           *)
(***************************************************************************)
EXTENDS Integers

CONSTANTS Threads, Works, NoWork

VARIABLES
    stealing,   \* may a thread be given another thread's work?
    remaining,  \* the work not given out yet
    work        \* what each thread was given last, or NoWork

vars == <<stealing, remaining, work>>

Own(t) == {w \in remaining : w[1] = t}

Allowed(t) == IF stealing /\ Own(t) = {} THEN remaining ELSE Own(t)

Init ==
    /\ stealing \in BOOLEAN
    /\ remaining = Works
    /\ work = [t \in Threads |-> NoWork]

Take(t) ==
    \E w \in Allowed(t) :
        /\ remaining' = remaining \ {w}
        /\ work' = [work EXCEPT ![t] = w]
        /\ UNCHANGED stealing

Refuse(t) ==
    /\ Allowed(t) = {}
    /\ work' = [work EXCEPT ![t] = NoWork]
    /\ UNCHANGED <<stealing, remaining>>

Next == \E t \in Threads : Take(t) \/ Refuse(t)

Spec == Init /\ [][Next]_vars
===============================================================================
