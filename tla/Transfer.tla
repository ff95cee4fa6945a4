------------------------------- MODULE Transfer -------------------------------
(***************************************************************************)
(* What a call to the dummy server promises: bytes arrive until all of them *)
(* have, and only then may it succeed.  It may fail at any time, and it is  *)
(* refused only if there is nothing to be had.                              *)
(***************************************************************************)
EXTENDS Integers

VARIABLES
    exists, whole,   \* whether there is an object, and how many bytes to move
    moved,           \* how many have arrived
    verdict          \* pending, succeeded, refused, failed

vars == <<exists, whole, moved, verdict>>

Init ==
    /\ exists \in BOOLEAN /\ whole \in Nat
    /\ moved = 0
    /\ verdict = "pending"

\* What is on its way may still arrive when the sender has seen the call fail.
Arrive ==
    /\ exists /\ verdict # "succeeded"
    /\ moved' \in moved + 1 .. whole
    /\ UNCHANGED <<exists, whole, verdict>>

\* The answer may itself bring what had not arrived.
Succeed ==
    /\ exists /\ verdict = "pending"
    /\ moved' = whole
    /\ verdict' = "succeeded"
    /\ UNCHANGED <<exists, whole>>

Refuse ==
    /\ ~exists /\ verdict = "pending"
    /\ verdict' = "refused"
    /\ UNCHANGED <<exists, whole, moved>>

Fail ==
    /\ verdict = "pending"
    /\ verdict' = "failed"
    /\ UNCHANGED <<exists, whole, moved>>

Next == Arrive \/ Succeed \/ Refuse \/ Fail

Spec == Init /\ [][Next]_vars
===============================================================================
