------------------------------ MODULE MCWorkQueue ------------------------------
(* Three threads with two pieces of work each. *)
EXTENDS WorkQueue

MCThreadCount == 3
MCWorkCountPerThread == 2
===============================================================================
