------------------------- MODULE MCSmartRoundRobinPool -------------------------
(* Two channels.  A call takes a millisecond, or less and transfers more: a   *)
(* channel with both kinds is fast, one with the first kind only is slow.     *)
EXTENDS SmartRoundRobinPool, TLC

CONSTANTS t1, t2, a1, a2, a3, a4, a5

MCThreads   == {t1, t2}
MCAddresses == {a1, a2, a3, a4, a5}

SlowOrInstant == {[bytes |-> 1, milliseconds |-> 1], [bytes |-> 8, milliseconds |-> 0]}
Fast          == [bytes : {8}, milliseconds : {1}]

\* A read does nothing here that a resumable write may not do.
RandomReadsAndWrites == {"random-read", "resumable-write"}
Reads == {"read"}

\* Nothing in the specification orders threads or addresses.
Symmetry == Permutations(MCThreads) \cup Permutations(MCAddresses)
================================================================================
