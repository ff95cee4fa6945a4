------------------------- MODULE MCRoundRobinPlusPool -------------------------
(***************************************************************************)
(* Two channels.  There is one address more than channels can be alive at   *)
(* once, so addresses are used again.                                       *)
(***************************************************************************)
EXTENDS RoundRobinPlusPool, TLC

CONSTANTS t1, t2, t3, a1, a2, a3, a4, a5, a6

ThreeThreads == {t1, t2, t3}
SixAddresses == {a1, a2, a3, a4, a5, a6}

EveryOperation == {"read", "random-read", "resumable-write"}

\* Nothing in the specification orders threads or addresses.
Symmetry == Permutations(ThreeThreads) \cup Permutations(SixAddresses)
===============================================================================
