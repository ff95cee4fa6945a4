--------------------------- MODULE MCRoundRobinPool ---------------------------
(* Two threads, two slots, and two channels to replace theirs. *)
EXTENDS RoundRobinPool, TLC

CONSTANTS t1, t2

MCThreads == {t1, t2}
Symmetry  == Permutations(MCThreads)
===============================================================================
