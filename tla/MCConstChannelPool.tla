--------------------------- MODULE MCConstChannelPool ---------------------------
(* Two threads, and a channel that is replaced up to three times. *)
EXTENDS ConstChannelPool

CONSTANTS t1, t2

MCThreads == {t1, t2}
=================================================================================
