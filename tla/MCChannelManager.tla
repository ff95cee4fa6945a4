--------------------------- MODULE MCChannelManager ---------------------------
(* A size_t of three bits is wide enough here for every count but a negative one. *)
EXTENDS ChannelManager

CONSTANTS t1, t2, t3

TwoThreads   == {t1, t2}
ThreeThreads == {t1, t2, t3}

AnyStatus   == {"OK", "failed", "unhealthy"}
OkUnhealthy == {"OK", "unhealthy"}
===============================================================================
