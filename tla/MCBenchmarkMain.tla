---------------------------- MODULE MCBenchmarkMain ----------------------------
(* Two threads with two operations each, one of which may fail, over two ticks:  *)
(* every order of two begins, two ends and two records.                          *)
EXTENDS BenchmarkMain

CONSTANTS t1, t2

MCThreads == {t1, t2}

SomeParameters ==
    [grpc_admin : {FALSE}, port_free : {TRUE}, client_valid : {TRUE}, trying : BOOLEAN,
     wait_threads : {FALSE}, warmups : {0, 1}] \cup
    [grpc_admin : {TRUE}, port_free : BOOLEAN, client_valid : BOOLEAN, trying : {FALSE},
     wait_threads : BOOLEAN, warmups : {1}]
===============================================================================
