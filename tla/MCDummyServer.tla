----------------------------- MODULE MCDummyServer -----------------------------
(***************************************************************************)
(* int64_t has 6 bits and a kilobyte is 2 bytes, so the sizes that fit end   *)
(* at 31 and a t is 16: products that fit, that wrap below zero, to zero     *)
(* and to a size are all within reach.                                      *)
(***************************************************************************)
EXTENDS DummyServer

Lower(w) == [i \in DOMAIN w |-> [letter |-> w[i], upper |-> FALSE]]
Upper(w) == [i \in DOMAIN w |-> [letter |-> w[i], upper |-> TRUE]]

k == Lower(<<"k">>)
t == Lower(<<"t">>)
MB  == Upper(<<"m", "b">>)
MiB == Upper(<<"m">>) \o Lower(<<"i">>) \o Upper(<<"b">>)
KIB == Upper(<<"k", "i", "b">>)

Token(kind, number, text) == [kind |-> kind, number |-> number, text |-> text]
Slash       == Token("slash", 0, << >>)
Dot         == Token("dot", 0, << >>)
Digits(n)   == Token("digits", n, << >>)
Word(w)     == Token("letters", 0, w)

Names ==
    {<<Digits(0)>>, <<Digits(5)>>, <<Digits(100)>>, <<Digits(2), Word(k)>>, <<Digits(6), Word(KIB)>>,
     <<Digits(1), Word(MB), Dot, Word(Lower(<<"b", "i", "n">>))>>,
     <<Digits(3), Word(MiB), Dot, Word(Lower(<<"b", "i", "n">>))>>,
     <<Digits(1), Word(t)>>, <<Digits(2), Word(t)>>,
     <<Digits(4), Word(t)>>, <<Digits(5), Word(t)>>,
     <<Word(Lower(<<"a">>)), Dot, Digits(1), Slash, Digits(3), Dot, Digits(5)>>,
     <<Digits(7), Dot, Word(Lower(<<"t", "a", "r">>)), Dot, Word(Lower(<<"g", "z">>))>>,
     <<Word(Lower(<<"a">>)), Digits(7)>>, <<Digits(7), Slash>>}

SomeFlags ==
    [cred : {"insecure"}, files_open : {FALSE}, port_free : BOOLEAN] \cup
    [cred : {"ssl"}, files_open : BOOLEAN, port_free : {TRUE}] \cup
    [cred : {"tls"}, files_open : {TRUE}, port_free : {TRUE}]

SomeRequests ==
    [method : {"ReadObject"}, object : Names, read_limit : {-1, 0, 3, 12},
     write_size : {1}, chunk_size : {1}] \cup
    [method : {"GetObject"}, object : Names, read_limit : {0},
     write_size : {1}, chunk_size : {1}] \cup
    [method : {"WriteObject"}, object : {<<Digits(5)>>}, read_limit : {0},
     write_size : {4, 5}, chunk_size : {0, 2, 5, 8}]
===============================================================================
