------------------------------ MODULE DummyServer ------------------------------
(***************************************************************************)
(* The dummy server of dummy_server/main.cc, and one call to it: a read as  *)
(* the worker of sample/main.cc and DoRead of benchmark/grpc_runner.cc make *)
(* it, a write as DoWrite does, or a GetObject.  Calls share nothing but    *)
(* the server's process.                                                    *)
(*                                                                         *)
(* A reactor starts operations (write, read, finish) and the library runs   *)
(* its callbacks when they complete.  What a write or a finish carries      *)
(* travels to the client in that order; the connection may break and the    *)
(* server may be killed at any time.                                        *)
(***************************************************************************)
EXTENDS GcsUtil

CONSTANTS
    Flags,        \* --cred, whether its files open, whether the port can be had
    Requests,     \* the calls the client may make
    MaxReadChunkBytes,  \* ServiceConstants::MAX_READ_CHUNK_BYTES
    Window        \* bound: how many messages one direction of a stream holds

FlagRecords == [cred : STRING, files_open : BOOLEAN, port_free : BOOLEAN]

\* write_size and chunk_size are DoWrite's, checked by it, the others are sent.
RequestRecords ==
    [method : {"GetObject", "ReadObject", "WriteObject"}, object : Seq(Tokens),
     read_limit : Int, write_size : Nat \ {0}, chunk_size : Nat]

ASSUME DummyServerAssumption ==
    /\ Flags \subseteq FlagRecords
    /\ Requests \subseteq RequestRecords
    /\ MaxReadChunkBytes \in Nat \ {0}
    /\ Window \in Nat \ {0}

VARIABLES
    flags, request,    \* chosen once
    server,            \* how far RunServer is, or how the process ended
    reactor,           \* none, alive, deleted
    left_size,         \* left_size_ of a read's reactor
    started,           \* what the reactor has started and has not completed
    to_client,         \* writes and finish on their way to the client
    to_server,         \* the client's writes on their way
    broken,            \* nothing sent from now on arrives
    client,            \* idle, reading, writing, finishing, done
    offset,            \* o of DoWrite's loop
    moved,             \* the reader's total_bytes, or what a write's reactor has read
    status             \* what the client's Finish() returned

vars == <<flags, request, server, reactor, left_size, started, to_client, to_server,
          broken, client, offset, moved, status>>

serverVars == <<server, reactor, left_size, started>>
clientVars == <<client, offset, status>>
fixed      == <<flags, request>>

Write(size)        == [kind |-> "write", size |-> size, code |-> "none"]
StartRead          == [kind |-> "read", size |-> 0, code |-> "none"]
Finish(code)       == [kind |-> "finish", size |-> 0, code |-> code]
Reply(size)        == [kind |-> "finish", size |-> size, code |-> "OK"]

Codes == {"none", "OK", "NOT_FOUND", "UNKNOWN", "UNAVAILABLE"}
Items == [kind : {"write", "read", "finish"}, size : Nat, code : Codes]

TypeOK ==
    /\ flags \in Flags /\ request \in Requests
    /\ server \in {"starting", "serving", "exited", "aborted", "crashed", "killed"}
    /\ reactor \in {"none", "alive", "deleted"}
    /\ left_size \in 0 .. IntMax
    /\ started \in Seq(Items) /\ to_client \in Seq(Items) /\ to_server \in Seq(Items)
    /\ broken \in BOOLEAN
    /\ client \in {"idle", "reading", "writing", "finishing", "done"}
    /\ offset \in Nat /\ moved \in Nat
    /\ status \in Codes

Init ==
    /\ flags \in Flags /\ request \in Requests
    /\ server = "starting"
    /\ reactor = "none" /\ left_size = 0 /\ started = << >>
    /\ to_client = << >> /\ to_server = << >>
    /\ broken = FALSE
    /\ client = "idle" /\ offset = 0 /\ moved = 0 /\ status = "none"

-----------------------------------------------------------------------------
(* The process. *)

\* It calls abort() unless it can open the key and the certificate.
LoadStringFromFile == flags.files_open

\* exit(1) on a credential type it does not know; BuildAndStart returns null when the
\* port cannot be had, and Wait() is then called on that.
RunServer ==
    /\ server = "starting"
    /\ \/ flags.cred \notin {"insecure", "ssl", "alts"} /\ server' = "exited"
       \/ flags.cred = "ssl" /\ ~LoadStringFromFile /\ server' = "aborted"
       \/ /\ flags.cred \in {"insecure", "ssl", "alts"}
          /\ flags.cred = "ssl" => LoadStringFromFile
          /\ server' = IF flags.port_free THEN "serving" ELSE "crashed"
    /\ UNCHANGED <<fixed, reactor, left_size, started, to_client, to_server, broken,
                   clientVars, moved>>

\* Nothing but a signal ends Wait(): the reactors go with the process.
Kill ==
    /\ server = "serving"
    /\ server' = "killed"
    /\ broken' = TRUE
    /\ reactor' = "none" /\ started' = << >> /\ left_size' = 0
    /\ UNCHANGED <<fixed, to_client, to_server, clientVars, moved>>

\* The connection is lost, or the client's deadline has passed.
Break ==
    /\ client \notin {"idle", "done"}
    /\ ~broken
    /\ broken' = TRUE
    /\ UNCHANGED <<fixed, serverVars, to_client, to_server, clientVars, moved>>

-----------------------------------------------------------------------------
(* The handlers.  Each is told what has been started and not completed, and *)
(* adds to it. *)

\* Wrong on purpose: every message is a whole chunk.
MaybeWriteNextUncut(left, rest) ==
    LET data_size == GetObjectDataChunk(MaxReadChunkBytes)
    IN \/ left = 0 /\ started' = Append(rest, Finish("OK")) /\ left_size' = left
       \/ left # 0 /\ started' = Append(rest, Write(data_size)) /\ left_size' = left - data_size

\* The next chunk of what is left, or the end.
MaybeWriteNext(left, rest) ==
    LET chunk     == GetObjectDataChunk(MaxReadChunkBytes)
        data_size == IF left < chunk THEN left ELSE chunk
    IN \/ left = 0 /\ started' = Append(rest, Finish("OK")) /\ left_size' = left
       \/ left # 0 /\ started' = Append(rest, Write(data_size)) /\ left_size' = left - data_size

GetObject ==
    LET object_size == GetObjectSize(request.object)
    IN /\ started' = << IF object_size < 0 THEN Finish("NOT_FOUND") ELSE Reply(object_size) >>
       /\ UNCHANGED left_size

\* The limit cuts the object off, unless it is 0 or less; read_offset is not looked at.
Limited(object_size) ==
    IF request.read_limit > 0 /\ request.read_limit < object_size
    THEN request.read_limit ELSE object_size

\* The reactor's constructor starts the first write, or finishes.
ReadObject ==
    LET object_size == GetObjectSize(request.object)
    IN \/ object_size < 0 /\ started' = <<Finish("NOT_FOUND")>> /\ UNCHANGED left_size
       \/ object_size >= 0 /\ MaybeWriteNext(Limited(object_size), << >>)

WriteObject == started' = <<StartRead>> /\ UNCHANGED left_size

\* The library calls the method's handler when the call arrives.
CallArrives ==
    /\ server = "serving" /\ ~broken
    /\ client \in {"reading", "writing", "finishing"}
    /\ reactor = "none"
    /\ reactor' = "alive"
    /\ \/ request.method = "GetObject" /\ GetObject
       \/ request.method = "ReadObject" /\ ReadObject
       \/ request.method = "WriteObject" /\ WriteObject
    /\ UNCHANGED <<fixed, server, to_client, to_server, broken, clientVars, moved>>

\* What is started next is in progress, if it is of the given kind.
InProgress(kind) == started # << >> /\ Head(started).kind = kind

Deliver == to_client' = IF broken THEN to_client ELSE Append(to_client, Head(started))

\* Wrong on purpose: after the failure, on to the next write.
OnWriteDoneGoesOn(ok) ==
    IF ok THEN MaybeWriteNext(left_size, Tail(started))
          ELSE /\ started' = Tail(started) \o <<Finish("UNKNOWN"), Write(left_size)>>
               /\ UNCHANGED left_size

\* Wrong on purpose: a failed write is not followed by anything.
OnWriteDoneForgets(ok) ==
    IF ok THEN MaybeWriteNext(left_size, Tail(started))
          ELSE started' = Tail(started) /\ UNCHANGED left_size

OnWriteDone(ok) ==
    \/ ok /\ MaybeWriteNext(left_size, Tail(started))
    \/ ~ok /\ started' = Append(Tail(started), Finish("UNKNOWN")) /\ UNCHANGED left_size

\* A write completes when the stream has room for it, or is broken; it fails only
\* if it is broken, and may be lost all the same if it does not.
WriteCompletes(ok) ==
    /\ InProgress("write")
    /\ broken \/ (ok /\ Len(to_client) < Window)
    /\ Deliver
    /\ OnWriteDone(ok)
    /\ UNCHANGED <<fixed, server, reactor, to_server, broken, clientVars, moved>>

OnReadDone(ok) ==
    \/ ok /\ started' = Append(Tail(started), StartRead)
    \/ ~ok /\ started' = Append(Tail(started), Finish("OK"))

\* The next message, or none if the client is done with writing or is gone.
ReadCompletes(ok) ==
    /\ InProgress("read")
    /\ \/ ok /\ to_server # << >> /\ Head(to_server).kind = "write"
          /\ moved' = moved + Head(to_server).size
          /\ to_server' = Tail(to_server)
       \/ ~ok /\ (broken \/ (to_server # << >> /\ Head(to_server).kind = "finish"))
          /\ UNCHANGED <<moved, to_server>>
    /\ OnReadDone(ok)
    /\ UNCHANGED <<fixed, server, reactor, left_size, to_client, broken, clientVars>>

\* The finish has completed: OnDone() deletes the reactor.
OnDone ==
    /\ InProgress("finish")
    /\ Deliver
    /\ started' = Tail(started)
    /\ reactor' = "deleted"
    /\ UNCHANGED <<fixed, server, left_size, to_server, broken, clientVars, moved>>

Library ==
    \/ CallArrives \/ OnDone
    \/ \E ok \in BOOLEAN : WriteCompletes(ok) \/ ReadCompletes(ok)

-----------------------------------------------------------------------------
(* The client. *)

StartCall ==
    /\ client = "idle"
    /\ client' = CASE request.method = "GetObject"   -> "finishing"
                   [] request.method = "ReadObject"  -> "reading"
                   [] request.method = "WriteObject" -> "writing"
    /\ UNCHANGED <<fixed, serverVars, to_client, to_server, broken, offset, moved, status>>

Arrived(kind) == to_client # << >> /\ Head(to_client).kind = kind

\* Read() has a message: its bytes are added up.
Read ==
    /\ client = "reading"
    /\ Arrived("write")
    /\ moved' = moved + Head(to_client).size
    /\ to_client' = Tail(to_client)
    /\ UNCHANGED <<fixed, serverVars, to_server, broken, clientVars>>

\* Read() returns false, at the end of the stream or at a failure.
ReadEnds ==
    /\ client = "reading"
    /\ Arrived("finish") \/ broken
    /\ client' = "finishing"
    /\ UNCHANGED <<fixed, serverVars, to_client, to_server, broken, offset, moved, status>>

\* Wrong on purpose: the last chunk is as long as the others.
WriteChunkUncut ==
    /\ client = "writing"
    /\ offset < request.write_size
    /\ ~broken /\ Len(to_server) < Window
    /\ to_server' = Append(to_server, Write(request.chunk_size))
    /\ offset' = offset + request.chunk_size
    /\ UNCHANGED <<fixed, serverVars, to_client, broken, client, moved, status>>

\* DoWrite: the next chunk is on its way.
WriteChunk ==
    /\ client = "writing"
    /\ offset < request.write_size
    /\ ~broken /\ Len(to_server) < Window
    /\ to_server' = Append(to_server,
          Write(IF request.write_size - offset < request.chunk_size
                THEN request.write_size - offset ELSE request.chunk_size))
    /\ offset' = offset + request.chunk_size
    /\ UNCHANGED <<fixed, serverVars, to_client, broken, client, moved, status>>

\* Write() returns false: the stream is broken, or the server has finished.
WriteFails ==
    /\ client = "writing"
    /\ offset < request.write_size
    /\ broken \/ Arrived("finish")
    /\ client' = "finishing"
    /\ UNCHANGED <<fixed, serverVars, to_client, to_server, broken, offset, moved, status>>

WritesDone ==
    /\ client = "writing"
    /\ offset >= request.write_size
    /\ to_server' = IF broken THEN to_server ELSE Append(to_server, Finish("none"))
    /\ client' = "finishing"
    /\ UNCHANGED <<fixed, serverVars, to_client, broken, offset, moved, status>>

\* Finish() waits for the status, and makes one up for a broken stream.
GetStatus ==
    /\ client = "finishing"
    /\ \/ /\ Arrived("finish")
          /\ status' = Head(to_client).code
          /\ moved' = moved + Head(to_client).size
       \/ broken /\ status' = "UNAVAILABLE" /\ UNCHANGED moved
    /\ client' = "done"
    /\ UNCHANGED <<fixed, serverVars, to_client, to_server, broken, offset>>

Client == StartCall \/ Read \/ ReadEnds \/ WriteChunk \/ WriteFails \/ WritesDone \/ GetStatus

\* Nothing more happens to the call.
CallOver == client = "done" /\ reactor # "alive" /\ UNCHANGED vars

Next == RunServer \/ Kill \/ Break \/ Library \/ Client \/ CallOver

\* Both processes run, the library completes what it can, and notices when there
\* is no server.
Fairness ==
    /\ WF_vars(RunServer)
    /\ WF_vars(Library)
    /\ WF_vars(Client)
    /\ WF_vars(Break /\ server \notin {"starting", "serving"})

Spec == Init /\ [][Next]_vars /\ Fairness

-----------------------------------------------------------------------------
(* Properties *)

\* Whatever order the callbacks come in, a reactor has one operation in progress
\* at a time (response_ may not be changed under a write), finishes once and last,
\* and nothing is in progress when it is deleted; nor is it left without anything
\* in progress, which nothing would ever wake it from.
OneAtATime == Len(started) = IF reactor = "alive" THEN 1 ELSE 0

Total(items) ==
    LET upto[n \in 0 .. Len(items)] == IF n = 0 THEN 0 ELSE upto[n - 1] + items[n].size
    IN upto[Len(items)]

IsExtension(tokens) ==
    \/ tokens = << >>
    \/ /\ Head(tokens).kind = "dot"
       /\ \A k \in 2 .. Len(tokens) : tokens[k].kind \notin {"dot", "slash"}

\* The units a word may be: a letter for the power of K, alone or with "ib" behind it,
\* in any case.
Powers == <<K, K * K, K * K * K, K * K * K * K>>
IsUnit(word, power) ==
    /\ Len(word) \in {1, 3}
    /\ word[1].letter = <<"k", "m", "g", "t">>[power]
    /\ Len(word) = 3 => word[2].letter = "i" /\ word[3].letter = "b"

\* The sizes a name may be read as, by the parts it is made of: a directory, digits
\* that are an int64_t, a unit, an extension.  There is one at most.
SizesNamed(object) ==
    LET Starts == {i \in 1 .. Len(object) :
                      /\ object[i].kind = "digits" /\ object[i].number <= IntMax
                      /\ i = 1 \/ object[i - 1].kind = "slash"}
        After(i)  == SubSeq(object, i + 1, Len(object))
        HasUnit(i, power) == /\ After(i) # << >> /\ Head(After(i)).kind = "letters"
                             /\ IsUnit(Head(After(i)).text, power)
                             /\ IsExtension(Tail(After(i)))
    IN {object[i].number : i \in {k \in Starts : IsExtension(After(k))}} \cup
       {object[u[1]].number * Powers[u[2]] :
           u \in {v \in Starts \X (1 .. 4) : HasUnit(v[1], v[2])}}

\* Whether the object exists, and how many bytes of it are asked for.  Of a size
\* that does not fit an int64_t nothing is said but what the overflow leaves.
Overflows == \E size \in SizesNamed(request.object) : size > IntMax
Named     == CHOOSE size \in SizesNamed(request.object) : TRUE
Bytes     == IF Overflows THEN Wrap(Named) ELSE Named
Exists    == SizesNamed(request.object) # {} /\ Bytes >= 0
Whole ==
    IF request.method = "WriteObject" THEN request.write_size
    ELSE IF ~Exists THEN 0
    ELSE Min({Bytes} \cup {n \in {request.read_limit} : request.method = "ReadObject" /\ n > 0})

\* The call implements a transfer: OK means that every byte asked for, and none
\* besides, has arrived, whatever was lost on the way; NOT_FOUND means that the name
\* stands for no object.
Promise == INSTANCE Transfer
    WITH exists <- request.method = "WriteObject" \/ Exists,
         whole <- Whole,
         verdict <- CASE client # "done" -> "pending"  [] status = "OK" -> "succeeded"
                      [] status = "NOT_FOUND" -> "refused" [] OTHER -> "failed"

TransferSpec == Promise!Spec

\* As long as the connection holds, no byte is lost or sent twice: what a read's
\* reactor has left, what is on its way and what has arrived make up the object, and
\* what a client has written is on its way or has arrived.
BytesConserved ==
    ~broken =>
        /\ request.method = "ReadObject" /\ reactor # "none" /\ Exists =>
              left_size + Total(started) + Total(to_client) + moved = Whole
        /\ request.method = "WriteObject" =>
              Total(to_server) + moved =
                  IF offset < request.write_size THEN offset ELSE request.write_size

\* Each call ends at the client, however it fares, and leaves no reactor behind:
\* unless it writes in chunks of 0 bytes, with which DoWrite's loop does not advance.
CallEnds ==
    <>(\/ request.method = "WriteObject" /\ request.chunk_size = 0
       \/ (client = "done" /\ reactor # "alive"))
===============================================================================
