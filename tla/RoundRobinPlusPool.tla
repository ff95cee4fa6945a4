-------------------------- MODULE RoundRobinPlusPool --------------------------
(***************************************************************************)
(* RoundRobinPlusChannelPool of benchmark/channel_policy.cc, and the worker *)
(* threads of benchmark/grpc_runner.cc as its clients.  Both methods of the *)
(* pool run under lock_, so each call is one step; a thread's RPC, its      *)
(* report and the destruction of its stub are separate steps.               *)
(*                                                                         *)
(* The pool knows a channel by its address.  An address is used again once  *)
(* nothing points to its channel, so a channel here is an address together  *)
(* with a serial number that the code does not have.                        *)
(***************************************************************************)
EXTENDS Integers, FiniteSets

CONSTANTS
    Size,           \* --carg, the number of channels
    Threads,        \* the worker threads
    Addresses,      \* where a channel may be allocated
    MaxChannels,    \* bound: channels created in one behaviour
    MinCount,       \* bound: the lowest in_use_count is -MinCount
    Operations      \* the operations a run may be about

ASSUME RoundRobinPlusPoolAssumption ==
    /\ Size \in Nat \ {0}
    /\ MaxChannels \in Nat /\ MaxChannels >= Size
    /\ MinCount \in Nat
    /\ Operations \subseteq {"read", "random-read", "resumable-write"}
    /\ IsFiniteSet(Threads) /\ IsFiniteSet(Addresses)
    /\ Cardinality(Addresses) > Size + Cardinality(Threads)

VARIABLES
    operation,      \* what every thread does; a write in one call is as a read here
    channel_states, \* channel_states_: the channel and the in_use_count of each slot
    created,        \* how many channels there have been
    pc,             \* where each thread is: idle, calling, reported, done
    stub,           \* the channel each thread's StubHolder keeps alive
    hopeless        \* history: the channels reported with a hopeless error

vars == <<operation, channel_states, created, pc, stub, hopeless>>

\* DoRandomRead takes one stub for all its calls, the others one for each call.
StubPerCall == operation # "random-read"

Slots    == 1 .. Size
Channels == [address : Addresses, serial : 1 .. MaxChannels]
NoStub   == [address |-> {}, serial |-> 0]

TypeOK ==
    /\ operation \in Operations
    /\ channel_states \in [Slots -> [channel : Channels, in_use_count : Int]]
    /\ created \in 0 .. MaxChannels
    /\ pc \in [Threads -> {"idle", "calling", "reported", "done"}]
    /\ stub \in [Threads -> Channels \cup {NoStub}]
    /\ hopeless \subseteq Channels

Init ==
    /\ operation \in Operations
    /\ channel_states \in
         {s \in [Slots -> [channel : Channels, in_use_count : {0}]] :
            \A i, k \in Slots :
               /\ s[i].channel.serial = i
               /\ s[i].channel.address = s[k].channel.address => i = k}
    /\ created = Size
    /\ pc = [t \in Threads |-> "idle"]
    /\ stub = [t \in Threads |-> NoStub]
    /\ hopeless = {}

\* The first of the channels with the least in_use_count.
Least(i) ==
    \A k \in Slots :
        /\ channel_states[i].in_use_count <= channel_states[k].in_use_count
        /\ k < i => channel_states[i].in_use_count < channel_states[k].in_use_count

GetStorageStub(t) ==
    /\ pc[t] = "idle"
    /\ \E i \in Slots :
          /\ Least(i)
          /\ channel_states' = [channel_states EXCEPT ![i].in_use_count = @ + 1]
          /\ stub' = [stub EXCEPT ![t] = channel_states[i].channel]
    /\ pc' = [pc EXCEPT ![t] = "calling"]
    /\ UNCHANGED <<operation, created, hopeless>>

\* Wrong on purpose: a stub that does not keep its channel alive.
LiveInPool == {channel_states[i].channel.address : i \in Slots}

\* The addresses in use: a channel lives as long as the pool or a stub has it.
Live == {channel_states[i].channel.address : i \in Slots} \cup
        {stub[t].address : t \in {u \in Threads : stub[u] # NoStub}}

\* The slot find_if finds for a handle.
Found(i, handle) ==
    /\ channel_states[i].channel.address = handle.address
    /\ \A k \in 1 .. i - 1 : channel_states[k].channel.address # handle.address

\* Wrong on purpose: the new channel inherits the count of the old one.
EvictKeepsCount(i) ==
    \E a \in Addresses \ Live :
        /\ created < MaxChannels
        /\ created' = created + 1
        /\ channel_states' = [channel_states EXCEPT
              ![i].channel = [address |-> a, serial |-> created + 1]]

\* Wrong on purpose: the channel is dropped and no new one created.
EvictToNull(i) ==
    /\ UNCHANGED created
    /\ channel_states' = [channel_states EXCEPT ![i] = [channel |-> NoStub, in_use_count |-> 0]]

\* channel_creator_() makes the new channel while the old one still exists.
Evict(i) ==
    \E a \in Addresses \ Live :
        /\ created < MaxChannels
        /\ created' = created + 1
        /\ channel_states' = [channel_states EXCEPT
              ![i] = [channel |-> [address |-> a, serial |-> created + 1],
                      in_use_count |-> 0]]

ReleaseUse(i) ==
    /\ channel_states[i].in_use_count > -MinCount
    /\ channel_states' = [channel_states EXCEPT ![i].in_use_count = @ - 1]

\* Wrong on purpose: a hopeless error only gives the channel back.
ReportResultKeeps(t) ==
    /\ pc[t] = "calling"
    /\ \E is_hopeless \in BOOLEAN :
          /\ hopeless' = IF is_hopeless THEN hopeless \cup {stub[t]} ELSE hopeless
          /\ \/ \E i \in Slots : Found(i, stub[t]) /\ ReleaseUse(i)
             \/ (\A i \in Slots : ~Found(i, stub[t])) /\ UNCHANGED channel_states
    /\ pc' = [pc EXCEPT ![t] = "reported"]
    /\ UNCHANGED <<operation, stub, created>>

\* The call has ended, with CANCELLED or DEADLINE_EXCEEDED (hopeless) or not.
\* Only a handle the pool still has is released, and evicted if hopeless.
ReportResult(t) ==
    /\ pc[t] = "calling"
    /\ \E is_hopeless \in BOOLEAN :
          /\ hopeless' = IF is_hopeless THEN hopeless \cup {stub[t]} ELSE hopeless
          /\ \/ \E i \in Slots :
                   /\ Found(i, stub[t])
                   /\ IF is_hopeless THEN Evict(i)
                                     ELSE ReleaseUse(i) /\ UNCHANGED created
             \/ /\ \A i \in Slots : ~Found(i, stub[t])
                /\ UNCHANGED <<channel_states, created>>
    /\ pc' = [pc EXCEPT ![t] = "reported"]
    /\ UNCHANGED <<operation, stub>>

\* DoRandomRead: the next call, or the retry, uses the stub of the last one.
CallAgain(t) ==
    /\ pc[t] = "reported"
    /\ ~StubPerCall
    /\ pc' = [pc EXCEPT ![t] = "calling"]
    /\ UNCHANGED <<operation, channel_states, created, stub, hopeless>>

\* The StubHolder goes out of scope: after each call, or when the thread ends.
DropStub(t) ==
    /\ pc[t] = "reported"
    /\ stub' = [stub EXCEPT ![t] = NoStub]
    /\ pc' = [pc EXCEPT ![t] = IF StubPerCall THEN "idle" ELSE "done"]
    /\ UNCHANGED <<operation, channel_states, created, hopeless>>

\* The thread has no more work, or its last call failed and it does not retry.
Leave(t) ==
    /\ pc[t] = "idle"
    /\ pc' = [pc EXCEPT ![t] = "done"]
    /\ UNCHANGED <<operation, channel_states, created, stub, hopeless>>

\* DoWrite returns at once when StartResumableWrite fails: nothing is reported.
StartResumableFails(t) ==
    /\ pc[t] = "calling"
    /\ operation = "resumable-write"
    /\ stub' = [stub EXCEPT ![t] = NoStub]
    /\ pc' = [pc EXCEPT ![t] = "done"]
    /\ UNCHANGED <<operation, channel_states, created, hopeless>>

\* Every thread is done.
Joined ==
    /\ \A t \in Threads : pc[t] = "done"
    /\ UNCHANGED vars

Next ==
    \/ \E t \in Threads :
          \/ GetStorageStub(t) \/ ReportResult(t) \/ CallAgain(t)
          \/ DropStub(t) \/ Leave(t) \/ StartResumableFails(t)
    \/ Joined

Spec == Init /\ [][Next]_vars

-----------------------------------------------------------------------------
(* Properties *)

\* The calls in progress on the channel a slot has now.
Users(i) == {t \in Threads : pc[t] = "calling" /\ stub[t] = channel_states[i].channel}

\* When every call reports, on a stub of its own, in_use_count is the number of
\* calls in progress on the slot's channel: evictions reset it, and late reports
\* about a channel that was evicted meanwhile change nothing.
CountsMatch ==
    operation = "read" =>
        \A i \in Slots : channel_states[i].in_use_count = Cardinality(Users(i))

\* The thread that a step gives a stub is given a channel of the pool than which
\* no other has fewer calls in progress.
GivesLeast ==
    \A t \in Threads : pc[t] = "idle" /\ pc'[t] = "calling" =>
        \E i \in Slots :
            /\ stub'[t] = channel_states[i].channel
            /\ \A k \in Slots : Cardinality(Users(i)) <= Cardinality(Users(k))

\* Every thread is given the channel least in use, when every call reports on a
\* stub of its own.
LeastUsed == [][operation = "read" => GivesLeast]_vars

\* "Finds the channel with the least number of use", whatever the operation.
LeastUsedAlways == [][GivesLeast]_vars

\* A channel that was reported hopeless is out of the pool for good, though its
\* address may come back.
HopelessGone == \A i \in Slots : channel_states[i].channel \notin hopeless

\* A report changes only the slot of the very channel its call ran on: no
\* handle outlives its channel and matches a newer one at the same address.
ReportsOwnChannel ==
    [][\A t \in Threads : pc[t] = "calling" /\ pc'[t] = "reported" =>
          \A i \in Slots : channel_states'[i] # channel_states[i] =>
             channel_states[i].channel = stub[t]]_vars
===============================================================================
