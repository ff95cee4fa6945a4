-------------------------- MODULE SmartRoundRobinPool --------------------------
(***************************************************************************)
(* SmartRoundRobinChannelPool of benchmark/channel_policy.cc, with the      *)
(* worker threads of benchmark/grpc_runner.cc as its clients.  The pool     *)
(* hands its channels out in turn, adds up what each one transferred, and   *)
(* now and then replaces the slowest.  Both methods run under lock_, so     *)
(* each is one step.                                                        *)
(*                                                                         *)
(* As in RoundRobinPlusPool, a channel is an address, which is how the code *)
(* knows it, and a serial number, which the code does not have.             *)
(***************************************************************************)
EXTENDS Integers, FiniteSets

CONSTANTS
    Size,           \* --carg, the number of channels
    Threads,        \* the worker threads
    Addresses,      \* where a channel may be allocated
    Results,        \* what a call may transfer: bytes, and whole milliseconds
    ScoresPerChannel, \* 3: an evaluation is due after more successes than that per entry
    MaxChannels,    \* bound: channels created; after the last no thread takes a stub
    MaxScoreCount,  \* bound: the highest score_count
    Operations      \* the operations a run may be about

ASSUME SmartRoundRobinPoolAssumption ==
    /\ Size \in Nat \ {0}
    /\ MaxChannels \in Nat /\ MaxChannels >= Size
    /\ ScoresPerChannel \in Nat /\ MaxScoreCount \in Nat
    /\ Results \subseteq [bytes : Nat, milliseconds : Nat]
    /\ Operations \subseteq {"read", "random-read", "resumable-write"}
    /\ IsFiniteSet(Threads) /\ IsFiniteSet(Addresses)
    /\ Cardinality(Addresses) > Size + Cardinality(Threads)

VARIABLES
    operation,         \* what every thread does
    channels,          \* channels_
    cursor,            \* cursor_, from 1 here
    channel_state_map, \* channep_state_map_, keyed by address
    score_count,       \* score_count: successes since the last evaluation
    created,           \* how many channels there have been
    pc,                \* where each thread is: idle, calling, reported, done
    stub,              \* the channel each thread's StubHolder keeps alive
    hopeless,          \* history: the channels reported hopeless since the map was made
    crashed            \* the process died of a division by zero

pool == <<channels, channel_state_map, score_count, created, crashed>>
vars == <<operation, cursor, pool, pc, stub, hopeless>>

Slots    == 1 .. Size
Channels == [address : Addresses, serial : 1 .. MaxChannels]
NoStub   == [address |-> {}, serial |-> 0]

\* serials is history: the channel an entry was made for, and those whose calls it counts.
States == [count : Nat, total_bytes : Nat, total_time : Nat, serials : SUBSET (1 .. MaxChannels)]
Untried(serials) == [count |-> 0, total_bytes |-> 0, total_time |-> 0, serials |-> serials]

\* InitChannelStateMap: a fresh entry for each channel of the pool, and no other.
FreshMap(chs) ==
    [a \in {chs[i].address : i \in Slots} |->
        Untried({chs[i].serial : i \in {k \in Slots : chs[k].address = a}})]

TypeOK ==
    /\ operation \in Operations
    /\ channels \in [Slots -> Channels]
    /\ cursor \in Slots
    /\ \E keys \in SUBSET Addresses :
          Cardinality(keys) = Size /\ channel_state_map \in [keys -> States]
    /\ score_count \in 0 .. MaxScoreCount
    /\ created \in 0 .. MaxChannels
    /\ pc \in [Threads -> {"idle", "calling", "reported", "done"}]
    /\ stub \in [Threads -> Channels \cup {NoStub}]
    /\ hopeless \subseteq Channels
    /\ crashed \in BOOLEAN

Init ==
    /\ operation \in Operations
    /\ channels \in
         {chs \in [Slots -> Channels] :
            \A i, k \in Slots :
               /\ chs[i].serial = i
               /\ chs[i].address = chs[k].address => i = k}
    /\ cursor = 1
    /\ channel_state_map = FreshMap(channels)
    /\ score_count = 0
    /\ created = Size
    /\ pc = [t \in Threads |-> "idle"]
    /\ stub = [t \in Threads |-> NoStub]
    /\ hopeless = {}
    /\ crashed = FALSE

\* The slot after the cursor's, in turn.
Advance == (cursor % Size) + 1

GetStorageStub(t) ==
    /\ pc[t] = "idle"
    /\ created < MaxChannels
    /\ cursor' = Advance
    /\ stub' = [stub EXCEPT ![t] = channels[cursor']]
    /\ pc' = [pc EXCEPT ![t] = "calling"]
    /\ UNCHANGED <<operation, pool, hopeless>>

-----------------------------------------------------------------------------
(* ReportResult *)

\* A channel lives as long as the pool or a stub has it.
Live == {channels[i].address : i \in Slots} \cup
        {stub[t].address : t \in {u \in Threads : stub[u] # NoStub}}

\* channel_creator_() replaces the channel of slot i.
Replace(i) ==
    \E a \in Addresses \ Live :
        /\ created < MaxChannels
        /\ created' = created + 1
        /\ channels' = [channels EXCEPT ![i] = [address |-> a, serial |-> created + 1]]

\* Wrong on purpose: the channel at the cursor is replaced, not the failed one.
EvictCursor(t) ==
    /\ Replace(cursor)
    /\ UNCHANGED <<channel_state_map, score_count, crashed>>

\* Wrong on purpose: the entry of the channel is erased.
EvictHopelessErases(t) ==
    /\ \/ \E i \in Slots : channels[i].address = stub[t].address /\ Replace(i)
       \/ /\ \A i \in Slots : channels[i].address # stub[t].address
          /\ UNCHANGED <<channels, created>>
    /\ channel_state_map' = [a \in DOMAIN channel_state_map \ {stub[t].address} |->
                                channel_state_map[a]]
    /\ UNCHANGED <<score_count, crashed>>

\* CANCELLED or DEADLINE_EXCEEDED: the channel goes, if the pool still has it.
\* Its entry in the map stays, and the new channel gets none.
EvictHopeless(t) ==
    /\ \/ \E i \in Slots : channels[i].address = stub[t].address /\ Replace(i)
       \/ /\ \A i \in Slots : channels[i].address # stub[t].address
          /\ UNCHANGED <<channels, created>>
    /\ UNCHANGED <<channel_state_map, score_count, crashed>>

\* The map once a call on the channel has transferred r: its address finds the entry.
Updated(channel, r) ==
    IF channel.address \in DOMAIN channel_state_map
    THEN [channel_state_map EXCEPT ![channel.address] =
            [count |-> @.count + 1,
             total_bytes |-> @.total_bytes + r.bytes,
             total_time |-> @.total_time + r.milliseconds,
             serials |-> @.serials \cup {channel.serial}]]
    ELSE channel_state_map

Scored(map) == {a \in DOMAIN map : map[a].count > 0}

Score(map, a) == map[a].total_bytes \div map[a].total_time

Fastest(map) ==
    {a \in Scored(map) : \A b \in Scored(map) : Score(map, b) <= Score(map, a)}

\* More than one when scores tie: the order of an unordered_map decides.
Slowest(map) ==
    {a \in Scored(map) : \A b \in Scored(map) : Score(map, a) <= Score(map, b)}

NoQuorum(map) == Cardinality(Scored(map)) < Cardinality(DOMAIN map) \div 2

\* Wrong on purpose: anything slower than the fastest is too slow.
UnderperformsAny(map) ==
    \E a \in Slowest(map), b \in Fastest(map) : Score(map, a) < Score(map, b)

Underperforms(map) ==
    \E a \in Slowest(map), b \in Fastest(map) : Score(map, a) < Score(map, b) \div 3

\* Wrong on purpose: the count starts over and the map does not.
StartOverKeepsMap ==
    /\ score_count' = 0
    /\ UNCHANGED channel_state_map

StartOver ==
    /\ score_count' = 0
    /\ channel_state_map' = FreshMap(channels')

\* The evaluation: too few channels tried yet, nobody to evict, or the slowest
\* channel goes if it is still in the pool.
Evaluate(map) ==
    \/ /\ \E a \in Scored(map) : map[a].total_time = 0
       /\ crashed' = TRUE
       /\ channel_state_map' = map
       /\ score_count' = score_count + 1
       /\ UNCHANGED <<channels, created>>
    \/ /\ \A a \in Scored(map) : map[a].total_time > 0
       /\ UNCHANGED crashed
       /\ \/ /\ NoQuorum(map)
             /\ channel_state_map' = map
             /\ score_count' = score_count + 1
             /\ UNCHANGED <<channels, created>>
          \/ /\ ~NoQuorum(map) /\ ~Underperforms(map)
             /\ UNCHANGED <<channels, created>>
             /\ StartOver
          \/ /\ ~NoQuorum(map) /\ Underperforms(map)
             /\ \E a \in Slowest(map) :
                   \/ \E i \in Slots : channels[i].address = a /\ Replace(i)
                   \/ /\ \A i \in Slots : channels[i].address # a
                      /\ UNCHANGED <<channels, created>>
             /\ StartOver

\* Wrong on purpose: the count is compared before it is incremented.
CountLate(t, r) ==
    LET map == Updated(stub[t], r) IN
    /\ score_count < MaxScoreCount
    /\ \/ /\ score_count <= ScoresPerChannel * Cardinality(DOMAIN map)
          /\ channel_state_map' = map
          /\ score_count' = score_count + 1
          /\ UNCHANGED <<channels, created, crashed>>
       \/ /\ score_count > ScoresPerChannel * Cardinality(DOMAIN map)
          /\ Evaluate(map)

\* A success: it is added to its channel's entry, and every so often, or as
\* long as there is no quorum, the channels are compared.
Count(t, r) ==
    LET map == Updated(stub[t], r) IN
    /\ score_count < MaxScoreCount
    /\ \/ /\ score_count + 1 <= ScoresPerChannel * Cardinality(DOMAIN map)
          /\ channel_state_map' = map
          /\ score_count' = score_count + 1
          /\ UNCHANGED <<channels, created, crashed>>
       \/ /\ score_count + 1 > ScoresPerChannel * Cardinality(DOMAIN map)
          /\ Evaluate(map)

ReportResult(t) ==
    /\ pc[t] = "calling"
    /\ \/ EvictHopeless(t) /\ hopeless' = hopeless \cup {stub[t]}
       \/ UNCHANGED <<pool, hopeless>>      \* any other error
       \/ /\ \E r \in Results : Count(t, r)
          /\ hopeless' = IF score_count' = 0 THEN {} ELSE hopeless
    /\ pc' = [pc EXCEPT ![t] = "reported"]
    /\ UNCHANGED <<operation, cursor, stub>>

-----------------------------------------------------------------------------
(* The threads between reports, as in RoundRobinPlusPool. *)

CallAgain(t) ==
    /\ pc[t] = "reported"
    /\ operation = "random-read"
    /\ pc' = [pc EXCEPT ![t] = "calling"]
    /\ UNCHANGED <<operation, cursor, pool, stub, hopeless>>

DropStub(t) ==
    /\ pc[t] = "reported"
    /\ stub' = [stub EXCEPT ![t] = NoStub]
    /\ pc' = [pc EXCEPT ![t] = IF operation = "random-read" THEN "done" ELSE "idle"]
    /\ UNCHANGED <<operation, cursor, pool, hopeless>>

Leave(t) ==
    /\ pc[t] = "idle"
    /\ pc' = [pc EXCEPT ![t] = "done"]
    /\ UNCHANGED <<operation, cursor, pool, stub, hopeless>>

StartResumableFails(t) ==
    /\ pc[t] = "calling"
    /\ operation = "resumable-write"
    /\ stub' = [stub EXCEPT ![t] = NoStub]
    /\ pc' = [pc EXCEPT ![t] = "done"]
    /\ UNCHANGED <<operation, cursor, pool, hopeless>>

Step(t) == GetStorageStub(t) \/ ReportResult(t) \/ CallAgain(t) \/ DropStub(t)
           \/ Leave(t) \/ StartResumableFails(t)

\* Every thread is done, or the process is gone.
Over ==
    /\ crashed \/ \A t \in Threads : pc[t] = "done"
    /\ UNCHANGED vars

Next == (~crashed /\ \E t \in Threads : Step(t)) \/ Over

Spec == Init /\ [][Next]_vars

-----------------------------------------------------------------------------
(* Properties *)

\* Every result an entry counts is one of a channel of the pool, or of one that was
\* reported hopeless: a channel that was evicted for its score, and is still called,
\* leaves nothing behind, not even for a later channel at its address.
EntriesTraced ==
    \A a \in DOMAIN channel_state_map :
        \A n \in channel_state_map[a].serials :
            LET channel == [address |-> a, serial |-> n]
            IN (\E i \in Slots : channels[i] = channel) \/ channel \in hopeless

\* The evaluation is late only for want of a quorum: otherwise it has happened,
\* and everybody started from zero again, or the process died in it.
EvaluatedOnTime == score_count > ScoresPerChannel * Size => crashed \/ NoQuorum(channel_state_map)

\* The entry of a channel's address scores less than a third of another, by calls on the
\* channel itself or on hopeless ones that had its address before: their entry stays.
TooSlow(map, channel) ==
    /\ \A a \in Scored(map) : map[a].total_time > 0
    /\ channel.address \in Scored(map)
    /\ \E a \in Scored(map) : Score(map, a) > 3 * Score(map, channel.address)
    /\ \A n \in map[channel.address].serials :
          n = channel.serial \/ [address |-> channel.address, serial |-> n] \in hopeless

\* A report replaces the channel it is about, and only when that is hopeless; a result
\* replaces a channel that is too slow once that result is counted.
EvictsOnlySlow ==
    [][\A t \in Threads, i \in Slots :
          pc[t] = "calling" /\ pc'[t] = "reported" /\ channels'[i] # channels[i]
          => /\ \/ \E r \in Results : Count(t, r)
                \/ channels[i] = stub[t] /\ stub[t] \in hopeless'
             /\ \A r \in Results : Count(t, r) => TooSlow(Updated(stub[t], r), channels[i])]_vars

\* "once the update counter exceeds the threadhold, it evaluates the last
\* performer": the channels that have been, or can still be, tried make a quorum.
QuorumReachable ==
    Cardinality({a \in DOMAIN channel_state_map :
                    \/ channel_state_map[a].count > 0
                    \/ \E i \in Slots : channels[i].address = a
                    \/ \E t \in Threads : pc[t] = "calling" /\ stub[t].address = a})
      >= Cardinality(DOMAIN channel_state_map) \div 2
================================================================================
