---------------------- MODULE SmartRoundRobinPoolProofs -----------------------
(***************************************************************************)
(* Theorems about SmartRoundRobinPool for any number of channels, threads,  *)
(* addresses and evictions, and for any bytes and times that calls report.  *)
(***************************************************************************)
EXTENDS SmartRoundRobinPool, FiniteSetTheorems, TLAPS

\* Among the channels alive an address names one channel, and a thread that is
\* calling or has reported holds one.
AddressesUnique ==
    /\ \A i, k \in Slots : channels[i].address = channels[k].address => i = k
    /\ \A t \in Threads, i \in Slots :
          stub[t] # NoStub /\ stub[t].address = channels[i].address => stub[t] = channels[i]
    /\ \A t \in Threads : pc[t] \in {"calling", "reported"} => stub[t] # NoStub

\* A channel that a thread calls, and whose address has an entry, is a channel of the
\* pool or a hopeless one, so its results may go into that entry.
StubsTraced ==
    \A t \in Threads : stub[t] # NoStub /\ stub[t].address \in DOMAIN channel_state_map =>
        (\E i \in Slots : channels[i] = stub[t]) \/ stub[t] \in hopeless

SmartInv == TypeOK /\ AddressesUnique /\ EntriesTraced /\ StubsTraced /\ EvaluatedOnTime

\* EntriesTraced, of any map.
Traced(map) ==
    \A a \in DOMAIN map : \A n \in map[a].serials :
        LET channel == [address |-> a, serial |-> n]
        IN (\E i \in Slots : channels[i] = channel) \/ channel \in hopeless

\* A map with an entry for each of as many addresses as there are channels.
MapOK(map) ==
    \E keys \in SUBSET Addresses : Cardinality(keys) = Size /\ map \in [keys -> States]

\* The absence of a stub is not a channel.
LEMMA ChannelIsNotNoStub == NoStub \notin Channels
  BY DEF NoStub, Channels

-----------------------------------------------------------------------------
(* The map. *)

\* InitChannelStateMap makes one entry for each channel, since their addresses differ.
LEMMA FreshMapOK ==
    ASSUME NEW chs \in [Slots -> Channels],
           \A i, k \in Slots : chs[i].address = chs[k].address => i = k
    PROVE  MapOK(FreshMap(chs))
  <1> DEFINE keys == {chs[i].address : i \in Slots}
             f == [i \in Slots |-> chs[i].address]
  <1>1. keys \in SUBSET Addresses
    BY DEF Channels
  <1>2. f \in Bijection(Slots, keys)
    <2>1. f \in Injection(Slots, keys)
      BY DEF Injection, IsInjective
    <2>2. f \in Surjection(Slots, keys)
      BY DEF Surjection
    <2>3. QED
      BY <2>1, <2>2 DEF Bijection
  <1>3. IsFiniteSet(Slots) /\ Cardinality(Slots) = Size
    <2>1. 1 \in Int /\ Size \in Int /\ Size > 0
      BY SmartRoundRobinPoolAssumption
    <2>2. QED
      BY <2>1, FS_Interval DEF Slots
  <1> HIDE DEF keys, f
  <1>4. Cardinality(keys) = Size
    BY <1>2, <1>3, FS_Bijection DEF ExistsBijection
  <1>5. \A a \in keys :
           Untried({chs[i].serial : i \in {k \in Slots : chs[k].address = a}}) \in States
    BY DEF Untried, States, Channels
  <1>6. FreshMap(chs) \in [keys -> States]
    BY <1>5 DEF FreshMap, keys
  <1>7. QED
    BY <1>1, <1>4, <1>6 DEF MapOK

\* A report adds to an entry of the map, if there is one, within the types.
LEMMA UpdatedOK ==
    ASSUME MapOK(channel_state_map), NEW c \in Channels, NEW r \in Results
    PROVE  /\ MapOK(Updated(c, r)) /\ DOMAIN Updated(c, r) = DOMAIN channel_state_map
           /\ \A a \in DOMAIN channel_state_map :
                 Updated(c, r)[a].serials =
                    channel_state_map[a].serials \cup (IF a = c.address THEN {c.serial} ELSE {})
  <1>1. PICK keys \in SUBSET Addresses :
           Cardinality(keys) = Size /\ channel_state_map \in [keys -> States]
    BY DEF MapOK
  <1>2. r.bytes \in Nat /\ r.milliseconds \in Nat /\ c.serial \in 1 .. MaxChannels
    BY SmartRoundRobinPoolAssumption DEF Channels
  <1>3. CASE c.address \in keys
    <2> DEFINE old == channel_state_map[c.address]
               new == [count |-> old.count + 1, total_bytes |-> old.total_bytes + r.bytes,
                       total_time |-> old.total_time + r.milliseconds,
                       serials |-> old.serials \cup {c.serial}]
    <2>1. old \in States
      BY <1>1, <1>3
    <2>2. new \in States /\ new.serials = old.serials \cup {c.serial}
      BY <1>2, <2>1 DEF States
    <2>3. Updated(c, r) = [channel_state_map EXCEPT ![c.address] = new]
      BY <1>1, <1>3 DEF Updated
    <2> HIDE DEF new
    <2>4. /\ Updated(c, r) \in [keys -> States]
          /\ \A a \in keys : Updated(c, r)[a] = IF a = c.address THEN new ELSE channel_state_map[a]
      BY <1>1, <2>2, <2>3
    <2>5. QED
      BY <1>1, <1>3, <2>2, <2>4 DEF MapOK
  <1>4. CASE c.address \notin keys
    BY <1>1, <1>4 DEF Updated, MapOK
  <1>5. QED
    BY <1>3, <1>4

\* A report adds the result of a channel of the pool, or of a hopeless one.
LEMMA UpdatedTraced ==
    ASSUME SmartInv, NEW t \in Threads, stub[t] \in Channels, NEW r \in Results
    PROVE  /\ Traced(Updated(stub[t], r))
           /\ DOMAIN Updated(stub[t], r) = DOMAIN channel_state_map
  <1> DEFINE map == Updated(stub[t], r)
  <1>1. /\ DOMAIN map = DOMAIN channel_state_map
        /\ \A a \in DOMAIN channel_state_map :
              map[a].serials = channel_state_map[a].serials \cup
                                  (IF a = stub[t].address THEN {stub[t].serial} ELSE {})
    BY UpdatedOK DEF SmartInv, TypeOK, MapOK
  <1>2. /\ stub[t] = [address |-> stub[t].address, serial |-> stub[t].serial]
        /\ stub[t] # NoStub
    BY ChannelIsNotNoStub DEF Channels
  <1> HIDE DEF map
  <1>3. ASSUME NEW a \in DOMAIN map, NEW n \in map[a].serials
        PROVE  \/ \E i \in Slots : channels[i] = [address |-> a, serial |-> n]
               \/ [address |-> a, serial |-> n] \in hopeless
    <2>1. CASE n \in channel_state_map[a].serials
      BY <1>1, <2>1 DEF SmartInv, EntriesTraced
    <2>2. CASE a = stub[t].address /\ n = stub[t].serial
      BY <1>1, <1>2, <2>2 DEF SmartInv, StubsTraced
    <2>3. QED
      BY <1>1, <1>3, <2>1, <2>2
  <1>4. QED
    BY <1>1, <1>3 DEF Traced, map

\* What a fresh map knows is only the channels of the pool.
LEMMA FreshMapTraced ==
    ASSUME NEW chs \in [Slots -> Channels]
    PROVE  /\ DOMAIN FreshMap(chs) = {chs[i].address : i \in Slots}
           /\ \A a \in DOMAIN FreshMap(chs) : \A n \in FreshMap(chs)[a].serials :
                 \E i \in Slots : chs[i] = [address |-> a, serial |-> n]
  <1>1. DOMAIN FreshMap(chs) = {chs[i].address : i \in Slots}
    BY DEF FreshMap
  <1>2. ASSUME NEW a \in DOMAIN FreshMap(chs), NEW n \in FreshMap(chs)[a].serials
        PROVE  \E i \in Slots : chs[i] = [address |-> a, serial |-> n]
    <2>1. PICK i \in Slots : chs[i].address = a /\ chs[i].serial = n
      BY <1>1, <1>2 DEF FreshMap, Untried
    <2>2. chs[i] = [address |-> chs[i].address, serial |-> chs[i].serial]
      BY DEF Channels
    <2>3. QED
      BY <2>1, <2>2
  <1>3. QED
    BY <1>1, <1>2

\* The scores that an evaluation compares are numbers, if none divides by zero.
LEMMA ScoresAreNumbers ==
    ASSUME NEW map, MapOK(map), \A a \in Scored(map) : map[a].total_time > 0
    PROVE  \A a \in Scored(map) : Score(map, a) \in Nat
  <1> TAKE a \in Scored(map)
  <1>1. map[a] \in States
    BY DEF MapOK, Scored
  <1>2. map[a].total_bytes \in Nat /\ map[a].total_time \in Nat \ {0}
    BY <1>1 DEF States
  <1>3. \A b \in Nat, n \in Nat \ {0} : b \div n \in Nat
    OBVIOUS
  <1>4. QED
    BY <1>2, <1>3 DEF Score

-----------------------------------------------------------------------------
(* Steps. *)

\* A replaced slot gets a channel at an address nobody has.
LEMMA ReplaceDoes ==
    ASSUME SmartInv, NEW i \in Slots, Replace(i)
    PROVE  /\ created' \in 0 .. MaxChannels
           /\ channels' \in [Slots -> Channels]
           /\ \A k \in Slots : k # i => channels'[k] = channels[k]
           /\ channels'[i].address \in Addresses \ Live
  <1>1. PICK a \in Addresses \ Live :
           /\ created < MaxChannels /\ created' = created + 1
           /\ channels' = [channels EXCEPT ![i] = [address |-> a, serial |-> created + 1]]
    BY DEF Replace
  <1>2. /\ created \in 0 .. MaxChannels /\ channels \in [Slots -> Channels]
        /\ MaxChannels \in Nat
    BY SmartRoundRobinPoolAssumption DEF SmartInv, TypeOK
  <1>3. created + 1 \in 1 .. MaxChannels
    BY <1>1, <1>2
  <1>4. [address |-> a, serial |-> created + 1] \in Channels
    BY <1>3 DEF Channels
  <1>5. QED
    BY <1>1, <1>2, <1>3, <1>4

\* A channel that is created has an address of its own.
LEMMA ReplaceKeepsApart ==
    ASSUME SmartInv, NEW i \in Slots, Replace(i), stub' = stub,
           \A t \in Threads : pc'[t] \in {"calling", "reported"} =>
                                 pc[t] \in {"calling", "reported"}
    PROVE  AddressesUnique'
  <1>1. /\ \A k \in Slots : k # i => channels'[k] = channels[k]
        /\ channels'[i].address \notin Live
    BY ReplaceDoes
  <1>2. /\ \A k \in Slots : channels[k].address \in Live
        /\ \A t \in Threads : stub[t] # NoStub => stub[t].address \in Live
    BY DEF Live
  <1>3. AddressesUnique
    BY DEF SmartInv
  <1>4. QED
    BY <1>1, <1>2, <1>3 DEF AddressesUnique

\* What a success does, case by case.
LEMMA CountCases ==
    ASSUME SmartInv, NEW t \in Threads, stub[t] \in Channels,
           NEW r \in Results, Count(t, r),
           NEW map, map = Updated(stub[t], r)
    PROVE  /\ MapOK(map) /\ score_count' \in 0 .. MaxScoreCount
           /\ \/ /\ UNCHANGED <<channels, created>> /\ channel_state_map' = map
                 /\ score_count' # 0
                 /\ \/ UNCHANGED crashed /\ score_count' <= ScoresPerChannel * Size
                    \/ crashed' = TRUE
                    \/ UNCHANGED crashed /\ NoQuorum(map)
              \/ /\ UNCHANGED crashed
                 /\ score_count' = 0 /\ channel_state_map' = FreshMap(channels')
                 /\ \/ UNCHANGED <<channels, created>>
                    \/ /\ \A a \in Scored(map) : map[a].total_time > 0
                       /\ Underperforms(map)
                       /\ \E i \in Slots : channels[i].address \in Slowest(map) /\ Replace(i)
  <1>1. MapOK(map)
    BY UpdatedOK DEF SmartInv, TypeOK, MapOK
  <1>2. Cardinality(DOMAIN map) = Size
    BY <1>1 DEF MapOK
  <1>3. /\ score_count + 1 \in 0 .. MaxScoreCount /\ 0 \in 0 .. MaxScoreCount
        /\ score_count + 1 # 0
    BY SmartRoundRobinPoolAssumption DEF SmartInv, TypeOK, Count
  <1>4. CASE /\ score_count + 1 <= ScoresPerChannel * Cardinality(DOMAIN map)
             /\ channel_state_map' = map /\ score_count' = score_count + 1
             /\ UNCHANGED <<channels, created, crashed>>
    BY <1>1, <1>2, <1>3, <1>4
  <1>5. CASE Evaluate(map)
    <2>1. CASE /\ crashed' = TRUE /\ channel_state_map' = map
               /\ score_count' = score_count + 1
               /\ UNCHANGED <<channels, created>>
      BY <1>1, <1>3, <2>1
    <2>2. CASE /\ UNCHANGED crashed /\ NoQuorum(map) /\ channel_state_map' = map
               /\ score_count' = score_count + 1 /\ UNCHANGED <<channels, created>>
      BY <1>1, <1>3, <2>2
    <2>3. CASE UNCHANGED crashed /\ UNCHANGED <<channels, created>> /\ StartOver
      BY <1>1, <1>3, <2>3 DEF StartOver
    <2>4. CASE /\ \A a \in Scored(map) : map[a].total_time > 0
               /\ UNCHANGED crashed /\ Underperforms(map) /\ StartOver
               /\ \E i \in Slots : channels[i].address \in Slowest(map) /\ Replace(i)
      BY <1>1, <1>3, <2>4 DEF StartOver
    <2>5. QED
      BY <1>5, <2>1, <2>2, <2>3, <2>4 DEF Evaluate
  <1>6. QED
    BY <1>4, <1>5 DEF Count

\* What a report does, case by case.
LEMMA ReportCases ==
    ASSUME SmartInv, NEW t \in Threads, ReportResult(t)
    PROVE  /\ pc[t] = "calling" /\ pc' = [pc EXCEPT ![t] = "reported"] /\ stub' = stub
           /\ stub[t] \in Channels /\ UNCHANGED <<operation, cursor>>
           /\ \/ /\ hopeless' = hopeless \cup {stub[t]}
                 /\ UNCHANGED <<channel_state_map, score_count, crashed>>
                 /\ \/ \E i \in Slots : channels[i] = stub[t] /\ Replace(i)
                    \/ UNCHANGED <<channels, created>>
              \/ UNCHANGED <<pool, hopeless>>
              \/ /\ \E r \in Results : Count(t, r)
                 /\ hopeless' = IF score_count' = 0 THEN {} ELSE hopeless
  <1>1. pc[t] = "calling" /\ pc' = [pc EXCEPT ![t] = "reported"] /\ stub' = stub
        /\ UNCHANGED <<operation, cursor>>
    BY DEF ReportResult
  <1>2. stub[t] # NoStub /\ stub[t] \in Channels
    BY <1>1 DEF SmartInv, TypeOK, AddressesUnique
  <1>3. CASE EvictHopeless(t) /\ hopeless' = hopeless \cup {stub[t]}
    <2>1. \A i \in Slots : channels[i].address = stub[t].address => channels[i] = stub[t]
      BY <1>2 DEF SmartInv, AddressesUnique
    <2>2. /\ UNCHANGED <<channel_state_map, score_count, crashed>>
          /\ \/ \E i \in Slots : channels[i].address = stub[t].address /\ Replace(i)
             \/ UNCHANGED <<channels, created>>
      BY <1>3 DEF EvictHopeless
    <2>3. QED
      BY <1>1, <1>2, <1>3, <2>1, <2>2
  <1>4. CASE UNCHANGED <<pool, hopeless>>
    BY <1>1, <1>2, <1>4
  <1>5. CASE /\ \E r \in Results : Count(t, r)
             /\ hopeless' = IF score_count' = 0 THEN {} ELSE hopeless
    BY <1>1, <1>2, <1>5
  <1>6. QED
    BY <1>3, <1>4, <1>5 DEF ReportResult

-----------------------------------------------------------------------------
(* The invariant. *)

\* At the start every slot has a channel of its own, with an entry in the map.
LEMMA InitHolds ==
    ASSUME Init
    PROVE  SmartInv
  <1>1. /\ channels \in [Slots -> Channels]
        /\ \A i, k \in Slots : channels[i].address = channels[k].address => i = k
    BY DEF Init
  <1>2. MapOK(channel_state_map)
    BY <1>1, FreshMapOK DEF Init
  <1>3. TypeOK
    <2>1. 1 \in Slots /\ 0 \in 0 .. MaxScoreCount /\ Size \in 0 .. MaxChannels
      BY SmartRoundRobinPoolAssumption DEF Slots
    <2>2. QED
      BY <1>1, <1>2, <2>1 DEF Init, TypeOK, MapOK
  <1>4. AddressesUnique
    BY <1>1 DEF Init, AddressesUnique
  <1>5. EntriesTraced /\ StubsTraced
    <2> DEFINE fresh == FreshMap(channels)
    <2>1. \A a \in DOMAIN fresh : \A n \in fresh[a].serials :
             \E i \in Slots : channels[i] = [address |-> a, serial |-> n]
      BY <1>1, FreshMapTraced
    <2>2. channel_state_map = fresh /\ \A t \in Threads : stub[t] = NoStub
      BY DEF Init
    <2> HIDE DEF fresh
    <2>3. EntriesTraced
      BY <2>1, <2>2 DEF EntriesTraced
    <2>4. StubsTraced
      BY <2>2 DEF StubsTraced
    <2>5. QED
      BY <2>3, <2>4
  <1>6. EvaluatedOnTime
    <2>1. ~(score_count > ScoresPerChannel * Size)
      BY SmartRoundRobinPoolAssumption DEF Init
    <2>2. QED
      BY <2>1 DEF EvaluatedOnTime
  <1>7. QED
    BY <1>3, <1>4, <1>5, <1>6 DEF SmartInv

\* The steps that leave the pool alone.
LEMMA PoolUntouched ==
    ASSUME SmartInv, UNCHANGED <<operation, pool, hopeless>>, cursor' \in Slots,
           pc' \in [Threads -> {"idle", "calling", "reported", "done"}],
           stub' \in [Threads -> Channels \cup {NoStub}],
           \A t \in Threads : \/ stub'[t] = stub[t] \/ stub'[t] = NoStub
                              \/ \E i \in Slots : stub'[t] = channels[i],
           \A t \in Threads : pc'[t] \in {"calling", "reported"} => stub'[t] # NoStub
    PROVE  SmartInv'
  <1>1. UNCHANGED <<channels, channel_state_map, score_count, created, crashed>>
    BY DEF pool
  <1>2. TypeOK'
    BY <1>1 DEF SmartInv, TypeOK
  <1>3. AddressesUnique'
    <2>1. AddressesUnique
      BY DEF SmartInv
    <2>2. \A t \in Threads, i \in Slots :
             stub'[t] # NoStub /\ stub'[t].address = channels[i].address => stub'[t] = channels[i]
      BY <2>1 DEF AddressesUnique
    <2>3. QED
      BY <1>1, <2>1, <2>2 DEF AddressesUnique
  <1>4. EntriesTraced' /\ StubsTraced'
    <2>1. EntriesTraced /\ StubsTraced
      BY DEF SmartInv
    <2>2. EntriesTraced'
      BY <1>1, <2>1 DEF EntriesTraced
    <2>3. StubsTraced'
      BY <1>1, <2>1 DEF StubsTraced
    <2>4. QED
      BY <2>2, <2>3
  <1>5. EvaluatedOnTime'
    BY <1>1 DEF SmartInv, EvaluatedOnTime, NoQuorum, Scored
  <1>6. QED
    BY <1>2, <1>3, <1>4, <1>5 DEF SmartInv

\* A report keeps the invariant, whatever it evaluates or replaces.
LEMMA ReportStep ==
    ASSUME SmartInv, ~crashed, NEW t \in Threads, ReportResult(t)
    PROVE  SmartInv'
  <1>1. /\ pc[t] = "calling" /\ pc' = [pc EXCEPT ![t] = "reported"] /\ stub' = stub
        /\ stub[t] \in Channels /\ UNCHANGED <<operation, cursor>>
    BY ReportCases
  <1>2. TypeOK /\ AddressesUnique /\ EvaluatedOnTime
    BY DEF SmartInv
  <1>3. /\ pc' \in [Threads -> {"idle", "calling", "reported", "done"}]
        /\ \A u \in Threads : pc'[u] \in {"calling", "reported"} => pc[u] \in {"calling", "reported"}
    BY <1>1, <1>2 DEF TypeOK
  <1>4. /\ channels' \in [Slots -> Channels] /\ created' \in 0 .. MaxChannels
        /\ AddressesUnique'
        /\ \A i, k \in Slots : channels'[i].address = channels'[k].address => i = k
    <2>1. CASE UNCHANGED <<channels, created>>
      BY <1>1, <1>2, <1>3, <2>1 DEF TypeOK, AddressesUnique
    <2>2. CASE \E i \in Slots : Replace(i)
      <3>1. PICK i \in Slots : Replace(i)
        BY <2>2
      <3>2. AddressesUnique'
        BY <1>1, <1>3, <3>1, ReplaceKeepsApart
      <3>3. channels' \in [Slots -> Channels] /\ created' \in 0 .. MaxChannels
        BY <3>1, ReplaceDoes
      <3>4. QED
        BY <3>2, <3>3 DEF AddressesUnique
    <2>3. ASSUME NEW r \in Results, Count(t, r)
          PROVE  UNCHANGED <<channels, created>> \/ \E i \in Slots : Replace(i)
      <3> DEFINE map == Updated(stub[t], r)
      <3>1. map = Updated(stub[t], r)
        OBVIOUS
      <3> HIDE DEF map
      <3>2. QED
        BY <1>1, <2>3, <3>1, CountCases
    <2>4. QED
      BY <2>1, <2>2, <2>3, ReportCases DEF pool
  <1>5. ASSUME UNCHANGED <<channel_state_map, score_count, crashed>>,
               hopeless' \in {hopeless, hopeless \cup {stub[t]}},
               \A i \in Slots : channels'[i] = channels[i] \/ channels[i] \in hopeless'
        PROVE  SmartInv'
    <2>1. TypeOK'
      BY <1>1, <1>2, <1>3, <1>4, <1>5 DEF TypeOK
    <2>2. EntriesTraced' /\ StubsTraced'
      <3>1. EntriesTraced /\ StubsTraced
        BY DEF SmartInv
      <3>2. \A c : (\E i \in Slots : channels[i] = c) \/ c \in hopeless =>
                      (\E i \in Slots : channels'[i] = c) \/ c \in hopeless'
        BY <1>5
      <3>3. EntriesTraced'
        BY <1>5, <3>1, <3>2 DEF EntriesTraced
      <3>4. StubsTraced'
        BY <1>1, <1>5, <3>1, <3>2 DEF StubsTraced
      <3>5. QED
        BY <3>3, <3>4
    <2>3. EvaluatedOnTime'
      BY <1>2, <1>5 DEF EvaluatedOnTime, NoQuorum, Scored
    <2>4. QED
      BY <1>4, <2>1, <2>2, <2>3 DEF SmartInv
  <1>6. ASSUME NEW r \in Results, Count(t, r),
               hopeless' = IF score_count' = 0 THEN {} ELSE hopeless
        PROVE  SmartInv'
    <2> DEFINE map == Updated(stub[t], r)
    <2>1. map = Updated(stub[t], r)
      OBVIOUS
    <2>2. Traced(map) /\ DOMAIN map = DOMAIN channel_state_map
      BY <1>1, UpdatedTraced
    <2> HIDE DEF map
    <2>3. MapOK(map) /\ score_count' \in 0 .. MaxScoreCount
      BY <1>1, <1>6, <2>1, CountCases
    <2>4. /\ MapOK(channel_state_map') /\ crashed' \in BOOLEAN
          /\ EntriesTraced' /\ StubsTraced' /\ EvaluatedOnTime'
      <3>1. CASE /\ channels' = channels /\ channel_state_map' = map /\ score_count' # 0
                 /\ \/ crashed' = crashed /\ score_count' <= ScoresPerChannel * Size
                    \/ crashed' = TRUE
                    \/ crashed' = crashed /\ NoQuorum(map)
        <4>1. EntriesTraced'
          BY <1>6, <2>2, <3>1 DEF EntriesTraced, Traced
        <4>2. StubsTraced'
          BY <1>1, <1>6, <2>2, <3>1 DEF SmartInv, StubsTraced
        <4>3. EvaluatedOnTime'
          <5>1. score_count' <= ScoresPerChannel * Size => ~(score_count' > ScoresPerChannel * Size)
            BY <2>3, SmartRoundRobinPoolAssumption
          <5>2. QED
            BY <3>1, <5>1 DEF EvaluatedOnTime, NoQuorum, Scored
        <4>4. QED
          BY <1>2, <2>3, <3>1, <4>1, <4>2, <4>3 DEF TypeOK
      <3>2. CASE crashed' = crashed /\ score_count' = 0 /\ channel_state_map' = FreshMap(channels')
        <4>1. MapOK(channel_state_map')
          BY <1>4, <3>2, FreshMapOK
        <4>2. ~(score_count' > ScoresPerChannel * Size)
          BY <3>2, SmartRoundRobinPoolAssumption
        <4>3. EntriesTraced'
          <5>1. \A a \in DOMAIN FreshMap(channels') : \A n \in FreshMap(channels')[a].serials :
                   \E i \in Slots : channels'[i] = [address |-> a, serial |-> n]
            BY <1>4, FreshMapTraced
          <5> DEFINE fresh == FreshMap(channels')
          <5> HIDE DEF fresh
          <5>2. \A a \in DOMAIN fresh : \A n \in fresh[a].serials :
                   \E i \in Slots : channels'[i] = [address |-> a, serial |-> n]
            BY <5>1 DEF fresh
          <5>3. channel_state_map' = fresh
            BY <3>2 DEF fresh
          <5>4. QED
            BY <5>2, <5>3 DEF EntriesTraced
        <4>4. StubsTraced'
          <5>1. DOMAIN channel_state_map' = {channels'[i].address : i \in Slots}
            BY <1>4, <3>2, FreshMapTraced
          <5>2. QED
            BY <1>4, <5>1 DEF StubsTraced, AddressesUnique
        <4>5. QED
          BY <1>2, <3>2, <4>1, <4>2, <4>3, <4>4 DEF TypeOK, EvaluatedOnTime
      <3>3. QED
        BY <1>1, <1>6, <2>1, <3>1, <3>2, CountCases
    <2>5. hopeless' \subseteq Channels
      BY <1>2, <1>6 DEF TypeOK
    <2>6. TypeOK'
      BY <1>1, <1>2, <1>3, <1>4, <2>3, <2>4, <2>5 DEF TypeOK, MapOK
    <2>7. QED
      BY <1>4, <2>4, <2>6 DEF SmartInv
  <1>7. CASE /\ hopeless' = hopeless \cup {stub[t]}
             /\ UNCHANGED <<channel_state_map, score_count, crashed>>
             /\ \/ \E i \in Slots : channels[i] = stub[t] /\ Replace(i)
                \/ UNCHANGED <<channels, created>>
    <2>1. \A k \in Slots : channels'[k] = channels[k] \/ channels[k] \in hopeless'
      BY <1>7, ReplaceDoes
    <2>2. QED
      BY <1>5, <1>7, <2>1
  <1>8. CASE UNCHANGED <<pool, hopeless>>
    BY <1>5, <1>8 DEF pool
  <1>9. QED
    BY <1>6, <1>7, <1>8, ReportCases

\* Every step keeps the invariant.
LEMMA InvariantStep ==
    ASSUME SmartInv, [Next]_vars
    PROVE  SmartInv'
  <1>1. TypeOK /\ AddressesUnique
    BY DEF SmartInv
  <1>2. CASE UNCHANGED vars
    BY <1>1, <1>2, PoolUntouched DEF vars, TypeOK, AddressesUnique
  <1>3. ASSUME ~crashed, NEW t \in Threads, GetStorageStub(t)
        PROVE  SmartInv'
    <2>1. /\ UNCHANGED <<operation, pool, hopeless>> /\ pc' = [pc EXCEPT ![t] = "calling"]
          /\ stub' = [stub EXCEPT ![t] = channels[cursor']]
      BY <1>3 DEF GetStorageStub
    <2>2. cursor' \in Slots
      BY <1>1, <1>3, SmartRoundRobinPoolAssumption DEF GetStorageStub, Advance, TypeOK, Slots
    <2>3. channels[cursor'] \in Channels /\ channels[cursor'] # NoStub
      BY <1>1, <2>2, ChannelIsNotNoStub DEF TypeOK
    <2>4. /\ pc' \in [Threads -> {"idle", "calling", "reported", "done"}]
          /\ stub' \in [Threads -> Channels \cup {NoStub}]
          /\ \A u \in Threads : stub'[u] = stub[u] \/ stub'[u] = channels[cursor']
          /\ \A u \in Threads : pc'[u] \in {"calling", "reported"} => stub'[u] # NoStub
      BY <1>1, <2>1, <2>3 DEF TypeOK, AddressesUnique
    <2>5. QED
      BY <2>1, <2>2, <2>4, PoolUntouched
  <1>4. ASSUME ~crashed, NEW t \in Threads, ReportResult(t)
        PROVE  SmartInv'
    BY <1>4, ReportStep
  <1>5. ASSUME NEW t \in Threads,
               CallAgain(t) \/ DropStub(t) \/ Leave(t) \/ StartResumableFails(t)
        PROVE  SmartInv'
    <2>1. /\ UNCHANGED <<operation, pool, hopeless, cursor>>
          /\ \/ /\ stub' = stub /\ pc[t] \in {"reported", "idle"}
                /\ pc' = [pc EXCEPT ![t] = IF pc[t] = "idle" THEN "done" ELSE "calling"]
             \/ /\ stub' = [stub EXCEPT ![t] = NoStub]
                /\ \E label \in {"idle", "done"} : pc' = [pc EXCEPT ![t] = label]
      BY <1>5 DEF CallAgain, DropStub, Leave, StartResumableFails
    <2>2. /\ cursor' \in Slots
          /\ pc' \in [Threads -> {"idle", "calling", "reported", "done"}]
          /\ stub' \in [Threads -> Channels \cup {NoStub}]
          /\ \A u \in Threads : stub'[u] = stub[u] \/ stub'[u] = NoStub
          /\ \A u \in Threads : pc'[u] \in {"calling", "reported"} => stub'[u] # NoStub
      BY <1>1, <2>1 DEF TypeOK, AddressesUnique
    <2>3. QED
      BY <2>1, <2>2, PoolUntouched
  <1>6. QED
    BY <1>2, <1>3, <1>4, <1>5 DEF Next, Step, Over

\* In every state: no two live channels share an address, a thread with a call has a
\* stub, every result in the map is one of a channel of the pool or of a hopeless one, and
\* there are no more scores since the last evaluation than the threshold unless the map
\* has no quorum or the process has died.
THEOREM PoolInvariant == Spec => []SmartInv
  <1>1. Init => SmartInv
    BY InitHolds
  <1>2. SmartInv /\ [Next]_vars => SmartInv'
    BY InvariantStep
  <1>3. QED
    BY <1>1, <1>2, PTL DEF Spec

\* The map keeps as many entries as there are channels, though hopeless evictions
\* leave entries of channels that are gone.
THEOREM TypeCorrect == Spec => []TypeOK
  <1>1. SmartInv => TypeOK
    BY DEF SmartInv
  <1>2. QED
    BY <1>1, PoolInvariant, PTL

\* What the map counts are calls on channels of the pool, or on channels reported
\* hopeless since the map was made.
THEOREM MapIsTraced == Spec => []EntriesTraced
  <1>1. SmartInv => EntriesTraced
    BY DEF SmartInv
  <1>2. QED
    BY <1>1, PoolInvariant, PTL

\* An evaluation is put off only for want of a quorum.
THEOREM EvaluationOnTime == Spec => []EvaluatedOnTime
  <1>1. SmartInv => EvaluatedOnTime
    BY DEF SmartInv
  <1>2. QED
    BY <1>1, PoolInvariant, PTL

\* A channel goes for a hopeless error of its own, or because another entry is more than
\* three times as fast as its own, which counts calls on it, or on hopeless channels that
\* had its address before.
THEOREM OnlySlowEvicted == Spec => EvictsOnlySlow
  <1> DEFINE Good(t, i) ==
          /\ \/ \E r \in Results : Count(t, r)
             \/ channels[i] = stub[t] /\ stub[t] \in hopeless'
          /\ \A r \in Results : Count(t, r) => TooSlow(Updated(stub[t], r), channels[i])
  <1>1. ASSUME SmartInv, [Next]_vars, NEW t \in Threads, NEW i \in Slots,
               pc[t] = "calling", pc'[t] = "reported", channels'[i] # channels[i]
        PROVE  Good(t, i)
    <2>1. ReportResult(t)
      <3>1. \A u \in Threads : ReportResult(u) => u = t
        BY <1>1 DEF SmartInv, TypeOK, ReportResult
      <3>2. \E u \in Threads : ReportResult(u)
        BY <1>1 DEF Next, Step, Over, vars, pool, GetStorageStub, CallAgain, DropStub, Leave,
                    StartResumableFails
      <3>3. QED
        BY <3>1, <3>2
    <2>2. \A k \in Slots : Replace(k) => k = i
      BY <1>1, ReplaceDoes
    <2>3. stub[t] \in Channels
      BY <1>1, <2>1, ReportCases
    <2>4. \/ channels[i] = stub[t] /\ stub[t] \in hopeless'
          \/ \E r \in Results : Count(t, r)
      <3>1. CASE /\ hopeless' = hopeless \cup {stub[t]}
                 /\ \E k \in Slots : channels[k] = stub[t] /\ Replace(k)
        BY <2>2, <3>1
      <3>2. QED
        BY <1>1, <2>1, <3>1, ReportCases DEF pool
    <2>5. ASSUME NEW r \in Results, Count(t, r), NEW map, map = Updated(stub[t], r)
          PROVE  TooSlow(map, channels[i])
      <3>1. /\ MapOK(map) /\ \A a \in Scored(map) : map[a].total_time > 0
            /\ Underperforms(map) /\ channels[i].address \in Slowest(map)
        BY <1>1, <2>2, <2>3, <2>5, CountCases
      <3>2. \A a \in Scored(map) : Score(map, a) \in Nat
        BY <3>1, ScoresAreNumbers
      <3>3. PICK a \in Slowest(map), b \in Fastest(map) : Score(map, a) < Score(map, b) \div 3
        BY <3>1 DEF Underperforms
      <3> DEFINE c == channels[i].address
      <3>4. a \in Scored(map) /\ b \in Scored(map) /\ c \in Scored(map)
            /\ Score(map, c) <= Score(map, a)
        BY <3>1, <3>3 DEF Slowest, Fastest
      <3>5. Score(map, b) > 3 * Score(map, c)
        <4>1. \A x, y, z \in Nat : z <= x /\ x < y \div 3 => y > 3 * z
          OBVIOUS
        <4>2. QED
          BY <3>2, <3>3, <3>4, <4>1
      <3>6. \A n \in map[c].serials :
               n = channels[i].serial \/ [address |-> c, serial |-> n] \in hopeless
        <4> TAKE n \in map[c].serials
        <4>1. Traced(map) /\ c \in DOMAIN map
          BY <1>1, <2>3, <2>5, <3>4, UpdatedTraced DEF Scored
        <4>2. ASSUME NEW k \in Slots, channels[k] = [address |-> c, serial |-> n]
              PROVE  n = channels[i].serial
          <5>1. channels[k].address = channels[i].address /\ channels[k].serial = n
            BY <4>2
          <5>2. k = i
            BY <1>1, <5>1 DEF SmartInv, AddressesUnique
          <5>3. QED
            BY <5>1, <5>2
        <4>3. QED
          BY <4>1, <4>2 DEF Traced
      <3>7. QED
        BY <3>1, <3>4, <3>5, <3>6 DEF TooSlow
    <2>6. QED
      BY <2>4, <2>5
  <1>2. SmartInv /\ [Next]_vars =>
           [\A t \in Threads, i \in Slots :
               pc[t] = "calling" /\ pc'[t] = "reported" /\ channels'[i] # channels[i]
               => Good(t, i)]_vars
    <2> HIDE DEF Good
    <2>1. QED
      BY <1>1
  <1>3. QED
    BY <1>2, PoolInvariant, PTL DEF Spec, EvictsOnlySlow
===============================================================================
