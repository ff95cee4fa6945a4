----------------------- MODULE RoundRobinPlusPoolProofs -----------------------
(***************************************************************************)
(* Theorems about RoundRobinPlusPool for any number of channels, threads    *)
(* and evictions.                                                           *)
(***************************************************************************)
EXTENDS RoundRobinPlusPool, FiniteSetTheorems, TLAPS

\* Among the channels alive an address names one channel, and a thread that is
\* calling or has reported holds one.
AddressesUnique ==
    /\ \A i, k \in Slots :
          channel_states[i].channel.address = channel_states[k].channel.address => i = k
    /\ \A t \in Threads, i \in Slots :
          stub[t] # NoStub /\ stub[t].address = channel_states[i].channel.address
          => stub[t] = channel_states[i].channel
    /\ \A t \in Threads : pc[t] \in {"calling", "reported"} => stub[t] # NoStub

\* Serial numbers are given out in order.
SerialsKnown ==
    /\ \A i \in Slots : channel_states[i].channel.serial <= created
    /\ \A t \in Threads : stub[t] # NoStub => stub[t].serial <= created
    /\ \A c \in hopeless : c.serial <= created

ChannelInv == TypeOK /\ AddressesUnique /\ SerialsKnown /\ HopelessGone

\* A channel is no stub's placeholder: its serial is positive.
LEMMA ChannelIsNotNoStub == NoStub \notin Channels
  BY DEF NoStub, Channels

\* What a report does to the pool, case by case.
LEMMA ReportCases ==
    ASSUME ChannelInv, NEW t \in Threads, ReportResult(t)
    PROVE  /\ stub[t] \in Channels
           /\ pc' = [pc EXCEPT ![t] = "reported"] /\ pc[t] = "calling"
           /\ stub' = stub
           /\ \/ \E i \in Slots :                                \* evicted
                    /\ channel_states[i].channel = stub[t]
                    /\ hopeless' = hopeless \cup {stub[t]}
                    /\ created' = created + 1 /\ created' \in 0 .. MaxChannels
                    /\ \E a \in Addresses \ Live :
                          channel_states' = [channel_states EXCEPT
                             ![i] = [channel |-> [address |-> a, serial |-> created + 1],
                                     in_use_count |-> 0]]
              \/ \E i \in Slots :                                \* given back
                    /\ channel_states[i].channel = stub[t]
                    /\ UNCHANGED <<hopeless, created>>
                    /\ channel_states' =
                         [channel_states EXCEPT ![i].in_use_count = @ - 1]
              \/ /\ \A i \in Slots : channel_states[i].channel # stub[t]
                 /\ hopeless' \in {hopeless, hopeless \cup {stub[t]}}
                 /\ UNCHANGED <<channel_states, created>>
  <1>1. stub[t] \in Channels /\ pc[t] = "calling"
    BY DEF ChannelInv, TypeOK, AddressesUnique, ReportResult
  <1>2. /\ pc' = [pc EXCEPT ![t] = "reported"]
        /\ stub' = stub
    BY DEF ReportResult
  <1>3. PICK is_hopeless \in BOOLEAN :
          /\ hopeless' = IF is_hopeless THEN hopeless \cup {stub[t]} ELSE hopeless
          /\ \/ \E i \in Slots :
                   /\ Found(i, stub[t])
                   /\ IF is_hopeless THEN Evict(i)
                                     ELSE ReleaseUse(i) /\ UNCHANGED created
             \/ /\ \A i \in Slots : ~Found(i, stub[t])
                /\ UNCHANGED <<channel_states, created>>
    BY DEF ReportResult
  <1>4. \A i \in Slots : Found(i, stub[t]) <=> channel_states[i].channel = stub[t]
    BY <1>1, ChannelIsNotNoStub, RoundRobinPlusPoolAssumption
       DEF Found, ChannelInv, AddressesUnique, Slots
  <1>5. ASSUME NEW i \in Slots, Found(i, stub[t]), is_hopeless, Evict(i)
        PROVE  /\ channel_states[i].channel = stub[t]
               /\ hopeless' = hopeless \cup {stub[t]}
               /\ created' = created + 1 /\ created' \in 0 .. MaxChannels
               /\ \E a \in Addresses \ Live :
                     channel_states' = [channel_states EXCEPT
                        ![i] = [channel |-> [address |-> a, serial |-> created + 1],
                                in_use_count |-> 0]]
    <2>1. created < MaxChannels /\ created' = created + 1
      BY <1>5 DEF Evict
    <2>2. created' \in 0 .. MaxChannels
      BY <2>1, RoundRobinPlusPoolAssumption DEF ChannelInv, TypeOK
    <2>3. QED
      BY <1>3, <1>4, <1>5, <2>1, <2>2 DEF Evict
  <1>6. ASSUME NEW i \in Slots, Found(i, stub[t]), ~is_hopeless, ReleaseUse(i),
               UNCHANGED created
        PROVE  /\ channel_states[i].channel = stub[t]
               /\ UNCHANGED <<hopeless, created>>
               /\ channel_states' = [channel_states EXCEPT ![i].in_use_count = @ - 1]
    BY <1>3, <1>4, <1>6 DEF ReleaseUse
  <1>7. QED
    BY <1>1, <1>2, <1>3, <1>4, <1>5, <1>6

\* What the threads do is fixed when the run starts.
LEMMA OperationIsConstant ==
    ASSUME [Next]_vars
    PROVE  operation' = operation
  BY DEF Next, vars, GetStorageStub, ReportResult, CallAgain, DropStub, Leave,
         StartResumableFails, Joined

\* A new channel's address is nobody's, so it shares it with no stub or slot.
LEMMA FreshAddress ==
    ASSUME NEW a \in Addresses \ Live
    PROVE  /\ \A i \in Slots : channel_states[i].channel.address # a
           /\ \A t \in Threads : stub[t] # NoStub => stub[t].address # a
  BY DEF Live

\* Every step keeps addresses unique, serial numbers known and hopeless channels out.
LEMMA NextKeepsChannelInv ==
    ASSUME ChannelInv, [Next]_vars
    PROVE  ChannelInv'
  <1> USE DEF ChannelInv
  <1>1. ASSUME NEW t \in Threads, GetStorageStub(t) PROVE ChannelInv'
    <2>1. PICK i \in Slots :
             /\ channel_states' = [channel_states EXCEPT ![i].in_use_count = @ + 1]
             /\ stub' = [stub EXCEPT ![t] = channel_states[i].channel]
      BY <1>1 DEF GetStorageStub
    <2>2. pc' = [pc EXCEPT ![t] = "calling"] /\ UNCHANGED <<created, hopeless>>
      BY <1>1 DEF GetStorageStub
    <2>3. channel_states[i].channel \in Channels /\ channel_states[i].in_use_count + 1 \in Int
      BY DEF TypeOK
    <2>4. TypeOK'
      BY <2>1, <2>2, <2>3, OperationIsConstant DEF TypeOK
    <2>5. \A k \in Slots : channel_states'[k].channel = channel_states[k].channel
      BY <2>1 DEF TypeOK
    <2>6. AddressesUnique'
      BY <2>1, <2>2, <2>3, <2>5, ChannelIsNotNoStub DEF AddressesUnique, TypeOK
    <2>7. SerialsKnown' /\ HopelessGone'
      BY <2>1, <2>2, <2>5 DEF SerialsKnown, HopelessGone, TypeOK
    <2>8. QED
      BY <2>4, <2>6, <2>7
  <1>2. ASSUME NEW t \in Threads, ReportResult(t) PROVE ChannelInv'
    <2> USE <1>2
    <2>1. CASE \E i \in Slots :
                  /\ channel_states[i].channel = stub[t]
                  /\ hopeless' = hopeless \cup {stub[t]}
                  /\ created' = created + 1 /\ created' \in 0 .. MaxChannels
                  /\ \E a \in Addresses \ Live :
                        channel_states' = [channel_states EXCEPT
                           ![i] = [channel |-> [address |-> a, serial |-> created + 1],
                                   in_use_count |-> 0]]
      <3>1. PICK i \in Slots, a \in Addresses \ Live :
               /\ channel_states[i].channel = stub[t]
               /\ hopeless' = hopeless \cup {stub[t]}
               /\ created' = created + 1 /\ created' \in 0 .. MaxChannels
               /\ channel_states' = [channel_states EXCEPT
                     ![i] = [channel |-> [address |-> a, serial |-> created + 1],
                             in_use_count |-> 0]]
        BY <2>1
      <3> DEFINE new == [address |-> a, serial |-> created + 1]
      <3>2. new \in Channels
        BY <3>1, RoundRobinPlusPoolAssumption DEF Channels, TypeOK
      <3>3. /\ channel_states'[i] = [channel |-> new, in_use_count |-> 0]
            /\ \A k \in Slots : k # i => channel_states'[k] = channel_states[k]
        BY <3>1 DEF TypeOK
      <3>4. /\ \A k \in Slots : channel_states[k].channel.address # a
            /\ \A u \in Threads : stub[u] # NoStub => stub[u].address # a
        BY FreshAddress
      <3>5. /\ pc[t] = "calling" /\ pc' = [pc EXCEPT ![t] = "reported"]
            /\ stub' = stub /\ stub[t] \in Channels
        BY ReportCases
      <3>6. TypeOK'
        BY <3>1, <3>2, <3>5, OperationIsConstant DEF TypeOK
      <3>7. AddressesUnique'
        BY <3>3, <3>4, <3>5 DEF AddressesUnique, TypeOK
      <3>8. SerialsKnown'
        BY <3>1, <3>3, <3>5, ChannelIsNotNoStub DEF SerialsKnown, TypeOK, Channels
      <3>9. HopelessGone'
        <4>1. new \notin hopeless'
          BY <3>1, <3>5, ChannelIsNotNoStub DEF SerialsKnown, TypeOK, Channels
        <4>2. \A k \in Slots : k # i => channel_states[k].channel # stub[t]
          BY <3>1 DEF AddressesUnique
        <4>3. QED
          BY <3>1, <3>3, <4>1, <4>2 DEF HopelessGone
      <3>10. QED
        BY <3>6, <3>7, <3>8, <3>9
    <2>2. CASE \E i \in Slots :
                  /\ channel_states[i].channel = stub[t]
                  /\ UNCHANGED <<hopeless, created>>
                  /\ channel_states' = [channel_states EXCEPT ![i].in_use_count = @ - 1]
      <3>1. PICK i \in Slots :
               channel_states' = [channel_states EXCEPT ![i].in_use_count = @ - 1]
        BY <2>2
      <3>2. /\ pc[t] = "calling" /\ pc' = [pc EXCEPT ![t] = "reported"]
            /\ stub' = stub /\ UNCHANGED <<hopeless, created>>
        BY <2>2, ReportCases
      <3>3. \A k \in Slots : channel_states'[k].channel = channel_states[k].channel
        BY <3>1 DEF TypeOK
      <3>4. TypeOK'
        BY <3>1, <3>2, OperationIsConstant DEF TypeOK
      <3>5. QED
        BY <3>2, <3>3, <3>4 DEF AddressesUnique, SerialsKnown, HopelessGone, TypeOK
    <2>3. CASE /\ \A i \in Slots : channel_states[i].channel # stub[t]
               /\ hopeless' \in {hopeless, hopeless \cup {stub[t]}}
               /\ UNCHANGED <<channel_states, created>>
      <3>1. /\ pc[t] = "calling" /\ pc' = [pc EXCEPT ![t] = "reported"]
            /\ stub' = stub /\ stub[t] \in Channels
        BY ReportCases
      <3>2. TypeOK' /\ AddressesUnique'
        BY <2>3, <3>1, OperationIsConstant DEF TypeOK, AddressesUnique
      <3>3. SerialsKnown' /\ HopelessGone'
        BY <2>3, <3>1, ChannelIsNotNoStub DEF SerialsKnown, HopelessGone
      <3>4. QED
        BY <3>2, <3>3
    <2>4. QED
      BY <2>1, <2>2, <2>3, ReportCases
  <1>3. ASSUME NEW t \in Threads, CallAgain(t) \/ DropStub(t) \/ Leave(t) \/ StartResumableFails(t)
        PROVE  ChannelInv'
    <2>1. /\ UNCHANGED <<channel_states, created, hopeless>>
          /\ stub' = stub \/ stub' = [stub EXCEPT ![t] = NoStub]
      BY <1>3 DEF CallAgain, DropStub, Leave, StartResumableFails
    <2>2. TypeOK'
      BY <1>3, <2>1, OperationIsConstant
         DEF CallAgain, DropStub, Leave, StartResumableFails, TypeOK
    <2>3. QED
      BY <1>3, <2>1, <2>2
         DEF CallAgain, DropStub, Leave, StartResumableFails, TypeOK,
             AddressesUnique, SerialsKnown, HopelessGone
  <1>4. CASE UNCHANGED vars
    BY <1>4 DEF vars, TypeOK, AddressesUnique, SerialsKnown, HopelessGone
  <1>5. QED
    BY <1>1, <1>2, <1>3, <1>4 DEF Next, Joined

\* At the start the channels of the slots are all there are.
LEMMA InitChannelInv == Init => ChannelInv
  <1> SUFFICES ASSUME Init PROVE ChannelInv
    OBVIOUS
  <1>1. TypeOK
    BY RoundRobinPlusPoolAssumption DEF Init, TypeOK, Slots
  <1>2. QED
    BY <1>1, RoundRobinPlusPoolAssumption
       DEF Init, ChannelInv, AddressesUnique, SerialsKnown, HopelessGone, Slots

\* The three facts about channels hold in every state.
LEMMA ChannelInvariant == Spec => []ChannelInv
  BY InitChannelInv, NextKeepsChannelInv, PTL DEF Spec

\* Types hold in every state.
THEOREM TypeCorrect == Spec => []TypeOK
  BY ChannelInvariant, PTL DEF ChannelInv

\* A channel reported hopeless never comes back, whichever way stubs are used.
THEOREM HopelessStaysGone == Spec => []HopelessGone
  BY ChannelInvariant, PTL DEF ChannelInv

\* A report only ever touches the slot of the channel its call ran on.
THEOREM ReportsHitTheirChannel == Spec => ReportsOwnChannel
  <1> DEFINE OwnOnly ==
        \A t \in Threads : pc[t] = "calling" /\ pc'[t] = "reported" =>
          \A i \in Slots : channel_states'[i] # channel_states[i] =>
             channel_states[i].channel = stub[t]
  <1>1. ChannelInv /\ [Next]_vars => [OwnOnly]_vars
    <2> SUFFICES ASSUME ChannelInv, [Next]_vars, NEW t \in Threads,
                        pc[t] = "calling", pc'[t] = "reported",
                        NEW i \in Slots, channel_states'[i] # channel_states[i]
                 PROVE  channel_states[i].channel = stub[t]
      OBVIOUS
    <2>1. ReportResult(t)
      BY DEF Next, GetStorageStub, ReportResult, CallAgain, DropStub, Leave,
             StartResumableFails, Joined, vars, ChannelInv, TypeOK
    <2>2. QED
      BY <2>1, ReportCases DEF ChannelInv, TypeOK
  <1>2. QED
    BY <1>1, ChannelInvariant, PTL DEF Spec, ReportsOwnChannel

-----------------------------------------------------------------------------
(* The counts, for clients that take a stub for each call. *)

\* Finitely many threads use a slot.
LEMMA UsersFinite ==
    \A i : IsFiniteSet(Users(i))
  <1>1. \A i : Users(i) \subseteq Threads
    BY DEF Users
  <1>2. QED
    BY <1>1, FS_Subset, RoundRobinPlusPoolAssumption

\* Every step of clients that read changes a count as it changes the users.
LEMMA NextKeepsCounts ==
    ASSUME operation = "read", ChannelInv, CountsMatch, [Next]_vars
    PROVE  CountsMatch'
  <1>1. ASSUME NEW t \in Threads, GetStorageStub(t) PROVE CountsMatch'
    <2>1. PICK i \in Slots :
             /\ channel_states' = [channel_states EXCEPT ![i].in_use_count = @ + 1]
             /\ stub' = [stub EXCEPT ![t] = channel_states[i].channel]
      BY <1>1 DEF GetStorageStub
    <2>2. pc[t] = "idle" /\ pc' = [pc EXCEPT ![t] = "calling"]
      BY <1>1 DEF GetStorageStub
    <2>3. \A k \in Slots : channel_states'[k].channel = channel_states[k].channel
      BY <2>1 DEF ChannelInv, TypeOK
    <2>4. Users(i)' = Users(i) \cup {t} /\ t \notin Users(i)
      BY <2>1, <2>2, <2>3 DEF Users, ChannelInv, TypeOK
    <2>5. ASSUME NEW k \in Slots, k # i PROVE Users(k)' = Users(k)
      <3>1. channel_states[k].channel # channel_states[i].channel
        BY <2>5 DEF ChannelInv, AddressesUnique
      <3>2. QED
        BY <2>1, <2>2, <2>3, <3>1 DEF Users, ChannelInv, TypeOK
    <2>6. Cardinality(Users(i)') = Cardinality(Users(i)) + 1
      BY <2>4, UsersFinite, FS_AddElement
    <2>7. QED
      BY <2>1, <2>5, <2>6 DEF CountsMatch, ChannelInv, TypeOK
  <1>2. ASSUME NEW t \in Threads, ReportResult(t) PROVE CountsMatch'
    <2> USE <1>2
    <2>1. /\ stub[t] \in Channels /\ pc[t] = "calling"
          /\ pc' = [pc EXCEPT ![t] = "reported"]
          /\ stub' = stub
      BY ReportCases
    <2>2. ASSUME NEW k \in Slots, channel_states'[k] = channel_states[k],
                 channel_states[k].channel # stub[t]
          PROVE  Users(k)' = Users(k)
      BY <2>1, <2>2 DEF Users, ChannelInv, TypeOK
    <2>3. ASSUME NEW i \in Slots, NEW k \in Slots, k # i,
                 channel_states[i].channel = stub[t]
          PROVE  channel_states[k].channel # stub[t]
      BY <2>3 DEF ChannelInv, AddressesUnique
    <2>4. ASSUME NEW i \in Slots, NEW a \in Addresses \ Live,
                 channel_states[i].channel = stub[t],
                 channel_states' = [channel_states EXCEPT
                    ![i] = [channel |-> [address |-> a, serial |-> created + 1],
                            in_use_count |-> 0]]
          PROVE  CountsMatch'
      <3>1. /\ channel_states'[i] = [channel |-> [address |-> a, serial |-> created + 1],
                                     in_use_count |-> 0]
            /\ \A k \in Slots : k # i => channel_states'[k] = channel_states[k]
        BY <2>4 DEF ChannelInv, TypeOK
      <3>2. \A u \in Threads : pc'[u] = "calling" => stub[u].address # a
        BY <2>1, FreshAddress DEF ChannelInv, AddressesUnique, TypeOK
      <3>3. Users(i)' = {}
        BY <2>1, <3>1, <3>2 DEF Users
      <3>4. Cardinality(Users(i)') = 0
        BY <3>3, FS_EmptySet
      <3>5. QED
        BY <2>2, <2>3, <2>4, <3>1, <3>4 DEF CountsMatch
    <2>5. ASSUME NEW i \in Slots, channel_states[i].channel = stub[t],
                 channel_states' = [channel_states EXCEPT ![i].in_use_count = @ - 1]
          PROVE  CountsMatch'
      <3>1. \A k \in Slots : channel_states'[k].channel = channel_states[k].channel
        BY <2>5 DEF ChannelInv, TypeOK
      <3>2. Users(i)' = Users(i) \ {t} /\ t \in Users(i)
        BY <2>1, <2>5, <3>1 DEF Users, ChannelInv, TypeOK
      <3>3. Cardinality(Users(i)') = Cardinality(Users(i)) - 1
        BY <3>2, UsersFinite, FS_RemoveElement
      <3>4. \A k \in Slots : k # i => channel_states'[k] = channel_states[k]
        BY <2>5 DEF ChannelInv, TypeOK
      <3>5. channel_states'[i].in_use_count = channel_states[i].in_use_count - 1
        BY <2>5 DEF ChannelInv, TypeOK
      <3>6. QED
        BY <2>2, <2>3, <2>5, <3>3, <3>4, <3>5 DEF CountsMatch
    <2>6. CASE UNCHANGED channel_states /\ \A i \in Slots : channel_states[i].channel # stub[t]
      BY <2>2, <2>6 DEF CountsMatch
    <2>7. QED
      BY <2>4, <2>5, <2>6, ReportCases
  <1>3. ASSUME NEW t \in Threads, DropStub(t) \/ Leave(t) PROVE CountsMatch'
    <2>1. UNCHANGED channel_states
      BY <1>3 DEF DropStub, Leave
    <2>2. \A i \in Slots : Users(i)' = Users(i)
      BY <1>3, <2>1 DEF DropStub, Leave, Users, ChannelInv, TypeOK
    <2>3. QED
      BY <2>1, <2>2 DEF CountsMatch
  <1>4. CASE UNCHANGED vars
    BY <1>4 DEF vars, CountsMatch, Users
  <1>5. ASSUME NEW t \in Threads, CallAgain(t) \/ StartResumableFails(t) PROVE FALSE
    BY <1>5 DEF CallAgain, StartResumableFails, StubPerCall
  <1>6. QED
    BY <1>1, <1>2, <1>3, <1>4, <1>5 DEF Next, Joined

\* The count of a slot is the number of calls in progress on its channel.
THEOREM CountsAreExact == Spec => []CountsMatch
  <1>1. Init => CountsMatch
    <2> SUFFICES ASSUME Init, NEW i \in Slots
                 PROVE  channel_states[i].in_use_count = Cardinality(Users(i))
      BY DEF CountsMatch
    <2>1. Users(i) = {}
      BY DEF Init, Users
    <2>2. channel_states[i].in_use_count = 0
      BY DEF Init
    <2>3. QED
      BY <2>1, <2>2, FS_EmptySet
  <1>2. ChannelInv /\ CountsMatch /\ [Next]_vars => CountsMatch'
    BY NextKeepsCounts, OperationIsConstant DEF CountsMatch
  <1>3. QED
    BY <1>1, <1>2, ChannelInvariant, PTL DEF Spec

\* A thread is given a channel with the fewest calls in progress.
THEOREM LeastUsedIsLeast == Spec => LeastUsed
  <1>1. ChannelInv /\ CountsMatch /\ [Next]_vars => [operation = "read" => GivesLeast]_vars
    <2> SUFFICES ASSUME ChannelInv, CountsMatch, [Next]_vars, operation = "read",
                        NEW t \in Threads, pc[t] = "idle", pc'[t] = "calling"
                 PROVE  \E i \in Slots :
                          /\ stub'[t] = channel_states[i].channel
                          /\ \A k \in Slots : Cardinality(Users(i)) <= Cardinality(Users(k))
      BY DEF GivesLeast
    <2>1. GetStorageStub(t)
      BY DEF Next, GetStorageStub, ReportResult, CallAgain, DropStub, Leave,
             StartResumableFails, Joined, vars, ChannelInv, TypeOK
    <2>2. PICK i \in Slots :
             /\ Least(i)
             /\ stub' = [stub EXCEPT ![t] = channel_states[i].channel]
      BY <2>1 DEF GetStorageStub
    <2>3. \A k \in Slots : Cardinality(Users(i)) <= Cardinality(Users(k))
      BY <2>2 DEF Least, CountsMatch
    <2>4. QED
      BY <2>2, <2>3 DEF ChannelInv, TypeOK
  <1>2. QED
    BY <1>1, ChannelInvariant, CountsAreExact, PTL DEF Spec, LeastUsed
===============================================================================
