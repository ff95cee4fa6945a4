------------------------- MODULE ChannelManagerProofs -------------------------
(***************************************************************************)
(* Theorems about ChannelManager for any number of channels, threads, runs  *)
(* and retries, as long as a size_t can count the threads.                  *)
(***************************************************************************)
EXTENDS ChannelManager, FiniteSetTheorems, SequenceTheorems, WellFoundedInduction, TLAPS

\* The channels of the pool are numbered as they were made, and every handle's
\* channel is one of them.
ChannelsNumbered ==
    /\ \A i \in Pool : channel_states[i].channel = i
    /\ \A t \in Threads : handle[t] \in 0 .. Len(channel_states)

Holders == {t \in Threads : handle[t] # 0}

\* An RPC is made in an attempt of a run, and the attempt lasts as long as its handle.
InAttempt == \A t \in Threads : pc[t] \in {"calling", "rpc_done"} => HasAttempt(t)

\* main() is past the join only when all the threads are.
JoinedFinished == main # "running" => \A t \in Threads : pc[t] = "finished"

ManagerInv ==
    /\ TypeOK
    /\ ChannelsNumbered
    /\ channel_handle_count = Cardinality(Holders)
    /\ InAttempt
    /\ JoinedFinished
    /\ InUseExact
    /\ PoolBoundedWhileHealthy

-----------------------------------------------------------------------------
(* Facts about numbers and sets. *)

\* Numbers have a least one.
LEMMA NatSetHasMin ==
    ASSUME NEW S \in SUBSET Nat, S # {}
    PROVE  \E m \in S : \A k \in S : m <= k
  <1> DEFINE R == {ss \in Nat \X Nat : ss[1] < ss[2]}
  <1>1. IsWellFoundedOn(R, Nat)
    BY NatLessThanWellFounded DEF OpToRel
  <1> HIDE DEF R
  <1>2. PICK m \in S : \A k \in S : ~(<<k, m>> \in R)
    BY <1>1, WFMin
  <1>3. \A k \in S : ~(k < m)
    BY <1>2 DEF R
  <1>4. QED
    BY <1>3

\* One thread joins or leaves a set of threads.
LEMMA SetOfThreadsGrows ==
    ASSUME NEW S \in SUBSET Threads, NEW t \in Threads, t \notin S
    PROVE  /\ Cardinality(S \cup {t}) = Cardinality(S) + 1
           /\ Cardinality(S) \in 0 .. SizeMax - 1
  <1>1. IsFiniteSet(S) /\ Cardinality(S) \in Nat
    BY FS_Subset, FS_CardinalityType, ChannelManagerAssumption
  <1>2. Cardinality(S \cup {t}) = Cardinality(S) + 1
    BY <1>1, FS_AddElement
  <1>3. Cardinality(S \cup {t}) <= Cardinality(Threads) /\ Cardinality(Threads) \in Nat
    BY FS_Subset, FS_CardinalityType, ChannelManagerAssumption
  <1>4. QED
    BY <1>1, <1>2, <1>3, ChannelManagerAssumption

\* Taking a thread out of a set takes one off its size, which stays in a size_t.
LEMMA SetOfThreadsShrinks ==
    ASSUME NEW S \in SUBSET Threads, NEW t \in S
    PROVE  /\ Cardinality(S \ {t}) = Cardinality(S) - 1
           /\ Cardinality(S) \in 1 .. SizeMax
           /\ Cardinality(S \ {t}) \in 0 .. SizeMax - 1
  <1>1. t \notin S \ {t} /\ S = (S \ {t}) \cup {t}
    OBVIOUS
  <1>2. /\ Cardinality(S) = Cardinality(S \ {t}) + 1
        /\ Cardinality(S \ {t}) \in 0 .. SizeMax - 1
    BY <1>1, SetOfThreadsGrows
  <1>3. QED
    BY <1>2, ChannelManagerAssumption

-----------------------------------------------------------------------------
(* The choice of a channel. *)

\* What the pool holds.
LEMMA PoolTypes ==
    ASSUME TypeOK
    PROVE  /\ Len(channel_states) \in Nat /\ Pool \subseteq Nat \ {0}
           /\ \A i \in Pool :
                 /\ channel_states[i] \in [channel : Channels, in_use_count : 0 .. SizeMax]
                 /\ channel_states[i].channel \in Channels
                 /\ channel_states[i].in_use_count \in 0 .. SizeMax
                 /\ channel_states[i].in_use_count \in Nat
  <1> USE DEF TypeOK, Pool
  <1>1. Len(channel_states) \in Nat /\ Pool \subseteq Nat \ {0}
    OBVIOUS
  <1>2. \A i \in Pool :
          channel_states[i] \in [channel : Channels, in_use_count : 0 .. SizeMax]
    BY ElementOfSeq
  <1>3. QED
    BY <1>1, <1>2, ChannelManagerAssumption

\* A pool in which some channel's count is below SIZE_MAX has a candidate.
LEMMA CandidateExists ==
    ASSUME TypeOK, NEW k \in Pool, channel_states[k].in_use_count < SizeMax
    PROVE  Candidate # {}
  <1> DEFINE count(i) == channel_states[i].in_use_count
             Counts == {count(i) : i \in Pool}
  <1>1. Pool \subseteq Nat /\ \A i \in Pool : count(i) \in Nat
    BY PoolTypes
  <1>2. PICK least \in Counts : \A c \in Counts : least <= c
    <2>1. Counts \in SUBSET Nat /\ Counts # {}
      BY <1>1
    <2>2. QED
      BY <2>1, NatSetHasMin
  <1> DEFINE First == {i \in Pool : count(i) = least}
  <1>3. PICK i \in First : \A j \in First : i <= j
    <2>1. First \in SUBSET Nat /\ First # {}
      BY <1>1, <1>2
    <2>2. QED
      BY <2>1, NatSetHasMin
  <1>4. /\ i \in Pool /\ count(i) = least
        /\ least \in Nat /\ \A j \in Pool : count(j) \in Nat /\ least <= count(j)
    BY <1>1, <1>2, <1>3
  <1>5. \A j \in Pool : j < i => count(i) < count(j)
    <2>1. \A j \in Pool : count(j) = least => i <= j
      BY <1>3
    <2> HIDE DEF count
    <2>2. QED
      BY <1>1, <1>4, <2>1
  <1>6. count(i) < SizeMax
    BY <1>4, ChannelManagerAssumption
  <1>7. i \in Candidate
    BY <1>4, <1>5, <1>6 DEF Candidate
  <1>8. QED
    BY <1>7

\* As long as no channel was to be replaced, a channel is only made in a pool that
\* is empty or not full: its counts are exact, so the thread that asks is in none of them and
\* none of them is SIZE_MAX.
LEMMA CreatesInRoom ==
    ASSUME ManagerInv, unhealthy = {}, MustCreate, NEW t \in Threads, pc[t] = "idle"
    PROVE  Len(channel_states) = 0 \/ Len(channel_states) < MaxChannelCount
  <1>1. TypeOK /\ InUseExact /\ Len(channel_states) \in Nat
    BY PoolTypes DEF ManagerInv
  <1>2. CASE Len(channel_states) = 0
    BY <1>2
  <1>3. CASE Len(channel_states) # 0
    <2>1. 1 \in Pool
      BY <1>1, <1>3 DEF Pool
    <2>2. InProgress(1) \in SUBSET Threads /\ t \notin InProgress(1)
      BY DEF InProgress
    <2>3. channel_states[1].in_use_count < SizeMax
      <3>1. Cardinality(InProgress(1)) \in 0 .. SizeMax - 1
        BY <2>2, SetOfThreadsGrows
      <3>2. channel_states[1].in_use_count = Cardinality(InProgress(1))
        BY <1>1, <2>1 DEF InUseExact
      <3>3. QED
        BY <3>1, <3>2, ChannelManagerAssumption
    <2>4. Candidate # {}
      BY <1>1, <2>1, <2>3, CandidateExists
    <2>5. QED
      BY <2>4 DEF MustCreate
  <1>4. QED
    BY <1>2, <1>3

-----------------------------------------------------------------------------
(* The steps. *)

\* GetHandle, as a change of the invariant's parts: the thread holds channel i,
\* which is new, or was the candidate.
LEMMA GetHandleCases ==
    ASSUME ManagerInv, NEW t \in Threads, GetHandle(t)
    PROVE  \E i \in Nat \ {0} :
             /\ pc[t] = "idle" /\ handle[t] = 0 /\ t \notin Holders
             /\ handle' = [handle EXCEPT ![t] = i]
             /\ pc' = [pc EXCEPT ![t] = "calling"]
             /\ channel_handle_count' = channel_handle_count + 1
             /\ channel_handle_count' \in 0 .. SizeMax
             /\ UNCHANGED <<status, run, retry, unhealthy, main>>
             /\ \/ /\ MustCreate /\ i = Len(channel_states) + 1
                   /\ channel_states' =
                        Append(channel_states, [channel |-> i, in_use_count |-> 1])
                \/ /\ i \in Pool /\ channel_states[i].in_use_count < SizeMax
                   /\ channel_states' = [channel_states EXCEPT ![i].in_use_count = @ + 1]
  <1>1. TypeOK /\ ChannelsNumbered /\ channel_handle_count = Cardinality(Holders)
    BY DEF ManagerInv
  <1>2. pc[t] = "idle" /\ handle[t] = 0 /\ t \notin Holders
    BY <1>1 DEF GetHandle, TypeOK, ChannelHandles, Holders
  <1>3. /\ channel_handle_count' = channel_handle_count + 1
        /\ channel_handle_count' \in 0 .. SizeMax
    <2>1. Cardinality(Holders) \in 0 .. SizeMax - 1
      BY <1>2, SetOfThreadsGrows DEF Holders
    <2>2. channel_handle_count' = (channel_handle_count + 1) % (SizeMax + 1)
      BY DEF GetHandle, CountModulus
    <2>3. QED
      BY <1>1, <2>1, <2>2, ChannelManagerAssumption
  <1>4. UNCHANGED <<status, run, retry, unhealthy, main>>
    BY DEF GetHandle
  <1>5. ASSUME MustCreate,
               channel_states' = Append(channel_states,
                  [channel |-> CreateBenchmarkGrpcChannel, in_use_count |-> 1]),
               TakeHandle(t, CreateBenchmarkGrpcChannel)
        PROVE  /\ Len(channel_states) + 1 \in Nat \ {0}
               /\ handle' = [handle EXCEPT ![t] = Len(channel_states) + 1]
               /\ pc' = [pc EXCEPT ![t] = "calling"]
               /\ channel_states' = Append(channel_states,
                     [channel |-> Len(channel_states) + 1, in_use_count |-> 1])
    BY <1>1, <1>5, PoolTypes DEF TakeHandle, CreateBenchmarkGrpcChannel
  <1>6. ASSUME NEW i \in Candidate,
               channel_states' = [channel_states EXCEPT ![i].in_use_count = @ + 1],
               TakeHandle(t, channel_states[i].channel)
        PROVE  /\ i \in Nat \ {0} /\ i \in Pool
               /\ channel_states[i].in_use_count < SizeMax
               /\ handle' = [handle EXCEPT ![t] = i]
               /\ pc' = [pc EXCEPT ![t] = "calling"]
    BY <1>1, <1>6, PoolTypes DEF TakeHandle, Candidate, ChannelsNumbered
  <1>7. \/ /\ MustCreate
           /\ channel_states' = Append(channel_states,
                [channel |-> CreateBenchmarkGrpcChannel, in_use_count |-> 1])
           /\ TakeHandle(t, CreateBenchmarkGrpcChannel)
        \/ \E i \in Candidate :
              /\ channel_states' = [channel_states EXCEPT ![i].in_use_count = @ + 1]
              /\ TakeHandle(t, channel_states[i].channel)
    BY DEF GetHandle
  <1>8. QED
    BY <1>2, <1>3, <1>4, <1>5, <1>6, <1>7

\* With the channels numbered, a count is exact if it counts the threads that are
\* calling on the channel of that number.
Calling(i) == {t \in Threads : pc[t] = "calling" /\ handle[t] = i}

\* Channels are numbered by their places, so InUseExact can speak of places.
LEMMA InUseExactByNumber ==
    ASSUME ChannelsNumbered
    PROVE  InUseExact <=> (unhealthy = {} =>
              \A i \in Pool : channel_states[i].in_use_count = Cardinality(Calling(i)))
  <1>1. \A i \in Pool : InProgress(i) = Calling(i)
    BY DEF InProgress, Calling, ChannelsNumbered
  <1>2. QED
    BY <1>1 DEF InUseExact

\* A handle is given out on a candidate, or on a channel that is new.
LEMMA GetHandleKeepsInv ==
    ASSUME ManagerInv, NEW t \in Threads, GetHandle(t)
    PROVE  ManagerInv'
  <1>1. PICK i \in Nat \ {0} :
           /\ pc[t] = "idle" /\ handle[t] = 0 /\ t \notin Holders
           /\ handle' = [handle EXCEPT ![t] = i]
           /\ pc' = [pc EXCEPT ![t] = "calling"]
           /\ channel_handle_count' = channel_handle_count + 1
           /\ channel_handle_count' \in 0 .. SizeMax
           /\ UNCHANGED <<status, run, retry, unhealthy, main>>
           /\ \/ /\ MustCreate /\ i = Len(channel_states) + 1
                 /\ channel_states' =
                      Append(channel_states, [channel |-> i, in_use_count |-> 1])
              \/ /\ i \in Pool /\ channel_states[i].in_use_count < SizeMax
                 /\ channel_states' = [channel_states EXCEPT ![i].in_use_count = @ + 1]
    BY GetHandleCases
  <1>2. TypeOK /\ ChannelsNumbered /\ Len(channel_states) \in Nat
    BY PoolTypes DEF ManagerInv
  <1>3. /\ \A u \in Threads : u # t => handle'[u] = handle[u] /\ pc'[u] = pc[u]
        /\ handle'[t] = i /\ pc'[t] = "calling" /\ i # 0
    BY <1>1, <1>2 DEF TypeOK, ChannelHandles
  \* The pool after the step: its channels and their counts.
  <1> DEFINE new == IF i \in Pool THEN channel_states[i].in_use_count ELSE 0
  <1>4. /\ channel_states' \in Seq([channel : Channels, in_use_count : 0 .. SizeMax])
        /\ i \in 1 .. Len(channel_states') /\ Len(channel_states') >= Len(channel_states)
        /\ Pool' = Pool \cup {i}
        /\ \A k \in Pool' :
              /\ channel_states'[k].channel = k
              /\ channel_states'[k].in_use_count =
                    IF k = i THEN new + 1 ELSE channel_states[k].in_use_count
        /\ Len(channel_states') # Len(channel_states)
              => MustCreate /\ Len(channel_states') = Len(channel_states) + 1
    <2> DEFINE Entries == [channel : Channels, in_use_count : 0 .. SizeMax]
    <2>1. CASE /\ MustCreate /\ i = Len(channel_states) + 1
               /\ channel_states' =
                    Append(channel_states, [channel |-> i, in_use_count |-> 1])
      <3>1. Cardinality({}) \in 0 .. SizeMax - 1
        BY SetOfThreadsGrows
      <3>2. [channel |-> i, in_use_count |-> 1] \in Entries
        BY <3>1, ChannelManagerAssumption DEF Channels
      <3>3. channel_states' \in Seq(Entries) /\ Len(channel_states') = Len(channel_states) + 1
        BY <1>2, <2>1, <3>2 DEF TypeOK
      <3>4. Pool' = Pool \cup {i} /\ i \notin Pool
        BY <1>2, <2>1, <3>3 DEF Pool
      <3>5. \A k \in Pool' : channel_states'[k] =
               IF k = i THEN [channel |-> i, in_use_count |-> 1] ELSE channel_states[k]
        BY <1>2, <2>1, <3>3 DEF TypeOK, Pool
      <3>6. \A k \in Pool' :
              /\ channel_states'[k].channel = k
              /\ channel_states'[k].in_use_count =
                    IF k = i THEN 1 ELSE channel_states[k].in_use_count
        <4>1. \A k \in Pool : channel_states[k].channel = k
          BY <1>2 DEF ChannelsNumbered
        <4>2. QED
          BY <3>4, <3>5, <4>1
      <3>7. new + 1 = 1
        BY <3>4
      <3> HIDE DEF new
      <3>8. i \in 1 .. Len(channel_states') /\ Len(channel_states') >= Len(channel_states)
        BY <1>2, <2>1, <3>3
      <3>9. QED
        BY <2>1, <3>3, <3>4, <3>6, <3>7, <3>8
    <2>2. CASE /\ i \in Pool /\ channel_states[i].in_use_count < SizeMax
               /\ channel_states' = [channel_states EXCEPT ![i].in_use_count = @ + 1]
      <3> DEFINE entry == [channel_states[i] EXCEPT !.in_use_count = @ + 1]
      <3>1. /\ channel_states[i] \in Entries
            /\ channel_states[i].in_use_count \in 0 .. SizeMax
        BY <1>2, <2>2, PoolTypes
      <3>2. entry \in Entries
        BY <2>2, <3>1, ChannelManagerAssumption
      <3>3. entry.channel = channel_states[i].channel
            /\ entry.in_use_count = channel_states[i].in_use_count + 1
        BY <3>1
      <3>4. channel_states' = [channel_states EXCEPT ![i] = entry]
        BY <2>2
      <3>5. channel_states \in Seq(Entries) /\ i \in 1 .. Len(channel_states)
        BY <1>2, <2>2 DEF TypeOK, Pool
      <3> HIDE DEF entry, Entries
      <3>6. /\ channel_states' \in Seq(Entries) /\ Len(channel_states') = Len(channel_states)
            /\ \A k \in Pool : channel_states'[k] = IF k = i THEN entry ELSE channel_states[k]
        BY <3>2, <3>4, <3>5, ExceptSeq DEF Pool
      <3>7. \A k \in Pool :
              /\ channel_states'[k].channel = k
              /\ channel_states'[k].in_use_count =
                    IF k = i THEN new + 1 ELSE channel_states[k].in_use_count
        BY <1>2, <2>2, <3>3, <3>6 DEF ChannelsNumbered
      <3> USE DEF Entries
      <3>8. QED
        BY <1>2, <2>2, <3>5, <3>6, <3>7 DEF Pool
    <2>3. QED
      BY <1>1, <2>1, <2>2
  <1>5. TypeOK'
    BY <1>1, <1>2, <1>3, <1>4 DEF TypeOK, ChannelHandles
  <1>6. ChannelsNumbered'
    <2>1. \A k \in Pool' : channel_states'[k].channel = k
      BY <1>4
    <2>2. \A u \in Threads : handle[u] \in 0 .. Len(channel_states)
      BY <1>2 DEF ChannelsNumbered
    <2>3. Len(channel_states') \in Nat
      BY <1>4
    <2>4. /\ Len(channel_states') >= Len(channel_states)
          /\ i \in 0 .. Len(channel_states')
      BY <1>2, <1>4, <2>3
    <2> HIDE DEF new
    <2>5. \A u \in Threads : handle'[u] \in 0 .. Len(channel_states')
      BY <1>2, <1>3, <2>2, <2>3, <2>4
    <2>6. QED
      BY <2>1, <2>5 DEF ChannelsNumbered
  <1>7. (channel_handle_count = Cardinality(Holders))'
    <2>1. Holders' = Holders \cup {t} /\ Holders \in SUBSET Threads
      BY <1>3 DEF Holders
    <2>2. channel_handle_count = Cardinality(Holders)
      BY DEF ManagerInv
    <2>3. QED
      BY <1>1, <2>1, <2>2, SetOfThreadsGrows
  <1>8. InAttempt' /\ JoinedFinished'
    BY <1>1, <1>3 DEF ManagerInv, InAttempt, HasAttempt, JoinedFinished, GetHandle
  <1>9. InUseExact'
    <2>1. SUFFICES ASSUME unhealthy' = {}, NEW k \in Pool'
                   PROVE  channel_states'[k].in_use_count = Cardinality(Calling(k)')
      <3>1. \A k \in Pool' : InProgress(k)' = Calling(k)'
        BY <1>6 DEF InProgress, Calling, ChannelsNumbered
      <3>2. QED
        BY <3>1 DEF InUseExact
    <2>2. \A j \in Pool : channel_states[j].in_use_count = Cardinality(Calling(j))
      BY <1>1, <1>2, <2>1, InUseExactByNumber DEF ManagerInv
    <2>3. CASE k # i
      <3>1. Calling(k)' = Calling(k)
        BY <1>1, <1>3, <2>3 DEF Calling
      <3>2. QED
        BY <1>4, <2>1, <2>2, <2>3, <3>1
    <2>4. CASE k = i
      <3>1. /\ Calling(i)' = Calling(i) \cup {t}
            /\ Calling(i) \in SUBSET Threads /\ t \notin Calling(i)
        BY <1>1, <1>3 DEF Calling
      <3>2. Cardinality(Calling(i)') = Cardinality(Calling(i)) + 1
        BY <3>1, SetOfThreadsGrows
      <3>3. new = Cardinality(Calling(i))
        <4>1. i \notin Pool => Calling(i) = {}
          BY <1>2 DEF Calling, ChannelsNumbered, Pool
        <4>2. QED
          BY <2>2, <4>1, FS_EmptySet
      <3>4. QED
        BY <1>4, <2>1, <2>4, <3>2, <3>3
    <2>5. QED
      BY <2>3, <2>4
  <1>10. PoolBoundedWhileHealthy'
    <2>1. SUFFICES ASSUME unhealthy' = {}
                   PROVE  Len(channel_states') <= MaxChannelCount \/ Len(channel_states') = 1
      BY DEF PoolBoundedWhileHealthy, PoolBounded
    <2>2. Len(channel_states) <= MaxChannelCount \/ Len(channel_states) = 1
      BY <1>1, <2>1 DEF ManagerInv, PoolBoundedWhileHealthy, PoolBounded
    <2>3. MustCreate => Len(channel_states) = 0 \/ Len(channel_states) < MaxChannelCount
      BY <1>1, <2>1, CreatesInRoom
    <2>4. CASE Len(channel_states') = Len(channel_states)
      BY <2>2, <2>4
    <2>5. CASE MustCreate /\ Len(channel_states') = Len(channel_states) + 1
      <3> DEFINE n == Len(channel_states)
      <3>1. n \in Nat /\ MaxChannelCount \in Nat /\ (n = 0 \/ n < MaxChannelCount)
        BY <1>2, <2>3, <2>5, ChannelManagerAssumption
      <3> HIDE DEF n
      <3>2. n + 1 <= MaxChannelCount \/ n + 1 = 1
        BY <3>1
      <3>3. QED
        BY <2>5, <3>2 DEF n
    <2>6. QED
      BY <1>4, <2>4, <2>5
  <1>11. QED
    BY <1>5, <1>6, <1>7, <1>8, <1>9, <1>10 DEF ManagerInv

\* The end of an RPC takes the thread out of its channel's count, whatever the
\* status: unless that makes the channel one that was to be replaced.
LEMMA OnRpcDoneKeepsInv ==
    ASSUME ManagerInv, NEW t \in Threads, OnRpcDone(t)
    PROVE  ManagerInv'
  <1> DEFINE i == handle[t]
             Entries == [channel : Channels, in_use_count : 0 .. SizeMax]
  <1>1. TypeOK /\ ChannelsNumbered /\ Len(channel_states) \in Nat
    BY PoolTypes DEF ManagerInv
  <1>2. PICK s \in Statuses :
          /\ status' = [status EXCEPT ![t] = s]
          /\ unhealthy' = IF s = "unhealthy" THEN unhealthy \cup {i} ELSE unhealthy
          /\ channel_states' =
               [k \in Pool |->
                  IF channel_states[k].channel = i
                  THEN [channel_states[k] EXCEPT !.in_use_count =
                          IF s = "unhealthy" THEN 0 ELSE (@ - 1) % CountModulus]
                  ELSE channel_states[k]]
    BY DEF OnRpcDone
  <1>3. /\ pc[t] = "calling" /\ pc' = [pc EXCEPT ![t] = "rpc_done"]
        /\ UNCHANGED <<channel_handle_count, handle, run, retry, main>>
    BY DEF OnRpcDone
  <1>4. i \in Pool /\ i \in Channels
    BY <1>1, <1>3 DEF TypeOK, ChannelHandles, ChannelsNumbered, Pool, Channels
  <1> HIDE DEF i
  <1> DEFINE count(k) == channel_states[k].in_use_count
             left(k)  == IF s = "unhealthy" THEN 0 ELSE (count(k) - 1) % CountModulus
  <1>5. \A k \in Pool : /\ channel_states[k] \in Entries /\ count(k) \in 0 .. SizeMax
                        /\ left(k) \in 0 .. SizeMax
                        /\ channel_states[k].channel = k
    <2> TAKE k \in Pool
    <2>1. /\ channel_states[k] \in Entries /\ count(k) \in 0 .. SizeMax
          /\ channel_states[k].channel = k
      BY <1>1, PoolTypes DEF ChannelsNumbered
    <2>2. left(k) \in 0 .. SizeMax
      BY <2>1, ChannelManagerAssumption DEF CountModulus
    <2>3. QED
      BY <2>1, <2>2
  <1>6. \A k \in Pool :
           channel_states'[k] =
             IF k = i THEN [channel |-> k, in_use_count |-> left(k)] ELSE channel_states[k]
    BY <1>2, <1>5
  <1> HIDE DEF left
  <1>7. \A k \in Pool :
          /\ channel_states'[k].channel = k
          /\ channel_states'[k].in_use_count = IF k = i THEN left(k) ELSE count(k)
    <2> TAKE k \in Pool
    <2>1. channel_states[k].channel = k
      BY <1>5
    <2>2. channel_states'[k] =
             IF k = i THEN [channel |-> k, in_use_count |-> left(k)] ELSE channel_states[k]
      BY <1>6
    <2>3. QED
      BY <2>1, <2>2
  <1> HIDE DEF count
  <1>8. /\ channel_states' \in Seq(Entries) /\ Len(channel_states') = Len(channel_states)
        /\ Pool' = Pool
    <2>1. channel_states' \in [Pool -> Entries]
      <3>1. \A k \in Pool : k \in Channels
        BY <1>5
      <3>2. \A k \in Pool : channel_states'[k] \in Entries
        <4> TAKE k \in Pool
        <4>1. [channel |-> k, in_use_count |-> left(k)] \in Entries
          BY <1>5, <3>1
        <4>2. QED
          BY <1>5, <1>6, <4>1
      <3>3. QED
        BY <1>2, <3>2
    <2>2. channel_states' \in Seq(Entries)
      <3> HIDE DEF Entries
      <3>1. channel_states' \in [1 .. Len(channel_states) -> Entries]
        BY <2>1 DEF Pool
      <3>2. QED
        BY <1>1, <3>1, SeqDef
    <2>3. Len(channel_states') = Len(channel_states)
      BY <1>1, <2>1, <2>2, LenProperties DEF Pool
    <2>4. QED
      BY <2>2, <2>3 DEF Pool
  <1>9. /\ \A u \in Threads : u # t => pc'[u] = pc[u]
        /\ pc'[t] = "rpc_done"
        /\ pc' \in [Threads -> {"idle", "calling", "rpc_done", "finished"}]
    BY <1>1, <1>3 DEF TypeOK
  <1>10. TypeOK'
    <2>1. status' \in [Threads -> Statuses \cup {"none"}] /\ unhealthy' \subseteq Channels
      BY <1>1, <1>2, <1>4 DEF TypeOK
    <2>2. ChannelHandles'
      BY <1>1, <1>3, <1>9 DEF TypeOK, ChannelHandles
    <2>3. QED
      BY <1>1, <1>3, <1>8, <1>9, <2>1, <2>2 DEF TypeOK
  <1>11. ChannelsNumbered'
    BY <1>1, <1>3, <1>7, <1>8 DEF ChannelsNumbered
  <1>12. (channel_handle_count = Cardinality(Holders))' /\ InAttempt' /\ JoinedFinished'
    <2>1. Holders' = Holders
      BY <1>3 DEF Holders
    <2>2. main = "running"
      BY <1>3 DEF ManagerInv, JoinedFinished
    <2>3. InAttempt'
      BY <1>3, <1>9 DEF ManagerInv, InAttempt, HasAttempt
    <2>4. QED
      BY <1>3, <2>1, <2>2, <2>3 DEF ManagerInv, JoinedFinished
  <1>13. InUseExact'
    <2>1. SUFFICES ASSUME unhealthy' = {}, NEW k \in Pool
                   PROVE  channel_states'[k].in_use_count = Cardinality(Calling(k)')
      <3>1. \A k \in Pool : InProgress(k)' = Calling(k)'
        BY <1>7 DEF InProgress, Calling
      <3>2. QED
        BY <1>8, <3>1 DEF InUseExact
    <2>2. s # "unhealthy" /\ unhealthy = {}
      BY <1>2, <2>1
    <2>3. count(k) = Cardinality(Calling(k))
      BY <1>1, <2>2, InUseExactByNumber DEF ManagerInv, count
    <2>4. CASE k # i
      <3>1. Calling(k)' = Calling(k)
        BY <1>3, <1>9, <2>4 DEF Calling, i
      <3>2. QED
        BY <1>7, <2>3, <2>4, <3>1
    <2>5. CASE k = i
      <3>1. /\ Calling(k)' = Calling(k) \ {t}
            /\ Calling(k) \in SUBSET Threads /\ t \in Calling(k)
        BY <1>3, <1>9, <2>5 DEF Calling, i
      <3>2. /\ Cardinality(Calling(k)') = Cardinality(Calling(k)) - 1
            /\ Cardinality(Calling(k)) \in 1 .. SizeMax
        BY <3>1, SetOfThreadsShrinks
      <3>3. left(k) = count(k) - 1
        BY <2>2, <2>3, <3>2, ChannelManagerAssumption DEF left, CountModulus
      <3>4. QED
        BY <1>7, <2>3, <2>5, <3>2, <3>3
    <2>6. QED
      BY <2>4, <2>5
  <1>14. PoolBoundedWhileHealthy'
    BY <1>2, <1>8 DEF ManagerInv, PoolBoundedWhileHealthy, PoolBounded
  <1>15. QED
    BY <1>10, <1>11, <1>12, <1>13, <1>14 DEF ManagerInv

\* The destructor of a handle is the other end of GetHandle's count.
LEMMA DestroyHandleKeepsInv ==
    ASSUME ManagerInv, NEW t \in Threads, DestroyHandle(t)
    PROVE  ManagerInv'
  <1>1. TypeOK /\ ChannelsNumbered /\ InAttempt
    BY DEF ManagerInv
  <1>2. /\ pc[t] = "rpc_done" /\ pc' = [pc EXCEPT ![t] = "idle"]
        /\ handle' = [handle EXCEPT ![t] = 0]
        /\ channel_handle_count' = (channel_handle_count - 1) % CountModulus
        /\ UNCHANGED <<channel_states, status, unhealthy, main>>
    BY DEF DestroyHandle, HandleDestroyed
  <1>3. /\ \A u \in Threads : u # t => pc'[u] = pc[u] /\ handle'[u] = handle[u]
        /\ pc'[t] = "idle" /\ handle'[t] = 0
    BY <1>1, <1>2 DEF TypeOK, ChannelHandles
  <1>4. /\ run' \in [Threads -> 0 .. Runs] /\ retry' \in [Threads -> 0 .. Retries]
        /\ \A u \in Threads : u # t => run'[u] = run[u] /\ retry'[u] = retry[u]
    <2>1. /\ run[t] \in 0 .. Runs /\ retry[t] \in 0 .. Retries
          /\ run[t] < Runs /\ retry[t] < Retries
      BY <1>1, <1>2 DEF InAttempt, HasAttempt, TypeOK
    <2>2. /\ run[t] + 1 \in 0 .. Runs /\ retry[t] + 1 \in 0 .. Retries /\ 0 \in 0 .. Retries
      BY <2>1, ChannelManagerAssumption
    <2>3. \/ retry' = [retry EXCEPT ![t] = @ + 1] /\ run' = run
          \/ run' = [run EXCEPT ![t] = @ + 1] /\ retry' = [retry EXCEPT ![t] = 0]
      BY DEF DestroyHandle
    <2>4. QED
      BY <1>1, <2>2, <2>3 DEF TypeOK
  <1>5. /\ channel_handle_count' = Cardinality(Holders')
        /\ channel_handle_count' \in 0 .. SizeMax
    <2>1. Holders' = Holders \ {t} /\ Holders \in SUBSET Threads /\ t \in Holders
      BY <1>1, <1>2, <1>3 DEF Holders, TypeOK, ChannelHandles
    <2>2. /\ channel_handle_count = Cardinality(Holders)
          /\ channel_handle_count \in 0 .. SizeMax
      BY DEF ManagerInv, TypeOK
    <2>3. /\ Cardinality(Holders') = Cardinality(Holders) - 1
          /\ Cardinality(Holders) \in 1 .. SizeMax
      BY <2>1, SetOfThreadsShrinks
    <2>4. QED
      BY <1>2, <2>2, <2>3, ChannelManagerAssumption DEF CountModulus
  <1>6. TypeOK' /\ ChannelsNumbered' /\ InAttempt' /\ JoinedFinished'
    <2>1. TypeOK'
      BY <1>1, <1>2, <1>3, <1>4, <1>5 DEF TypeOK, ChannelHandles
    <2>2. ChannelsNumbered'
      BY <1>1, <1>2, <1>3, PoolTypes DEF ChannelsNumbered, Pool
    <2>3. InAttempt'
      BY <1>1, <1>3, <1>4 DEF InAttempt, HasAttempt
    <2>4. JoinedFinished'
      BY <1>2 DEF ManagerInv, JoinedFinished
    <2>5. QED
      BY <2>1, <2>2, <2>3, <2>4
  <1>7. InUseExact' /\ PoolBoundedWhileHealthy'
    <2>1. \A k \in Pool : InProgress(k)' = InProgress(k) /\ Pool' = Pool
      BY <1>2, <1>3 DEF InProgress, Pool
    <2>2. QED
      BY <1>2, <2>1 DEF ManagerInv, InUseExact, PoolBoundedWhileHealthy, PoolBounded, Pool
  <1>8. QED
    BY <1>5, <1>6, <1>7 DEF ManagerInv

\* The loops of the threads and of main() leave the manager alone.
LEMMA LoopStepsKeepInv ==
    ASSUME ManagerInv,
           \/ \E t \in Threads : NextRun(t) \/ Finish(t)
           \/ JoinThreads \/ DestroyManager \/ UNCHANGED vars
    PROVE  ManagerInv'
  <1>1. TypeOK /\ ChannelsNumbered /\ InAttempt /\ JoinedFinished
    BY DEF ManagerInv
  <1>2. UNCHANGED <<channel_states, channel_handle_count, handle, status, unhealthy>>
    BY DEF NextRun, Finish, JoinThreads, DestroyManager, vars
  <1>3. /\ TypeOK'
        /\ \A t \in Threads : pc'[t] \in {"calling", "rpc_done"} <=>
                                 pc[t] \in {"calling", "rpc_done"}
        /\ \A t \in Threads : pc'[t] = "calling" <=> pc[t] = "calling"
        /\ InAttempt' /\ JoinedFinished'
    <2>1. ASSUME NEW t \in Threads, NextRun(t)
          PROVE  /\ TypeOK' /\ InAttempt' /\ JoinedFinished' /\ UNCHANGED pc
      <3>1. run[t] + 1 \in 0 .. Runs /\ 0 \in 0 .. Retries
        BY <1>1, <2>1, ChannelManagerAssumption DEF NextRun, TypeOK
      <3>2. QED
        BY <1>1, <2>1, <3>1 DEF NextRun, TypeOK, ChannelHandles, InAttempt, HasAttempt,
                                JoinedFinished
    <2>2. ASSUME NEW t \in Threads, Finish(t)
          PROVE  /\ TypeOK' /\ InAttempt' /\ JoinedFinished'
                 /\ pc[t] = "idle" /\ pc' = [pc EXCEPT ![t] = "finished"]
      BY <1>1, <2>2 DEF Finish, TypeOK, ChannelHandles, InAttempt, HasAttempt,
                        JoinedFinished
    <2>3. ASSUME JoinThreads \/ DestroyManager \/ UNCHANGED vars
          PROVE  TypeOK' /\ InAttempt' /\ JoinedFinished' /\ UNCHANGED pc
      BY <1>1, <2>3 DEF JoinThreads, DestroyManager, vars, TypeOK, ChannelHandles,
                        InAttempt, HasAttempt, JoinedFinished
    <2>4. QED
      BY <1>1, <2>1, <2>2, <2>3 DEF TypeOK
  <1>4. Pool' = Pool /\ Holders' = Holders /\ \A k \in Pool : InProgress(k)' = InProgress(k)
    BY <1>2, <1>3 DEF Pool, Holders, InProgress
  <1>5. ChannelsNumbered' /\ InUseExact' /\ PoolBoundedWhileHealthy'
    BY <1>1, <1>2, <1>4
       DEF ManagerInv, ChannelsNumbered, InUseExact, PoolBoundedWhileHealthy, PoolBounded
  <1>6. QED
    BY <1>2, <1>3, <1>4, <1>5 DEF ManagerInv

\* At the start there are no channels, no handles and no calls.
LEMMA InitManagerInv == Init => ManagerInv
  <1> SUFFICES ASSUME Init PROVE ManagerInv
    OBVIOUS
  <1> USE DEF Init
  <1>1. Len(channel_states) = 0 /\ Pool = {}
    BY DEF Pool
  <1>2. TypeOK
    BY ChannelManagerAssumption DEF TypeOK, ChannelHandles
  <1>3. channel_handle_count = Cardinality(Holders)
    <2>1. Holders = {}
      BY DEF Holders
    <2>2. QED
      BY <2>1, FS_EmptySet
  <1>4. ChannelsNumbered /\ InAttempt /\ JoinedFinished
    BY <1>1 DEF ChannelsNumbered, InAttempt, JoinedFinished
  <1>5. InUseExact /\ PoolBoundedWhileHealthy
    BY <1>1, ChannelManagerAssumption DEF InUseExact, PoolBoundedWhileHealthy, PoolBounded
  <1>6. QED
    BY <1>2, <1>3, <1>4, <1>5 DEF ManagerInv

\* Every step of a worker or of main() keeps the invariant.
LEMMA NextKeepsManagerInv ==
    ASSUME ManagerInv, [Next]_vars
    PROVE  ManagerInv'
  <1>1. CASE \E t \in Threads : GetHandle(t)
    BY <1>1, GetHandleKeepsInv
  <1>2. CASE \E t \in Threads : OnRpcDone(t)
    BY <1>2, OnRpcDoneKeepsInv
  <1>3. CASE \E t \in Threads : DestroyHandle(t)
    BY <1>3, DestroyHandleKeepsInv
  <1>4. CASE \/ \E t \in Threads : NextRun(t) \/ Finish(t)
             \/ JoinThreads \/ DestroyManager \/ UNCHANGED vars
    BY <1>4, LoopStepsKeepInv
  <1>5. QED
    BY <1>1, <1>2, <1>3, <1>4 DEF Next, Worker, Gone

-----------------------------------------------------------------------------
(* The theorems. *)

\* In every state: channels are numbered by their places, handles are counted, and,
\* while no channel was unhealthy, the count of a channel is the number of calls in
\* progress on it and there are no more channels than the limit.
THEOREM ManagerInvariant == Spec => []ManagerInv
  <1>1. Init => ManagerInv
    BY InitManagerInv
  <1>2. ManagerInv /\ [Next]_vars => ManagerInv'
    BY NextKeepsManagerInv
  <1>3. QED
    BY <1>1, <1>2, PTL DEF Spec

\* The state of ChannelManager and of its users is always well typed: every count is
\* a size_t, one that wrapped below zero included.
THEOREM TypeCorrect == Spec => []TypeOK
  BY ManagerInvariant, PTL DEF ManagerInv

\* As long as no channel was to be replaced, each channel's in_use_count is the
\* number of RPCs in progress on it, however many threads interleave.
THEOREM CountsAreExact == Spec => []InUseExact
  BY ManagerInvariant, PTL DEF ManagerInv

\* As long as no channel was to be replaced, there are at most max_channel_count_
\* channels, or one if that is 0, whatever the interleaving of the threads that ask for one.
THEOREM LimitHolds == Spec => []PoolBoundedWhileHealthy
  BY ManagerInvariant, PTL DEF ManagerInv

\* channel_handle_count_ counts the handles alive, and is 0 when main() is past its
\* joins: ~ChannelManager's assertion holds, however the RPCs ended.
THEOREM HandlesAreCounted == Spec => []HandlesCounted
  <1>1. ManagerInv => HandlesCounted
    <2> SUFFICES ASSUME ManagerInv PROVE HandlesCounted
      OBVIOUS
    <2>1. channel_handle_count = Cardinality({t \in Threads : handle[t] # 0})
      BY DEF ManagerInv, Holders
    <2>2. main # "running" => {t \in Threads : handle[t] # 0} = {}
      BY DEF ManagerInv, JoinedFinished, TypeOK, ChannelHandles
    <2>3. QED
      BY <2>1, <2>2, FS_EmptySet DEF HandlesCounted
  <1>2. QED
    BY <1>1, ManagerInvariant, PTL
===============================================================================
