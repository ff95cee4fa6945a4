------------------------- MODULE ConstChannelPoolProofs -------------------------
(***************************************************************************)
(* What ConstChannelPool and its ChannelPoller promise, for any number of   *)
(* threads and of channels.                                                 *)
(*                                                                         *)
(* StateInv holds whatever races.  The reference counts are exact, which is *)
(* CountInv, as long as assignments of channel_ cannot race: in a pool of   *)
(* one thread, or before a second channel replaces the first one's          *)
(* successor.                                                               *)
(***************************************************************************)
EXTENDS ConstChannelPool, FiniteSetTheorems, TLAPS

Publishing(t) == pc[t] \in {"assigning", "storing"}

\* A thread that replaces the channel.
Replacing(t) == pc[t] \in {"assigning", "storing", "releasing"}

\* channel_'s reference is its own, or on its way into or out of it.
PoolOwns(c) ==
    \/ channel = c
    \/ \E t \in Threads : Publishing(t) /\ fresh[t] = c
    \/ \E t \in Threads : pc[t] = "releasing" /\ pointer[t] = c

PollerOwns(c) == c \in {poller_channel, tmp_channel}

Stubs(c) == {t \in Threads : stub[t] = c}

One(condition) == IF condition THEN 1 ELSE 0

\* Every channel that is anywhere has been created.
Known ==
    /\ channel <= created
    /\ \A t \in Threads : fresh[t] <= created /\ stub[t] <= created /\ pointer[t] <= created
    /\ \A c \in freed : c <= created

\* The destructor's progress: what it has let go of, and that nobody is left inside.
MainInv ==
    /\ main = "running" <=> channel # None
    /\ main # "running" => \A t \in users : pc[t] = "done"
    /\ poller_channel = (IF main \in {"running", "reset"} THEN 1 ELSE None)
    /\ tmp_channel = (IF main = "swapped" THEN 1 ELSE None)
    /\ \A t \in Threads \ users : pc[t] = "idle"

\* Once the polling thread has seen an event, or is gone, it has no watch.
PollerInv ==
    /\ poller \in {"event", "exited"} => watch = "none"
    /\ main = "destroyed" => poller = "exited"

\* Pointers are loaded from a channel_ that is there.
Loaded ==
    \A t \in Threads :
        pc[t] \in {"copying", "storing", "releasing"} => pointer[t] # None

\* Replacements are of different channels, which nobody has seen before the store.
FreshUnseen ==
    \A t \in Threads :
        /\ Replacing(t) =>
              /\ fresh[t] > 1
              /\ \A u \in Threads : Replacing(u) /\ u # t => fresh[u] # fresh[t]
        /\ Publishing(t) =>
              /\ channel # fresh[t]
              /\ \A u \in Threads : stub[u] # fresh[t] /\ pointer[u] # fresh[t]

StateInv ==
    /\ TypeOK
    /\ Known
    /\ MainInv
    /\ PollerInv
    /\ Loaded
    /\ FreshUnseen

Unraced == Cardinality(users) = 1 \/ created <= 2

\* What a thread has loaded is owned by somebody until it is copied, and is channel_'s
\* until it is replaced.
Undisturbed(t) ==
    /\ pc[t] = "copying" => pointer[t] \in {channel, poller_channel}
    /\ pc[t] = "storing" => pointer[t] = channel
    /\ pc[t] = "releasing" => pointer[t] # channel

RefsExact ==
    \A c \in Channels :
        refs[c] = One(PoolOwns(c)) + One(PollerOwns(c)) + Cardinality(Stubs(c))

FreedUnreferenced == \A c \in freed : refs[c] = 0

CountInv ==
    Unraced =>
        /\ \A t \in Threads : Undisturbed(t)
        /\ RefsExact
        /\ FreedUnreferenced

PoolInv == StateInv /\ CountInv

-----------------------------------------------------------------------------
(* Counting threads. *)

\* A set of threads has a number of members.
LEMMA SetCounted ==
    ASSUME NEW S \in SUBSET Threads
    PROVE  IsFiniteSet(S) /\ Cardinality(S) \in Nat
  BY FS_Subset, FS_CardinalityType, ConstChannelPoolAssumption

\* A thread that joins a set makes it larger by one.
LEMMA SetGrows ==
    ASSUME NEW S \in SUBSET Threads, NEW t \in Threads, t \notin S
    PROVE  Cardinality(S \cup {t}) = Cardinality(S) + 1
  BY SetCounted, FS_AddElement

\* A thread that leaves a set makes it smaller by one.
LEMMA SetShrinks ==
    ASSUME NEW S \in SUBSET Threads, NEW t \in S
    PROVE  /\ Cardinality(S) \in Nat \ {0}
           /\ Cardinality(S \ {t}) = Cardinality(S) - 1
  <1>1. t \notin S \ {t} /\ S = (S \ {t}) \cup {t}
    OBVIOUS
  <1>2. /\ Cardinality(S \ {t}) \in Nat
        /\ Cardinality(S) = Cardinality(S \ {t}) + 1
    BY <1>1, SetGrows, SetCounted
  <1>3. QED
    BY <1>2

-----------------------------------------------------------------------------
(* The threads' states, whatever races. *)

\* At the start every thread is where it may be.
LEMMA StateInit == Init => StateInv
  <1> SUFFICES ASSUME Init
               PROVE  StateInv
    OBVIOUS
  <1> USE ConstChannelPoolAssumption DEF Init, Channels, None
  <1>1. TypeOK
    <2>1. users \subseteq Threads
      OBVIOUS
    <2>2. refs \in [Channels -> Int]
      OBVIOUS
    <2>3. created \in Channels /\ channel \in Channels
      OBVIOUS
    <2>4. QED
      BY <2>1, <2>2, <2>3 DEF TypeOK, Serving
  <1>2. Known /\ MainInv /\ PollerInv /\ Loaded /\ FreshUnseen
    BY DEF Known, MainInv, PollerInv, Loaded, FreshUnseen, Replacing, Publishing
  <1>3. QED
    BY <1>1, <1>2 DEF StateInv

\* Dropping a reference keeps the types.
LEMMA DropTyped ==
    ASSUME refs \in [Channels -> Int], freed \subseteq Channels, NEW c \in Channels, Drop(c)
    PROVE  refs' \in [Channels -> Int] /\ freed' \subseteq Channels
  <1>1. refs' = [refs EXCEPT ![c] = refs[c] - 1] /\ freed' \subseteq freed \cup {c}
    BY DEF Drop
  <1>2. refs[c] - 1 \in Int
    OBVIOUS
  <1>3. QED
    BY <1>1, <1>2

\* A thread that moves between two places where it has a stub, or between two where
\* it has none, keeps its stub.
LEMMA PlacesTyped ==
    ASSUME TypeOK, NEW t \in Threads,
           NEW label \in Serving \cup {"idle", "copying", "done"}, Goto(t, label),
           label \in Serving <=> pc[t] \in Serving, stub' = stub
    PROVE  /\ pc' \in [Threads -> Serving \cup {"idle", "copying", "done"}]
           /\ \A u \in Threads : stub'[u] # None <=> pc'[u] \in Serving
  BY DEF TypeOK, Goto

\* A thread that drops its stub is where it has none.
LEMMA StubDropped ==
    ASSUME TypeOK, NEW t \in Threads, DropStub(t)
    PROVE  /\ pc' \in [Threads -> Serving \cup {"idle", "copying", "done"}]
           /\ stub' \in [Threads -> Channels \cup {None}]
           /\ \A u \in Threads : stub'[u] # None <=> pc'[u] \in Serving
  <1>1. "idle" \notin Serving
    BY DEF Serving
  <1>2. /\ pc' = [pc EXCEPT ![t] = "idle"] /\ stub' = [stub EXCEPT ![t] = None]
        /\ pc \in [Threads -> Serving \cup {"idle", "copying", "done"}]
        /\ stub \in [Threads -> Channels \cup {None}]
        /\ \A u \in Threads : stub[u] # None <=> pc[u] \in Serving
    BY DEF TypeOK, DropStub, Goto
  <1>3. QED
    BY <1>1, <1>2

\* Every step keeps the types.
LEMMA TypeStep == StateInv /\ [Next]_vars => TypeOK'
  <1> SUFFICES ASSUME StateInv, [Next]_vars
               PROVE  TypeOK'
    OBVIOUS
  <1>1. TypeOK /\ Loaded /\ MainInv
    BY DEF StateInv
  <1>2. users \subseteq Threads
    BY <1>1 DEF TypeOK
  <1> USE <1>1, ConstChannelPoolAssumption
      DEF TypeOK, Channels, None, Serving, Goto, poolVars, workerVars, pollerVars
  <1>3. ASSUME NEW t \in Threads, main = "running", LoadChannel(t)
        PROVE  TypeOK'
    BY <1>3 DEF LoadChannel
  <1>4. ASSUME NEW t \in Threads, CopyChannel(t)
        PROVE  TypeOK'
    <2>1. pointer[t] \in Channels
      BY <1>4 DEF CopyChannel, Loaded
    <2>2. refs' \in [Channels -> Int]
      <3>1. refs' = [refs EXCEPT ![pointer[t]] = refs[pointer[t]] + 1]
        BY <1>4 DEF CopyChannel
      <3>2. refs[pointer[t]] + 1 \in Int
        BY <2>1
      <3>3. QED
        BY <2>1, <3>1, <3>2
    <2>3. QED
      BY <1>4, <2>1, <2>2 DEF CopyChannel
  <1>5. ASSUME NEW t \in Threads, ReportResult(t)
        PROVE  TypeOK'
    <2>1. "reported" \in Serving /\ pc[t] \in Serving /\ stub' = stub
      BY <1>5 DEF ReportResult
    <2>2. /\ pc' \in [Threads -> Serving \cup {"idle", "copying", "done"}]
          /\ \A u \in Threads : stub'[u] # None <=> pc'[u] \in Serving
      BY <1>5, <2>1, PlacesTyped DEF ReportResult
    <2> HIDE DEF Serving, Goto, Channels
    <2>3. QED
      BY <1>5, <2>2 DEF ReportResult
  <1>6. ASSUME NEW t \in Threads, CreateChannel(t)
        PROVE  TypeOK'
    <2>1. created + 1 \in Channels
      BY <1>6 DEF CreateChannel
    <2>2. refs' \in [Channels -> Int] /\ fresh' \in [Threads -> Channels \cup {None}]
      BY <1>6, <2>1 DEF CreateChannel
    <2>3. QED
      BY <1>6, <2>1, <2>2 DEF CreateChannel
  <1>7. ASSUME NEW t \in Threads, LoadOld(t)
        PROVE  TypeOK'
    <2>1. "storing" \in Serving /\ pc[t] \in Serving /\ stub' = stub
      BY <1>7 DEF LoadOld
    <2>2. /\ pc' \in [Threads -> Serving \cup {"idle", "copying", "done"}]
          /\ \A u \in Threads : stub'[u] # None <=> pc'[u] \in Serving
      BY <1>7, <2>1, PlacesTyped DEF LoadOld
    <2> HIDE DEF Serving, Goto, Channels, None
    <2>3. pointer' \in [Threads -> Channels \cup {None}]
      BY <1>7 DEF LoadOld
    <2>4. QED
      BY <1>7, <2>2, <2>3 DEF LoadOld
  <1>8. ASSUME NEW t \in Threads, StoreNew(t)
        PROVE  TypeOK'
    <2>1. "releasing" \in Serving /\ pc[t] \in Serving /\ stub' = stub
      BY <1>8 DEF StoreNew
    <2>2. /\ pc' \in [Threads -> Serving \cup {"idle", "copying", "done"}]
          /\ \A u \in Threads : stub'[u] # None <=> pc'[u] \in Serving
      BY <1>8, <2>1, PlacesTyped DEF StoreNew
    <2> HIDE DEF Serving, Goto, Channels
    <2>3. QED
      BY <1>8, <2>2 DEF StoreNew
  <1>9. ASSUME NEW t \in Threads, ReleaseOld(t)
        PROVE  TypeOK'
    <2>1. pointer[t] \in Channels
      BY <1>9 DEF ReleaseOld, Loaded
    <2>2. refs' \in [Channels -> Int] /\ freed' \subseteq Channels
      BY <1>9, <2>1, DropTyped DEF ReleaseOld
    <2>3. "reported" \in Serving /\ pc[t] \in Serving /\ stub' = stub
      BY <1>9 DEF ReleaseOld
    <2>4. /\ pc' \in [Threads -> Serving \cup {"idle", "copying", "done"}]
          /\ \A u \in Threads : stub'[u] # None <=> pc'[u] \in Serving
      BY <1>9, <2>3, PlacesTyped DEF ReleaseOld
    <2> HIDE DEF Serving, Goto, Channels
    <2>5. QED
      BY <1>9, <2>2, <2>4 DEF ReleaseOld
  <1>10. ASSUME NEW t \in Threads, CallAgain(t) \/ Leave(t)
         PROVE  TypeOK'
    <2>1. PICK label \in Serving \cup {"done"} :
             Goto(t, label) /\ (label \in Serving <=> pc[t] \in Serving) /\ stub' = stub
      BY <1>10 DEF CallAgain, Leave
    <2>2. /\ pc' \in [Threads -> Serving \cup {"idle", "copying", "done"}]
          /\ \A u \in Threads : stub'[u] # None <=> pc'[u] \in Serving
      BY <2>1, PlacesTyped
    <2> HIDE DEF Serving, Goto, Channels
    <2>3. QED
      BY <1>10, <2>2 DEF CallAgain, Leave
  <1>11. ASSUME NEW t \in Threads, DropStub(t)
         PROVE  TypeOK'
    <2>1. stub[t] \in Channels
      BY <1>11 DEF DropStub
    <2>2. refs' \in [Channels -> Int] /\ freed' \subseteq Channels
      BY <1>11, <2>1, DropTyped DEF DropStub
    <2>3. /\ pc' \in [Threads -> Serving \cup {"idle", "copying", "done"}]
          /\ stub' \in [Threads -> Channels \cup {None}]
          /\ \A u \in Threads : stub'[u] # None <=> pc'[u] \in Serving
      BY <1>11, StubDropped
    <2> HIDE DEF Serving, Goto, Channels, None
    <2>4. QED
      BY <1>11, <2>2, <2>3 DEF DropStub
  <1>12. CASE ResetChannel
    <2>1. channel \in Channels
      BY <1>12 DEF ResetChannel, MainInv
    <2>2. refs' \in [Channels -> Int] /\ freed' \subseteq Channels
      BY <1>12, <2>1, DropTyped DEF ResetChannel
    <2>3. QED
      BY <1>12, <2>2 DEF ResetChannel
  <1>13. CASE ResetTmpChannel
    <2>1. tmp_channel \in Channels
      BY <1>13 DEF ResetTmpChannel, MainInv
    <2>2. refs' \in [Channels -> Int] /\ freed' \subseteq Channels
      BY <1>13, <2>1, DropTyped DEF ResetTmpChannel
    <2>3. QED
      BY <1>13, <2>2 DEF ResetTmpChannel
  <1>14. CASE SwapChannel \/ Shutdown \/ Join
    BY <1>14 DEF SwapChannel, Shutdown, Join
  <1>15. CASE Poller
    BY <1>15 DEF Poller, NextEvent, HandleEvent, NextShutdown
  <1>16. CASE StateChanges \/ ChannelFreed
    BY <1>16 DEF StateChanges, ChannelFreed, EndWatch
  <1>17. CASE UNCHANGED vars
    BY <1>17 DEF vars
  <1>18. QED
    BY <1>2, <1>3, <1>4, <1>5, <1>6, <1>7, <1>8, <1>9, <1>10, <1>11, <1>12, <1>13, <1>14,
       <1>15, <1>16, <1>17 DEF Next, Worker, Destructor, Gone

\* A worker's step changes its own state, and main() and the poller nothing.
LEMMA WorkerFrame ==
    ASSUME TypeOK, NEW t \in Threads, Worker(t)
    PROVE  /\ main = "running" /\ UNCHANGED <<users, main, pollerVars>>
           /\ \A u \in Threads \ {t} :
                 /\ pc'[u] = pc[u] /\ pointer'[u] = pointer[u]
                 /\ fresh'[u] = fresh[u] /\ stub'[u] = stub[u]
  <1> USE DEF TypeOK, Goto, poolVars, pollerVars
  <1>1. main = "running"
    BY DEF Worker
  <1>2. CASE LoadChannel(t) \/ CopyChannel(t) \/ ReportResult(t)
    BY <1>1, <1>2 DEF LoadChannel, CopyChannel, ReportResult
  <1>3. CASE CreateChannel(t) \/ LoadOld(t) \/ StoreNew(t)
    BY <1>1, <1>3 DEF CreateChannel, LoadOld, StoreNew
  <1>4. CASE ReleaseOld(t) \/ CallAgain(t) \/ DropStub(t) \/ Leave(t)
    BY <1>1, <1>4 DEF ReleaseOld, CallAgain, DropStub, Leave
  <1>5. QED
    BY <1>2, <1>3, <1>4 DEF Worker

\* Every step but a worker's leaves the workers alone.
LEMMA OtherFrame ==
    ASSUME [Next]_vars
    PROVE  \/ \E t \in users : Worker(t)
           \/ UNCHANGED <<users, workerVars, created>>
  BY DEF Next, Destructor, ResetChannel, SwapChannel, ResetTmpChannel, Shutdown, Join,
         Poller, NextEvent, HandleEvent, NextShutdown, StateChanges, ChannelFreed, EndWatch,
         Gone, vars, poolVars

\* What the destructing thread has done by each of its places stays done.
LEMMA MainStep == StateInv /\ [Next]_vars => MainInv'
  <1> SUFFICES ASSUME StateInv, [Next]_vars
               PROVE  MainInv'
    OBVIOUS
  <1>1. TypeOK /\ MainInv /\ FreshUnseen /\ users \subseteq Threads
    BY DEF StateInv, TypeOK
  <1>2. ASSUME NEW t \in users, Worker(t)
        PROVE  MainInv'
    <2>1. /\ main = "running" /\ UNCHANGED <<users, main, poller_channel, tmp_channel>>
          /\ \A u \in Threads \ {t} : pc'[u] = pc[u]
      BY <1>1, <1>2, WorkerFrame DEF pollerVars
    <2>2. channel' # None
      <3>1. CASE StoreNew(t)
        BY <1>1, <3>1 DEF StoreNew, FreshUnseen, Replacing, None
      <3>2. CASE ~StoreNew(t)
        <4>1. channel' = channel
          BY <1>2, <3>2 DEF Worker, LoadChannel, CopyChannel, ReportResult, CreateChannel,
                            LoadOld, ReleaseOld, CallAgain, DropStub, Leave, poolVars
        <4>2. QED
          BY <1>1, <2>1, <4>1 DEF MainInv
      <3>3. QED
        BY <3>1, <3>2
    <2>3. QED
      BY <1>1, <2>1, <2>2 DEF MainInv
  <1> USE <1>1 DEF MainInv, None, poolVars, workerVars, pollerVars
  <1>3. CASE ResetChannel
    BY <1>3 DEF ResetChannel
  <1>4. CASE SwapChannel
    BY <1>4 DEF SwapChannel
  <1>5. CASE ResetTmpChannel
    BY <1>5 DEF ResetTmpChannel
  <1>6. CASE Shutdown
    BY <1>6 DEF Shutdown
  <1>7. CASE Join
    BY <1>7 DEF Join
  <1>8. CASE Poller \/ StateChanges \/ ChannelFreed \/ UNCHANGED vars
    BY <1>8 DEF Poller, NextEvent, HandleEvent, NextShutdown, StateChanges, ChannelFreed,
                EndWatch, vars
  <1>9. QED
    BY <1>2, <1>3, <1>4, <1>5, <1>6, <1>7, <1>8 DEF Next, Destructor, Gone

\* The polling thread leaves its loop only when the queue is shut down and empty.
LEMMA PollerStep == StateInv /\ [Next]_vars => PollerInv'
  <1> SUFFICES ASSUME StateInv, [Next]_vars
               PROVE  PollerInv'
    OBVIOUS
  <1>1. TypeOK /\ PollerInv /\ users \subseteq Threads
    BY DEF StateInv, TypeOK
  <1>2. ASSUME NEW t \in users, Worker(t)
        PROVE  PollerInv'
    BY <1>1, <1>2, WorkerFrame DEF PollerInv, pollerVars
  <1> USE <1>1 DEF PollerInv, pollerVars
  <1>3. CASE Destructor
    BY <1>3 DEF Destructor, ResetChannel, SwapChannel, ResetTmpChannel, Shutdown, Join
  <1>4. CASE Poller
    BY <1>4 DEF Poller, NextEvent, HandleEvent, NextShutdown
  <1>5. CASE StateChanges \/ ChannelFreed
    BY <1>5 DEF StateChanges, ChannelFreed, EndWatch
  <1>6. CASE UNCHANGED vars
    BY <1>6 DEF vars
  <1>7. QED
    BY <1>2, <1>3, <1>4, <1>5, <1>6 DEF Next, Gone

\* A thread in the middle of a copy or an assignment has what it loaded.
LEMMA LoadedStep == StateInv /\ [Next]_vars => Loaded'
  <1> SUFFICES ASSUME StateInv, [Next]_vars
               PROVE  Loaded'
    OBVIOUS
  <1>1. TypeOK /\ Loaded /\ MainInv /\ users \subseteq Threads
    BY DEF StateInv, TypeOK
  <1>2. ASSUME NEW t \in Threads, Worker(t)
        PROVE  Loaded'
    <2>1. channel # None
      BY <1>1, <1>2, WorkerFrame DEF MainInv
    <2>2. pc'[t] \in {"copying", "storing", "releasing"} => pointer'[t] # None
      BY <1>1, <1>2, <2>1
         DEF Worker, LoadChannel, CopyChannel, ReportResult, CreateChannel, LoadOld, StoreNew,
             ReleaseOld, CallAgain, DropStub, Leave, TypeOK, Goto, Loaded
    <2>3. \A u \in Threads \ {t} : pc'[u] = pc[u] /\ pointer'[u] = pointer[u]
      BY <1>1, <1>2, WorkerFrame
    <2>4. QED
      BY <1>1, <2>2, <2>3 DEF Loaded
  <1>3. QED
    BY <1>1, <1>2, OtherFrame DEF Loaded, workerVars

\* Whatever is referred to was created.
LEMMA KnownStep == StateInv /\ [Next]_vars => Known'
  <1> SUFFICES ASSUME StateInv, [Next]_vars
               PROVE  Known'
    OBVIOUS
  <1>1. TypeOK /\ Known /\ MainInv /\ users \subseteq Threads
    BY DEF StateInv, TypeOK
  <1>2. created \in Nat \ {0} /\ created + 1 \in Nat /\ Channels \cup {None} \subseteq Nat
    BY <1>1, ConstChannelPoolAssumption DEF TypeOK, Channels, None
  <1> USE <1>1, <1>2 DEF Goto, poolVars
  <1>3. ASSUME NEW t \in Threads, CreateChannel(t)
        PROVE  Known'
    <2>1. /\ created' = created + 1 /\ UNCHANGED <<channel, freed, stub, pointer>>
          /\ \A u \in Threads : fresh'[u] \in {fresh[u], created + 1}
      BY <1>3 DEF CreateChannel, TypeOK
    <2>2. \A k \in Nat : k <= created \/ k = created + 1 => k <= created'
      BY <2>1
    <2>3. QED
      BY <2>1, <2>2 DEF Known, TypeOK
  <1>4. ASSUME NEW t \in Threads, LoadChannel(t) \/ CopyChannel(t)
        PROVE  Known'
    <2>1. /\ UNCHANGED <<channel, created, freed, fresh>>
          /\ \A u \in Threads : /\ stub'[u] \in {stub[u], pointer[u]}
                                 /\ pointer'[u] \in {pointer[u], channel}
      BY <1>4 DEF LoadChannel, CopyChannel, TypeOK
    <2>2. QED
      BY <2>1 DEF Known
  <1>5. ASSUME NEW t \in Threads, LoadOld(t) \/ StoreNew(t)
        PROVE  Known'
    <2>1. /\ UNCHANGED <<created, freed, fresh, stub>>
          /\ channel' \in {channel, fresh[t]}
          /\ \A u \in Threads : pointer'[u] \in {pointer[u], channel}
      BY <1>5 DEF LoadOld, StoreNew, TypeOK
    <2>2. QED
      BY <2>1 DEF Known
  <1>6. ASSUME NEW t \in Threads, ReleaseOld(t) \/ DropStub(t)
        PROVE  Known'
    <2>1. /\ UNCHANGED <<channel, created, fresh, pointer>>
          /\ \A u \in Threads : stub'[u] \in {stub[u], None}
          /\ freed' \subseteq freed \cup {pointer[t], stub[t]}
      BY <1>6 DEF ReleaseOld, DropStub, Drop, TypeOK
    <2>2. None <= created
      BY DEF None
    <2>3. QED
      BY <2>1, <2>2 DEF Known
  <1>7. ASSUME NEW t \in Threads, ReportResult(t) \/ CallAgain(t) \/ Leave(t)
        PROVE  Known'
    BY <1>7 DEF ReportResult, CallAgain, Leave, Known
  <1>8. CASE Destructor
    <2>1. /\ UNCHANGED <<created, workerVars>>
          /\ channel' \in {channel, None}
          /\ freed' \subseteq freed \cup {channel, tmp_channel}
      BY <1>8 DEF Destructor, ResetChannel, SwapChannel, ResetTmpChannel, Shutdown, Join, Drop
    <2>2. None <= created /\ tmp_channel <= created
      BY DEF None, MainInv
    <2>3. QED
      BY <2>1, <2>2 DEF Known, workerVars
  <1>9. CASE Poller \/ StateChanges \/ ChannelFreed \/ UNCHANGED vars
    BY <1>9 DEF Poller, NextEvent, HandleEvent, NextShutdown, StateChanges, ChannelFreed,
                EndWatch, vars, workerVars, Known
  <1>10. QED
    BY <1>3, <1>4, <1>5, <1>6, <1>7, <1>8, <1>9 DEF Next, Worker, Gone

\* A step that neither creates nor stores a channel shows the threads nothing new.
LEMMA FreshStep == StateInv /\ [Next]_vars => FreshUnseen'
  <1> SUFFICES ASSUME StateInv, [Next]_vars
               PROVE  FreshUnseen'
    OBVIOUS
  <1>1. TypeOK /\ Known /\ MainInv /\ FreshUnseen /\ users \subseteq Threads
    BY DEF StateInv, TypeOK
  <1> USE <1>1 DEF TypeOK, Goto, poolVars
  <1>2. ASSUME channel' \in {channel, None}, fresh' = fresh,
               \A u \in Threads :
                  /\ stub'[u] \in {stub[u], pointer[u], None}
                  /\ pointer'[u] \in {pointer[u], channel}
                  /\ Replacing(u)' => Replacing(u)
                  /\ Publishing(u)' => Publishing(u)
        PROVE  FreshUnseen'
    <2>1. \A u \in Threads : Replacing(u) => fresh[u] # None
      BY DEF FreshUnseen, None
    <2>2. \A u \in Threads : Publishing(u) => Replacing(u)
      BY DEF Publishing, Replacing
    <2>3. QED
      BY <1>2, <2>1, <2>2 DEF FreshUnseen
  <1>3. ASSUME NEW t \in Threads, CreateChannel(t)
        PROVE  FreshUnseen'
    <2>1. /\ pc[t] = "calling" /\ pc' = [pc EXCEPT ![t] = "assigning"]
          /\ fresh' = [fresh EXCEPT ![t] = created + 1]
          /\ UNCHANGED <<channel, stub, pointer>>
      BY <1>3 DEF CreateChannel
    <2>2. PICK new : new = created + 1
      OBVIOUS
    <2>3. /\ new > 1 /\ channel # new
          /\ \A u \in Threads : stub[u] # new /\ pointer[u] # new /\ fresh[u] # new
      <3>1. /\ created + 1 > 1 /\ Channels \cup {None} \subseteq Nat
            /\ \A k \in Nat : k <= created => k # created + 1
        BY ConstChannelPoolAssumption DEF Channels, None
      <3>2. QED
        BY <2>2, <3>1 DEF Known
    <2>4. fresh'[t] = new /\ \A u \in Threads \ {t} : fresh'[u] = fresh[u]
      BY <2>1, <2>2
    <2>5. \A u \in Threads \ {t} : pc'[u] = pc[u]
      BY <2>1
    <2>6. ASSUME NEW u \in Threads, Replacing(u)'
          PROVE  /\ fresh'[u] > 1
                 /\ \A v \in Threads : Replacing(v)' /\ v # u => fresh'[v] # fresh'[u]
      <3>1. CASE u = t
        BY <2>3, <2>4, <3>1
      <3>2. CASE u # t
        BY <2>3, <2>4, <2>5, <2>6, <3>2 DEF FreshUnseen, Replacing
      <3>3. QED
        BY <3>1, <3>2
    <2>7. ASSUME NEW u \in Threads, Publishing(u)'
          PROVE  /\ channel # fresh'[u]
                 /\ \A v \in Threads : stub[v] # fresh'[u] /\ pointer[v] # fresh'[u]
      <3>1. CASE u = t
        BY <2>3, <2>4, <3>1
      <3>2. CASE u # t
        BY <2>4, <2>5, <2>7, <3>2 DEF FreshUnseen, Publishing
      <3>3. QED
        BY <3>1, <3>2
    <2>8. QED
      BY <2>1, <2>6, <2>7 DEF FreshUnseen
  <1>4. ASSUME NEW t \in Threads, StoreNew(t)
        PROVE  FreshUnseen'
    <2>1. /\ pc[t] = "storing" /\ pc' = [pc EXCEPT ![t] = "releasing"]
          /\ channel' = fresh[t]
          /\ UNCHANGED <<fresh, stub, pointer>>
      BY <1>4 DEF StoreNew
    <2>2. /\ Replacing(t) /\ ~Publishing(t)'
          /\ \A u \in Threads : Replacing(u)' <=> Replacing(u)
          /\ \A u \in Threads \ {t} : Publishing(u)' <=> Publishing(u)
          /\ \A u \in Threads : Publishing(u) => Replacing(u)
      BY <2>1 DEF Publishing, Replacing
    <2>3. QED
      BY <2>1, <2>2 DEF FreshUnseen
  <1>5. ASSUME NEW t \in Threads, LoadChannel(t) \/ CopyChannel(t) \/ LoadOld(t)
        PROVE  FreshUnseen'
    <2>1. /\ UNCHANGED <<channel, fresh>>
          /\ \A u \in Threads : /\ stub'[u] \in {stub[u], pointer[u]}
                                 /\ pointer'[u] \in {pointer[u], channel}
      BY <1>5 DEF LoadChannel, CopyChannel, LoadOld
    <2>2. \A u \in Threads : /\ Replacing(u)' => Replacing(u)
                             /\ Publishing(u)' => Publishing(u)
      BY <1>5 DEF LoadChannel, CopyChannel, LoadOld, Replacing, Publishing
    <2>3. QED
      BY <1>2, <2>1, <2>2
  <1>6. ASSUME NEW t \in Threads,
               ReportResult(t) \/ ReleaseOld(t) \/ CallAgain(t) \/ DropStub(t) \/ Leave(t)
        PROVE  FreshUnseen'
    <2>1. /\ UNCHANGED <<channel, fresh, pointer>>
          /\ \A u \in Threads : stub'[u] \in {stub[u], None}
      BY <1>6 DEF ReportResult, ReleaseOld, CallAgain, DropStub, Leave
    <2>2. \A u \in Threads : /\ Replacing(u)' => Replacing(u)
                             /\ Publishing(u)' => Publishing(u)
      BY <1>6 DEF ReportResult, ReleaseOld, CallAgain, DropStub, Leave, Replacing, Publishing
    <2>3. QED
      BY <1>2, <2>1, <2>2
  <1>7. CASE ~\E t \in users : Worker(t)
    <2>1. UNCHANGED workerVars
      BY <1>7, OtherFrame
    <2>2. channel' \in {channel, None}
      BY <1>7 DEF Next, Destructor, ResetChannel, SwapChannel, ResetTmpChannel, Shutdown, Join,
                  Poller, NextEvent, HandleEvent, NextShutdown, StateChanges, ChannelFreed,
                  EndWatch, Gone, vars
    <2>3. QED
      BY <1>2, <2>1, <2>2 DEF workerVars, Replacing, Publishing
  <1>8. QED
    BY <1>3, <1>4, <1>5, <1>6, <1>7 DEF Worker

\* The threads' states are right after every step, whatever races.
LEMMA StateStep == StateInv /\ [Next]_vars => StateInv'
  BY TypeStep, KnownStep, MainStep, PollerStep, LoadedStep, FreshStep DEF StateInv

-----------------------------------------------------------------------------
(* The references are exact, while assignments cannot race. *)

\* A pool that races once has raced for ever after.
LEMMA UnracedBefore ==
    ASSUME StateInv, [Next]_vars, Unraced'
    PROVE  Unraced
  <1>1. users' = users
    BY OtherFrame, WorkerFrame DEF StateInv, TypeOK
  <1>2. created' = created \/ created' = created + 1
    <2>1. ASSUME NEW t \in users, Worker(t)
          PROVE  created' = created \/ created' = created + 1
      BY <2>1 DEF Worker, LoadChannel, CopyChannel, ReportResult, CreateChannel, LoadOld,
                  StoreNew, ReleaseOld, CallAgain, DropStub, Leave, poolVars
    <2>2. QED
      BY <2>1, OtherFrame
  <1>3. created \in Nat
    BY ConstChannelPoolAssumption DEF StateInv, TypeOK, Channels
  <1>4. QED
    BY <1>1, <1>2, <1>3 DEF Unraced

\* Until then at most one thread replaces the channel.
LEMMA OneReplaces ==
    ASSUME StateInv, Unraced,
           NEW t \in Threads, NEW u \in Threads, Replacing(t), Replacing(u)
    PROVE  t = u
  <1>1. TypeOK /\ MainInv /\ FreshUnseen /\ Known
    BY DEF StateInv
  <1>2. CASE Cardinality(users) = 1
    <2>1. IsFiniteSet(users)
      BY <1>1, SetCounted DEF TypeOK
    <2>2. PICK x : users = {x}
      BY <1>2, <2>1, FS_Singleton
    <2>3. t \in users /\ u \in users
      BY <1>1 DEF MainInv, Replacing
    <2>4. QED
      BY <2>2, <2>3
  <1>3. CASE created <= 2
    <2>1. \A v \in Threads : Replacing(v) => fresh[v] = 2
      <3>1. \A v \in Threads : fresh[v] \in Nat /\ created \in Nat
        BY <1>1, ConstChannelPoolAssumption DEF TypeOK, Channels, None
      <3>2. \A v \in Threads : Replacing(v) => fresh[v] > 1 /\ fresh[v] <= created
        BY <1>1 DEF FreshUnseen, Known
      <3>3. QED
        BY <1>3, <3>1, <3>2
    <2>2. QED
      BY <1>1, <2>1 DEF FreshUnseen
  <1>4. QED
    BY <1>2, <1>3 DEF Unraced

\* While nothing raced, somebody owns what a thread has loaded until it is copied.
LEMMA UndisturbedStep ==
    ASSUME StateInv, CountInv, [Next]_vars, Unraced'
    PROVE  \A u \in Threads : Undisturbed(u)'
  <1>1. /\ TypeOK /\ Known /\ MainInv /\ FreshUnseen /\ MainInv'
        /\ Unraced /\ \A u \in Threads : Undisturbed(u)
    BY StateStep, UnracedBefore DEF StateInv, CountInv
  <1> USE <1>1 DEF TypeOK, Goto, poolVars, pollerVars
  <1>2. CASE main' # "running"
    <2>1. \A u \in Threads : pc'[u] \in {"done", "idle"}
      BY <1>2 DEF MainInv
    <2>2. QED
      BY <2>1 DEF Undisturbed
  <1>3. ASSUME NEW t \in Threads, Worker(t), Undisturbed(t)', channel' = channel
        PROVE  \A u \in Threads : Undisturbed(u)'
    BY <1>3, WorkerFrame DEF Undisturbed
  <1>4. ASSUME NEW t \in Threads, Worker(t), ~StoreNew(t)
        PROVE  Undisturbed(t)' /\ channel' = channel
    BY <1>4 DEF Worker, LoadChannel, CopyChannel, ReportResult, CreateChannel, LoadOld,
                ReleaseOld, CallAgain, DropStub, Leave, Undisturbed
  <1>5. ASSUME NEW t \in Threads, Worker(t), StoreNew(t)
        PROVE  \A u \in Threads : Undisturbed(u)'
    <2>1. /\ pc[t] = "storing" /\ pc'[t] = "releasing" /\ pointer' = pointer
          /\ channel' = fresh[t] /\ UNCHANGED <<poller_channel, stub>>
          /\ \A u \in Threads \ {t} : pc'[u] = pc[u]
      BY <1>5 DEF StoreNew
    <2>2. fresh[t] # channel /\ pointer[t] = channel
      BY <2>1 DEF FreshUnseen, Publishing, Undisturbed
    <2>3. \A u \in Threads \ {t} : ~Replacing(u)
      BY <2>1, OneReplaces DEF Replacing
    <2>4. ASSUME NEW u \in Threads \ {t}, pc[u] = "copying"
          PROVE  pointer[u] = poller_channel
      <3>1. Cardinality(users) # 1
        <4>1. IsFiniteSet(users) /\ t \in users /\ u \in users
          BY <2>1, <2>4, SetCounted DEF MainInv
        <4>2. QED
          BY <4>1, FS_Singleton
      <3>2. created <= 2 /\ created \in Nat
        BY <3>1, ConstChannelPoolAssumption DEF Unraced, Channels
      <3>3. fresh[t] \in Nat /\ fresh[t] > 1 /\ fresh[t] <= created
        BY <2>1, ConstChannelPoolAssumption DEF FreshUnseen, Replacing, Known, Channels, None
      <3>4. main = "running" /\ channel \in Nat \ {0} /\ channel <= created
        BY <1>5, ConstChannelPoolAssumption DEF Worker, MainInv, Known, Channels, None
      <3>5. channel = 1
        BY <2>2, <3>2, <3>3, <3>4
      <3>6. QED
        BY <2>4, <3>4, <3>5 DEF MainInv, Undisturbed
    <2>5. QED
      BY <2>1, <2>2, <2>3, <2>4 DEF Undisturbed, Replacing
  <1>6. CASE main' = "running" /\ ~\E t \in users : Worker(t)
    <2>1. UNCHANGED workerVars
      BY <1>6, OtherFrame
    <2>2. UNCHANGED <<channel, poller_channel>>
      BY <1>6 DEF Next, Destructor, ResetChannel, SwapChannel, ResetTmpChannel, Shutdown, Join,
                  Poller, NextEvent, HandleEvent, NextShutdown, StateChanges, ChannelFreed,
                  EndWatch, Gone, vars
    <2>3. QED
      BY <2>1, <2>2 DEF Undisturbed, workerVars
  <1>7. QED
    BY <1>2, <1>3, <1>4, <1>5, <1>6

\* What is owned, or a stub's, has a reference.
LEMMA Referenced ==
    ASSUME RefsExact, TypeOK, NEW c \in Channels,
           PoolOwns(c) \/ PollerOwns(c) \/ \E t \in Threads : stub[t] = c
    PROVE  refs[c] \in Nat \ {0}
  <1>1. Stubs(c) \in SUBSET Threads /\ Cardinality(Stubs(c)) \in Nat
    BY SetCounted DEF Stubs
  <1>2. refs[c] = One(PoolOwns(c)) + One(PollerOwns(c)) + Cardinality(Stubs(c))
    BY DEF RefsExact
  <1>3. CASE PoolOwns(c) \/ PollerOwns(c)
    BY <1>1, <1>2, <1>3 DEF One
  <1>4. ASSUME NEW t \in Threads, stub[t] = c
        PROVE  Cardinality(Stubs(c)) # 0
    <2>1. t \in Stubs(c)
      BY <1>4 DEF Stubs
    <2>2. QED
      BY <1>1, <2>1, SetShrinks
  <1>5. QED
    BY <1>1, <1>2, <1>3, <1>4 DEF One

\* Dropping a reference there is keeps the freed channels unreferenced.
LEMMA DropFrees ==
    ASSUME TypeOK, FreedUnreferenced, NEW c \in Channels, refs[c] \in Nat \ {0}, Drop(c)
    PROVE  FreedUnreferenced'
  <1>1. c \notin freed /\ refs \in [Channels -> Int] /\ freed \subseteq Channels
    BY DEF FreedUnreferenced, TypeOK
  <1>2. /\ refs' = [refs EXCEPT ![c] = refs[c] - 1]
        /\ freed' = IF refs[c] = 1 THEN freed \cup {c} ELSE freed
    BY DEF Drop
  <1>3. refs[c] = 1 => refs[c] - 1 = 0
    OBVIOUS
  <1>4. QED
    BY <1>1, <1>2, <1>3 DEF FreedUnreferenced

\* Who owns a channel for the pool: the store moves the references of the new channel
\* and of the old one.
LEMMA StoreKeepsOwners ==
    ASSUME StateInv, CountInv, Unraced, NEW t \in Threads, StoreNew(t), NEW c \in Channels
    PROVE  PoolOwns(c)' <=> PoolOwns(c)
  <1>1. TypeOK /\ Undisturbed(t)
    BY DEF StateInv, CountInv
  <1>2. /\ pc[t] = "storing" /\ pc'[t] = "releasing" /\ channel' = fresh[t]
        /\ UNCHANGED <<fresh, pointer>>
        /\ \A u \in Threads \ {t} : pc'[u] = pc[u]
    BY <1>1 DEF StoreNew, Goto, TypeOK
  <1>3. pointer[t] = channel
    BY <1>1, <1>2 DEF Undisturbed
  <1>4. \A u \in Threads \ {t} : ~Replacing(u)
    BY <1>2, OneReplaces DEF Replacing
  <1>5. PoolOwns(c) <=> c \in {channel, fresh[t]}
    BY <1>2, <1>4 DEF PoolOwns, Publishing, Replacing
  <1>6. PoolOwns(c)' <=> c \in {channel, fresh[t]}
    BY <1>2, <1>3, <1>4 DEF PoolOwns, Publishing, Replacing
  <1>7. QED
    BY <1>5, <1>6

\* The steps that leave channel_ and its replacement alone.
LEMMA OwnersStay ==
    ASSUME TypeOK, channel' = channel, fresh' = fresh,
           \A u \in Threads :
              /\ Publishing(u)' <=> Publishing(u)
              /\ pc'[u] = "releasing" <=> pc[u] = "releasing"
              /\ pc[u] = "releasing" => pointer'[u] = pointer[u]
    PROVE  \A c \in Channels : PoolOwns(c)' <=> PoolOwns(c)
  BY DEF PoolOwns

\* What a copy, and the end of a StubHolder, do to the stubs of each channel.
LEMMA StubGained ==
    ASSUME TypeOK, NEW t \in Threads, stub[t] = None, NEW c \in Channels,
           stub' = [stub EXCEPT ![t] = c], NEW d \in Channels
    PROVE  Cardinality(Stubs(d)') = Cardinality(Stubs(d)) + One(d = c)
  <1>1. /\ Stubs(d) \in SUBSET Threads /\ t \notin Stubs(d)
        /\ Stubs(d)' = IF d = c THEN Stubs(d) \cup {t} ELSE Stubs(d)
    BY DEF Stubs, TypeOK, Channels, None
  <1>2. QED
    BY <1>1, SetGrows, SetCounted DEF One

\* A channel loses one stub when a thread lets go of the one it has.
LEMMA StubLost ==
    ASSUME TypeOK, NEW t \in Threads, NEW c \in Channels, stub[t] = c,
           stub' = [stub EXCEPT ![t] = None], NEW d \in Channels
    PROVE  Cardinality(Stubs(d)') = Cardinality(Stubs(d)) - One(d = c)
  <1>1. /\ Stubs(d) \in SUBSET Threads /\ (t \in Stubs(d) <=> d = c)
        /\ Stubs(d)' = IF d = c THEN Stubs(d) \ {t} ELSE Stubs(d)
    BY DEF Stubs, TypeOK, Channels, None
  <1>2. QED
    BY <1>1, SetShrinks, SetCounted DEF One

\* While nothing raced, every step counts the references it makes and drops, and
\* frees a channel with its last one.
LEMMA RefsStep ==
    ASSUME StateInv, CountInv, [Next]_vars, Unraced'
    PROVE  RefsExact' /\ FreedUnreferenced'
  <1>1. /\ TypeOK /\ Known /\ MainInv /\ FreshUnseen /\ Unraced
        /\ RefsExact /\ FreedUnreferenced /\ \A u \in Threads : Undisturbed(u)
    BY UnracedBefore DEF StateInv, CountInv
  <1> USE <1>1 DEF TypeOK, Goto, poolVars, workerVars, pollerVars
  <1>2. ASSUME UNCHANGED <<refs, freed, stub, poller_channel, tmp_channel>>,
               \A c \in Channels : PoolOwns(c)' <=> PoolOwns(c)
        PROVE  RefsExact' /\ FreedUnreferenced'
    BY <1>2 DEF RefsExact, FreedUnreferenced, Stubs, PollerOwns, One
  <1>3. ASSUME NEW t \in Threads, LoadChannel(t) \/ LoadOld(t)
        PROVE  RefsExact' /\ FreedUnreferenced'
    <2>1. \A c \in Channels : PoolOwns(c)' <=> PoolOwns(c)
      <3>1. \A u \in Threads :
              /\ Publishing(u)' <=> Publishing(u)
              /\ pc'[u] = "releasing" <=> pc[u] = "releasing"
              /\ pc[u] = "releasing" => pointer'[u] = pointer[u]
        BY <1>3 DEF LoadChannel, LoadOld, Publishing
      <3>2. QED
        BY <1>3, <3>1, OwnersStay DEF LoadChannel, LoadOld
    <2>2. QED
      BY <1>2, <1>3, <2>1 DEF LoadChannel, LoadOld
  <1>4. ASSUME NEW t \in Threads, ReportResult(t) \/ CallAgain(t) \/ Leave(t)
        PROVE  RefsExact' /\ FreedUnreferenced'
    <2>1. \A c \in Channels : PoolOwns(c)' <=> PoolOwns(c)
      <3>1. \A u \in Threads :
              /\ Publishing(u)' <=> Publishing(u)
              /\ pc'[u] = "releasing" <=> pc[u] = "releasing"
              /\ pc[u] = "releasing" => pointer'[u] = pointer[u]
        BY <1>4 DEF ReportResult, CallAgain, Leave, Publishing
      <3>2. QED
        BY <1>4, <3>1, OwnersStay DEF ReportResult, CallAgain, Leave
    <2>2. QED
      BY <1>2, <1>4, <2>1 DEF ReportResult, CallAgain, Leave
  <1>5. ASSUME NEW t \in Threads, StoreNew(t)
        PROVE  RefsExact' /\ FreedUnreferenced'
    BY <1>2, <1>5, StoreKeepsOwners DEF StoreNew
  <1>6. CASE SwapChannel
    <2>1. {poller_channel', tmp_channel'} = {poller_channel, tmp_channel}
      BY <1>6 DEF SwapChannel
    <2>2. \A c : PollerOwns(c)' <=> PollerOwns(c)
      BY <2>1 DEF PollerOwns
    <2>3. \A c \in Channels : PoolOwns(c)' <=> PoolOwns(c)
      BY <1>6, OwnersStay DEF SwapChannel, Publishing
    <2>4. UNCHANGED <<refs, freed, stub>>
      BY <1>6 DEF SwapChannel
    <2>5. QED
      BY <2>2, <2>3, <2>4 DEF RefsExact, FreedUnreferenced, Stubs, One
  <1>7. CASE Shutdown \/ Join \/ Poller \/ StateChanges \/ ChannelFreed \/ UNCHANGED vars
    <2>1. /\ UNCHANGED <<poolVars, workerVars, poller_channel, tmp_channel>>
      BY <1>7 DEF Shutdown, Join, Poller, NextEvent, HandleEvent, NextShutdown, StateChanges,
                  ChannelFreed, EndWatch, vars
    <2>2. \A c \in Channels : PoolOwns(c)' <=> PoolOwns(c)
      BY <2>1, OwnersStay DEF Publishing
    <2>3. QED
      BY <1>2, <2>1, <2>2
  <1>8. ASSUME NEW t \in Threads, CopyChannel(t)
        PROVE  RefsExact' /\ FreedUnreferenced'
    <2>1. PICK c \in Channels \cup {None} : c = pointer[t]
      OBVIOUS
    <2>2. /\ refs' = [refs EXCEPT ![c] = refs[c] + 1] /\ stub' = [stub EXCEPT ![t] = c]
          /\ pc[t] = "copying" /\ UNCHANGED <<freed, poller_channel, tmp_channel>>
      BY <1>8, <2>1 DEF CopyChannel
    <2>3. c \in Channels /\ c \in {channel, poller_channel} /\ stub[t] = None
      BY <2>1, <2>2 DEF StateInv, Loaded, Undisturbed, Serving
    <2>4. refs[c] \in Nat \ {0}
      BY <2>3, Referenced DEF PoolOwns, PollerOwns
    <2>5. \A d \in Channels : PoolOwns(d)' <=> PoolOwns(d)
      <3>1. \A u \in Threads : /\ Publishing(u)' <=> Publishing(u)
                               /\ pc'[u] = "releasing" <=> pc[u] = "releasing"
        BY <1>8 DEF CopyChannel, Publishing
      <3>2. QED
        BY <1>8, <3>1, OwnersStay DEF CopyChannel
    <2>6. RefsExact'
      <3>1. SUFFICES ASSUME NEW d \in Channels
                     PROVE  refs'[d] = One(PoolOwns(d)') + One(PollerOwns(d)')
                                         + Cardinality(Stubs(d)')
        BY DEF RefsExact
      <3>2. Cardinality(Stubs(d)') = Cardinality(Stubs(d)) + One(d = c)
        <4>1. stub[t] = None /\ stub' = [stub EXCEPT ![t] = c]
          BY <2>2, <2>3
        <4> HIDE DEF TypeOK, Channels
        <4>2. TypeOK /\ c \in Channels
          BY <1>1, <2>3
        <4>3. QED
          BY <4>1, <4>2, StubGained, ZenonT(30)
      <3>3. refs[d] = One(PoolOwns(d)) + One(PollerOwns(d)) + Cardinality(Stubs(d))
        BY DEF RefsExact
      <3>4. refs'[d] = refs[d] + One(d = c)
        BY <2>2, <2>3 DEF One
      <3>5. PollerOwns(d)' <=> PollerOwns(d)
        BY <2>2 DEF PollerOwns
      <3>6. Cardinality(Stubs(d)) \in Nat
        BY SetCounted DEF Stubs
      <3>7. QED
        BY <2>5, <3>2, <3>3, <3>4, <3>5, <3>6 DEF One
    <2>7. FreedUnreferenced'
      BY <2>2, <2>3, <2>4 DEF FreedUnreferenced
    <2>8. QED
      BY <2>6, <2>7
  <1>9. ASSUME NEW t \in Threads, DropStub(t)
        PROVE  RefsExact' /\ FreedUnreferenced'
    <2>1. PICK c \in Channels : c = stub[t]
      BY <1>9 DEF DropStub, Serving
    <2>2. /\ Drop(c) /\ refs' = [refs EXCEPT ![c] = refs[c] - 1]
          /\ stub' = [stub EXCEPT ![t] = None]
          /\ UNCHANGED <<poller_channel, tmp_channel>>
      BY <1>9, <2>1 DEF DropStub, Drop
    <2>3. refs[c] \in Nat \ {0}
      BY <2>1, Referenced
    <2>4. \A d \in Channels : PoolOwns(d)' <=> PoolOwns(d)
      <3>1. \A u \in Threads : /\ Publishing(u)' <=> Publishing(u)
                               /\ pc'[u] = "releasing" <=> pc[u] = "releasing"
        BY <1>9 DEF DropStub, Publishing
      <3>2. QED
        BY <1>9, <3>1, OwnersStay DEF DropStub
    <2>5. RefsExact'
      <3>1. SUFFICES ASSUME NEW d \in Channels
                     PROVE  refs'[d] = One(PoolOwns(d)') + One(PollerOwns(d)')
                                         + Cardinality(Stubs(d)')
        BY DEF RefsExact
      <3>2. Cardinality(Stubs(d)') = Cardinality(Stubs(d)) - One(d = c)
        <4> HIDE DEF TypeOK
        <4>1. QED
          BY <1>1, <2>1, <2>2, StubLost, ZenonT(30)
      <3>3. refs[d] = One(PoolOwns(d)) + One(PollerOwns(d)) + Cardinality(Stubs(d))
        BY DEF RefsExact
      <3>4. refs'[d] = refs[d] - One(d = c)
        BY <2>2 DEF One
      <3>5. PollerOwns(d)' <=> PollerOwns(d)
        BY <2>2 DEF PollerOwns
      <3>6. Cardinality(Stubs(d)) \in Nat
        BY SetCounted DEF Stubs
      <3>7. QED
        BY <2>4, <3>2, <3>3, <3>4, <3>5, <3>6 DEF One
    <2>6. FreedUnreferenced'
      BY <2>2, <2>3, DropFrees
    <2>7. QED
      BY <2>5, <2>6
  <1>10. ASSUME NEW t \in Threads, CreateChannel(t)
         PROVE  RefsExact' /\ FreedUnreferenced'
    <2>1. PICK c \in Channels : c = created + 1
      BY <1>10, ConstChannelPoolAssumption DEF CreateChannel, Channels
    <2>2. /\ pc[t] = "calling" /\ pc' = [pc EXCEPT ![t] = "assigning"]
          /\ refs' = [refs EXCEPT ![c] = 1] /\ fresh' = [fresh EXCEPT ![t] = c]
          /\ UNCHANGED <<channel, freed, pointer, stub, poller_channel, tmp_channel>>
      BY <1>10, <2>1 DEF CreateChannel
    <2>3. /\ c \notin freed /\ ~PollerOwns(c)
          /\ \A u \in Threads : stub[u] # c
      <3>1. /\ Channels \cup {None} \subseteq Nat /\ c > 1
            /\ \A k \in Nat : k <= created => k # c
        BY <2>1, ConstChannelPoolAssumption DEF Channels, None
      <3>2. QED
        BY <3>1 DEF Known, PollerOwns, MainInv, None
    <2>4. RefsExact'
      <3>1. SUFFICES ASSUME NEW d \in Channels
                     PROVE  refs'[d] = One(PoolOwns(d)') + One(PollerOwns(d)')
                                         + Cardinality(Stubs(d)')
        BY DEF RefsExact
      <3>2. /\ PollerOwns(d)' <=> PollerOwns(d)
            /\ Stubs(d)' = Stubs(d)
        BY <2>2 DEF PollerOwns, Stubs
      <3>3. CASE d = c
        <4>1. PoolOwns(c)' /\ refs'[c] = 1
          BY <2>2 DEF PoolOwns, Publishing
        <4>2. Stubs(c) = {}
          BY <2>3 DEF Stubs
        <4>3. Cardinality(Stubs(c)) = 0
          BY <4>2, FS_EmptySet
        <4>4. QED
          BY <2>3, <3>2, <3>3, <4>1, <4>3 DEF One
      <3>4. CASE d # c
        <4>1. PoolOwns(d)' <=> PoolOwns(d)
          BY <2>2, <3>4 DEF PoolOwns, Publishing
        <4>2. refs'[d] = refs[d]
          BY <2>2, <3>4
        <4>3. QED
          BY <3>2, <4>1, <4>2 DEF RefsExact, One
      <3>5. QED
        BY <3>3, <3>4
    <2>5. FreedUnreferenced'
      BY <2>2, <2>3 DEF FreedUnreferenced
    <2>6. QED
      BY <2>4, <2>5
  <1>11. ASSUME NEW t \in Threads, ReleaseOld(t)
         PROVE  RefsExact' /\ FreedUnreferenced'
    <2>1. PICK c \in Channels : c = pointer[t]
      BY <1>11 DEF ReleaseOld, StateInv, Loaded
    <2>2. /\ pc[t] = "releasing" /\ pc' = [pc EXCEPT ![t] = "reported"]
          /\ Drop(c) /\ refs' = [refs EXCEPT ![c] = refs[c] - 1]
          /\ UNCHANGED <<channel, fresh, pointer, stub, poller_channel, tmp_channel>>
      BY <1>11, <2>1 DEF ReleaseOld, Drop
    <2>3. PoolOwns(c)
      BY <2>1, <2>2 DEF PoolOwns
    <2>4. refs[c] \in Nat \ {0}
      BY <2>3, Referenced
    <2>5. \A u \in Threads \ {t} : ~Replacing(u)
      BY <2>2, OneReplaces DEF Replacing
    <2>6. ~PoolOwns(c)'
      <3>1. channel # c
        BY <2>1, <2>2 DEF Undisturbed
      <3>2. QED
        BY <2>2, <2>5, <3>1 DEF PoolOwns, Publishing, Replacing
    <2>7. \A d \in Channels \ {c} : PoolOwns(d)' <=> PoolOwns(d)
      BY <2>1, <2>2 DEF PoolOwns, Publishing
    <2>8. RefsExact'
      <3>1. SUFFICES ASSUME NEW d \in Channels
                     PROVE  refs'[d] = One(PoolOwns(d)') + One(PollerOwns(d)')
                                         + Cardinality(Stubs(d)')
        BY DEF RefsExact
      <3>2. /\ PollerOwns(d)' <=> PollerOwns(d)
            /\ Stubs(d)' = Stubs(d) /\ Cardinality(Stubs(d)) \in Nat
        BY <2>2, SetCounted DEF PollerOwns, Stubs
      <3>3. refs[d] = One(PoolOwns(d)) + One(PollerOwns(d)) + Cardinality(Stubs(d))
        BY DEF RefsExact
      <3>4. refs'[d] = refs[d] - One(d = c)
        BY <2>2 DEF One
      <3>5. QED
        BY <2>3, <2>6, <2>7, <3>2, <3>3, <3>4 DEF One
    <2>9. FreedUnreferenced'
      BY <2>2, <2>4, DropFrees
    <2>10. QED
      BY <2>8, <2>9
  <1>12. CASE ResetChannel
    <2>1. PICK c \in Channels : c = channel
      BY <1>12 DEF ResetChannel, MainInv
    <2>2. /\ channel' = None /\ main' # "running"
          /\ Drop(c) /\ refs' = [refs EXCEPT ![c] = refs[c] - 1]
          /\ UNCHANGED <<pc, fresh, pointer, stub, poller_channel, tmp_channel>>
      BY <1>12, <2>1 DEF ResetChannel, Drop
    <2>3. PoolOwns(c)
      BY <2>1 DEF PoolOwns
    <2>4. refs[c] \in Nat \ {0}
      BY <2>3, Referenced
    <2>5. \A u \in Threads : pc[u] \in {"done", "idle"}
      BY <1>12 DEF ResetChannel, MainInv
    <2>6. /\ ~PoolOwns(c)'
          /\ \A d \in Channels \ {c} : ~PoolOwns(d)' /\ ~PoolOwns(d)
      <3>1. None \notin Channels
        BY DEF Channels, None
      <3>2. \A d \in Channels : (PoolOwns(d) <=> d = channel) /\ ~PoolOwns(d)'
        BY <2>2, <2>5, <3>1 DEF PoolOwns, Publishing
      <3>3. QED
        BY <2>1, <3>2
    <2>7. RefsExact'
      <3>1. SUFFICES ASSUME NEW d \in Channels
                     PROVE  refs'[d] = One(PoolOwns(d)') + One(PollerOwns(d)')
                                         + Cardinality(Stubs(d)')
        BY DEF RefsExact
      <3>2. /\ PollerOwns(d)' <=> PollerOwns(d)
            /\ Stubs(d)' = Stubs(d) /\ Cardinality(Stubs(d)) \in Nat
        BY <2>2, SetCounted DEF PollerOwns, Stubs
      <3>3. refs[d] = One(PoolOwns(d)) + One(PollerOwns(d)) + Cardinality(Stubs(d))
        BY DEF RefsExact
      <3>4. refs'[d] = refs[d] - One(d = c)
        BY <2>2 DEF One
      <3>5. QED
        BY <2>3, <2>6, <3>2, <3>3, <3>4 DEF One
    <2>8. FreedUnreferenced'
      BY <2>2, <2>4, DropFrees
    <2>9. QED
      BY <2>7, <2>8
  <1>13. CASE ResetTmpChannel
    <2>1. PICK c \in Channels : c = tmp_channel
      <3>1. tmp_channel = 1 /\ 1 \in Channels
        BY <1>13, ConstChannelPoolAssumption DEF ResetTmpChannel, MainInv, Channels
      <3>2. QED
        BY <3>1
    <2>2. /\ tmp_channel' = None /\ Drop(c) /\ refs' = [refs EXCEPT ![c] = refs[c] - 1]
          /\ UNCHANGED <<channel, pc, fresh, pointer, stub, poller_channel>>
      BY <1>13, <2>1 DEF ResetTmpChannel, Drop
    <2>3. PollerOwns(c) /\ poller_channel = None
      BY <1>13, <2>1 DEF PollerOwns, ResetTmpChannel, MainInv
    <2>4. refs[c] \in Nat \ {0}
      BY <2>3, Referenced
    <2>5. \A d \in Channels : /\ ~PollerOwns(d)'
                              /\ PollerOwns(d) <=> d = c
                              /\ PoolOwns(d)' <=> PoolOwns(d)
      BY <2>1, <2>2, <2>3 DEF PollerOwns, PoolOwns, Publishing, Channels, None
    <2>6. RefsExact'
      <3>1. SUFFICES ASSUME NEW d \in Channels
                     PROVE  refs'[d] = One(PoolOwns(d)') + One(PollerOwns(d)')
                                         + Cardinality(Stubs(d)')
        BY DEF RefsExact
      <3>2. Stubs(d)' = Stubs(d) /\ Cardinality(Stubs(d)) \in Nat
        BY <2>2, SetCounted DEF Stubs
      <3>3. refs[d] = One(PoolOwns(d)) + One(PollerOwns(d)) + Cardinality(Stubs(d))
        BY DEF RefsExact
      <3>4. refs'[d] = refs[d] - One(d = c)
        BY <2>2 DEF One
      <3>5. QED
        BY <2>5, <3>2, <3>3, <3>4 DEF One
    <2>7. FreedUnreferenced'
      BY <2>2, <2>4, DropFrees
    <2>8. QED
      BY <2>6, <2>7
  <1>14. QED
    BY <1>3, <1>4, <1>5, <1>6, <1>7, <1>8, <1>9, <1>10, <1>11, <1>12, <1>13
       DEF Next, Worker, Destructor, Gone

\* At the start the pool and the poller have the only references.
LEMMA CountInit == Init => CountInv
  <1> SUFFICES ASSUME Init
               PROVE  CountInv
    OBVIOUS
  <1> USE DEF Init, None
  <1>1. (\A t \in Threads : Undisturbed(t)) /\ FreedUnreferenced
    BY DEF Undisturbed, FreedUnreferenced
  <1>2. SUFFICES ASSUME NEW c \in Channels
                 PROVE  refs[c] = One(PoolOwns(c)) + One(PollerOwns(c)) + Cardinality(Stubs(c))
    BY <1>1 DEF CountInv, RefsExact
  <1>3. Stubs(c) = {}
    BY DEF Stubs, Channels
  <1>4. Cardinality(Stubs(c)) = 0
    BY <1>3, FS_EmptySet
  <1>5. (PoolOwns(c) <=> c = 1) /\ (PollerOwns(c) <=> c = 1)
    BY DEF PoolOwns, PollerOwns, Publishing, Channels
  <1>6. refs[c] = IF c = 1 THEN 2 ELSE 0
    OBVIOUS
  <1>7. QED
    BY <1>4, <1>5, <1>6 DEF One

\* Every step keeps the whole invariant.
LEMMA PoolStep == PoolInv /\ [Next]_vars => PoolInv'
  <1> SUFFICES ASSUME StateInv, CountInv, [Next]_vars
               PROVE  StateInv' /\ CountInv'
    BY DEF PoolInv
  <1>1. StateInv'
    BY StateStep
  <1>2. ASSUME Unraced'
        PROVE  (\A t \in Threads : Undisturbed(t)') /\ RefsExact' /\ FreedUnreferenced'
    BY <1>2, UndisturbedStep, RefsStep
  <1>3. QED
    BY <1>1, <1>2 DEF CountInv

\* A channel with a reference is not freed, so nothing that refers to one is wrong.
LEMMA AliveFromInv == PoolInv => ChannelsAlive
  <1> SUFFICES ASSUME PoolInv, Unraced,
                      NEW c \in {channel, poller_channel, tmp_channel} \cup
                                  {stub[t] : t \in Threads}
               PROVE  c \notin freed
    BY DEF ChannelsAlive, Unraced
  <1>1. TypeOK /\ RefsExact /\ FreedUnreferenced
    BY DEF PoolInv, StateInv, CountInv
  <1>2. PoolOwns(c) \/ PollerOwns(c) \/ \E t \in Threads : stub[t] = c
    BY DEF PoolOwns, PollerOwns
  <1>3. CASE c \in Channels
    BY <1>1, <1>2, <1>3, Referenced DEF FreedUnreferenced
  <1>4. CASE c \notin Channels
    BY <1>1, <1>4 DEF TypeOK
  <1>5. QED
    BY <1>3, <1>4

\* Everything the pool and its poller promise, and what it takes to keep it.
THEOREM PoolInvariant == Spec => []PoolInv
  <1>1. Init => PoolInv
    BY StateInit, CountInit DEF PoolInv
  <1>2. QED
    BY <1>1, PoolStep, PTL DEF Spec

\* Every variable of ConstChannelPool, of its poller and of its clients keeps its
\* type, and a thread has a stub exactly while it makes calls.
THEOREM TypeCorrect == Spec => []TypeOK
  <1>1. PoolInv => TypeOK
    BY DEF PoolInv, StateInv
  <1>2. QED
    BY <1>1, PoolInvariant, PTL

\* While assignments of channel_ cannot race, no shared_ptr to a channel outlives it.
THEOREM AliveWhileUnraced == Spec => []ChannelsAlive
  <1>1. QED
    BY AliveFromInv, PoolInvariant, PTL

\* ~ChannelPoller destroys its completion queue only when no watch is left in it.
THEOREM QueueIsDrained == Spec => []QueueDrained
  <1>1. PoolInv => QueueDrained
    BY DEF PoolInv, StateInv, PollerInv, QueueDrained
  <1>2. QED
    BY <1>1, PoolInvariant, PTL

=================================================================================
