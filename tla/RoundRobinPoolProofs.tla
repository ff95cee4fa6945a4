------------------------- MODULE RoundRobinPoolProofs -------------------------
(***************************************************************************)
(* What RoundRobinPool promises, for any number of channels and threads.    *)
(*                                                                         *)
(* A report is right without the lock because a channel is published in one *)
(* slot, once: what a search has passed over never comes back.  That is     *)
(* SearchInv, which holds whatever overlaps.  The reference counts are      *)
(* exact until an assignment overlaps another call, which is CountInv.      *)
(***************************************************************************)
EXTENDS RoundRobinPool, FiniteSetTheorems, TLAPS

\* A channel is owned by the slot it is in, by the thread about to store it, or by
\* the thread that has stored another in its place.
Publishing(t) == pc[t] \in {"assigning", "storing"}

InSlot(c)     == \E s \in Slots : channels[s] = c
Unpublished(c) == \E t \in Threads : Publishing(t) /\ fresh[t] = c
Releasing(c)  == \E t \in Threads : pc[t] = "releasing" /\ pointer[t] = c

Owned(c) == InSlot(c) \/ Unpublished(c) \/ Releasing(c)

Stubs(c) == {t \in Threads : stub[t] = c}

Searching == {u \in Threads : pc[u] \in {"searching", "comparing", "creating"}}

\* Every channel that is anywhere has been created.
Known ==
    /\ \A s \in Slots : channels[s] <= created
    /\ \A t \in Threads : handle[t] <= created /\ fresh[t] <= created
    /\ \A t \in Threads : stub[t] <= created /\ pointer[t] <= created
    /\ \A c \in reported : c <= created

\* A thread between two reports has a handle.
Handles ==
    \A t \in Threads :
        pc[t] \in Reporting \cup {"calling", "reported"} => handle[t] # None

\* A channel about to be stored has not been seen by anybody.
FreshUnseen ==
    \A t \in Threads : Publishing(t) =>
        /\ fresh[t] # None
        /\ ~InSlot(fresh[t])
        /\ fresh[t] \notin reported
        /\ \A u \in Threads :
              /\ handle[u] # fresh[t] /\ stub[u] # fresh[t] /\ pointer[u] # fresh[t]
              /\ Publishing(u) /\ u # t => fresh[u] # fresh[t]

SlotsDiffer == \A r, s \in Slots : r # s => channels[r] # channels[s]

\* Where the handle of a report can still be.
Passed(t) ==
    /\ pc[t] \in {"searching", "comparing"} =>
          \A s \in Slots : s < i[t] => channels[s] # handle[t]
    /\ pc[t] = "comparing" =>
          IF pointer[t] = handle[t]
          THEN \A s \in Slots \ {i[t]} : channels[s] # handle[t]
          ELSE channels[i[t]] # handle[t]
    /\ pc[t] \in {"creating", "assigning", "storing"} =>
          \A s \in Slots \ {i[t]} : channels[s] # handle[t]
    /\ pc[t] = "releasing" => ~InSlot(handle[t])

RoomLeft == created + Cardinality(Searching) <= MaxChannels

SearchInv ==
    /\ TypeOK
    /\ RoomLeft
    /\ Known
    /\ Handles
    /\ FreshUnseen
    /\ SlotsDiffer
    /\ \A t \in Threads : Passed(t)
    /\ HopelessGone

\* One thread is in GetStorageStub.
LockHeld ==
    \A t, u \in Threads : pc[t] \in Getting /\ pc[u] \in Getting => t = u

\* A thread has a stub from the copy in GetStorageStub on.
StubFree == \A t \in Threads : pc[t] \in {"idle", "getting", "copying"} => stub[t] = None

\* What a thread has read from a slot is still there.
Undisturbed(t) ==
    /\ pc[t] = "copying" => pointer[t] = channels[cursor]
    /\ pc[t] = "naming" => stub[t] = channels[cursor]
    /\ pc[t] \in {"comparing", "storing"} => pointer[t] = channels[i[t]]
    /\ pc[t] \in {"creating", "assigning", "storing"} => channels[i[t]] = handle[t]
    /\ pc[t] = "releasing" => pointer[t] = handle[t]
    /\ handle[t] \in {None, stub[t]}

OneReleases ==
    \A t, u \in Threads : pc[t] = "releasing" /\ pc[u] = "releasing" => t = u

RefsExact ==
    \A c \in Channels : refs[c] = (IF Owned(c) THEN 1 ELSE 0) + Cardinality(Stubs(c))

CountInv ==
    ~overlapped =>
        /\ \A t \in Threads : Undisturbed(t)
        /\ OneReleases
        /\ RefsExact

PoolInv == SearchInv /\ LockHeld /\ StubFree /\ CountInv

-----------------------------------------------------------------------------
(* Counting threads. *)

\* A thread that joins a set makes it larger by one.
LEMMA SetGrows ==
    ASSUME NEW S \in SUBSET Threads, NEW t \in Threads, t \notin S
    PROVE  /\ Cardinality(S) \in Nat
           /\ Cardinality(S \cup {t}) = Cardinality(S) + 1
  <1>1. IsFiniteSet(S)
    BY FS_Subset, RoundRobinPoolAssumption
  <1>2. QED
    BY <1>1, FS_CardinalityType, FS_AddElement

\* A thread that leaves a set makes it smaller by one.
LEMMA SetShrinks ==
    ASSUME NEW S \in SUBSET Threads, NEW t \in S
    PROVE  /\ Cardinality(S) \in Nat \ {0}
           /\ Cardinality(S \ {t}) \in Nat
           /\ Cardinality(S \ {t}) = Cardinality(S) - 1
  <1>1. t \notin S \ {t} /\ S = (S \ {t}) \cup {t}
    OBVIOUS
  <1>2. /\ Cardinality(S \ {t}) \in Nat
        /\ Cardinality(S) = Cardinality(S \ {t}) + 1
    BY <1>1, SetGrows
  <1>3. QED
    BY <1>2

\* A set of threads has a number of members.
LEMMA SetCounted ==
    ASSUME NEW S \in SUBSET Threads
    PROVE  Cardinality(S) \in Nat
  BY FS_Subset, FS_CardinalityType, RoundRobinPoolAssumption

-----------------------------------------------------------------------------
(* Reports are right, whatever overlaps. *)

\* At the start nobody searches.
LEMMA SearchInit == Init => SearchInv
  <1> SUFFICES ASSUME Init
               PROVE  SearchInv
    OBVIOUS
  <1> USE RoundRobinPoolAssumption DEF Init, Slots, Channels, None
  <1>1. TypeOK
    <2>1. channels \in [Slots -> Channels]
      OBVIOUS
    <2>2. refs \in [Channels -> Nat]
      OBVIOUS
    <2>3. /\ cursor \in Slots /\ created \in Size .. MaxChannels
          /\ i \in [Threads -> Slots]
      OBVIOUS
    <2>4. QED
      BY <2>1, <2>2, <2>3 DEF TypeOK
  <1>2. RoomLeft
    <2>1. Searching = {}
      BY DEF Searching
    <2>2. QED
      BY <2>1, FS_EmptySet DEF RoomLeft
  <1>3. Known /\ Handles /\ FreshUnseen
    BY DEF Known, Handles, FreshUnseen, Publishing, Reporting
  <1>4. SlotsDiffer
    BY DEF SlotsDiffer
  <1>5. \A t \in Threads : Passed(t)
    BY DEF Passed
  <1>6. HopelessGone
    BY DEF HopelessGone
  <1>7. QED
    BY <1>1, <1>2, <1>3, <1>4, <1>5, <1>6 DEF SearchInv

\* A search that is not at its last slot has a next one.
LEMMA NextSlot ==
    \A k \in Slots : k + 1 < Size => k + 1 \in Slots
  BY RoundRobinPoolAssumption DEF Slots

\* Dropping a reference keeps the type.
LEMMA DropTyped ==
    ASSUME refs \in [Channels -> Nat], NEW c, Drop(c)
    PROVE  refs' \in [Channels -> Nat]
  <1>1. (IF refs[c] = 0 THEN 0 ELSE refs[c] - 1) \in Nat \/ c \notin Channels
    OBVIOUS
  <1>2. refs' = [refs EXCEPT ![c] = IF refs[c] = 0 THEN 0 ELSE refs[c] - 1]
    BY DEF Drop
  <1>3. QED
    BY <1>1, <1>2

\* Every step keeps the types.
LEMMA TypeStep == SearchInv /\ [Next]_vars => TypeOK'
  <1> SUFFICES ASSUME SearchInv, [Next]_vars
               PROVE  TypeOK'
    OBVIOUS
  <1>1. TypeOK
    BY DEF SearchInv
  <1> USE RoundRobinPoolAssumption, <1>1
      DEF TypeOK, Slots, Channels, None, Getting, Reporting, Goto, EndReport
  <1>2. ASSUME NEW t \in Threads, Advance(t)
        PROVE  TypeOK'
    <2>1. (cursor + 1) % Size \in 0 .. Size - 1
      OBVIOUS
    <2>2. QED
      BY <1>2, <2>1 DEF Advance
  <1>3. ASSUME NEW t \in Threads, LoadChannel(t)
        PROVE  TypeOK'
    BY <1>3 DEF LoadChannel
  <1>4. ASSUME NEW t \in Threads, CopyChannel(t)
        PROVE  TypeOK'
    <2>1. refs' \in [Channels -> Nat]
      <3>1. \A c \in Channels : refs[c] + 1 \in Nat
        OBVIOUS
      <3>2. refs' = [refs EXCEPT ![pointer[t]] = refs[pointer[t]] + 1]
        BY <1>4 DEF CopyChannel
      <3>3. QED
        BY <3>1, <3>2
    <2>2. QED
      BY <1>4, <2>1 DEF CopyChannel
  <1>5. ASSUME NEW t \in Threads, TakeHandle(t)
        PROVE  TypeOK'
    BY <1>5 DEF TakeHandle
  <1>6. ASSUME NEW t \in Threads, ReportFine(t)
        PROVE  TypeOK'
    BY <1>6 DEF ReportFine
  <1>7. ASSUME NEW t \in Threads, ReportHopeless(t)
        PROVE  TypeOK'
    <2>1. /\ i' = [i EXCEPT ![t] = 0]
          /\ pc' = [pc EXCEPT ![t] = "searching"]
          /\ UNCHANGED <<channels, cursor, created, refs, pointer, fresh, stub, handle,
                         reported, overlapped>>
      BY <1>7 DEF ReportHopeless
    <2>2. 0 \in Slots
      OBVIOUS
    <2>3. QED
      BY <2>1, <2>2
  <1>8. ASSUME NEW t \in Threads, LoadSlot(t)
        PROVE  TypeOK'
    BY <1>8 DEF LoadSlot
  <1>9. ASSUME NEW t \in Threads, CompareSlot(t)
        PROVE  TypeOK'
    <2>1. handle[t] \in Channels
      BY <1>9 DEF SearchInv, Handles, CompareSlot
    <2>2. /\ pc' \in [Threads -> Getting \cup Reporting \cup
                                {"idle", "calling", "reported", "done"}]
          /\ reported' \subseteq Channels
      BY <1>9, <2>1 DEF CompareSlot
    <2>3. i' \in [Threads -> Slots]
      <3>1. CASE i' = i
        BY <3>1
      <3>2. CASE i[t] + 1 < Size /\ i' = [i EXCEPT ![t] = i[t] + 1]
        <4>1. i[t] + 1 \in Slots
          BY <3>2, NextSlot
        <4>2. QED
          BY <3>2, <4>1
      <3>3. QED
        BY <1>9, <3>1, <3>2 DEF CompareSlot
    <2>4. QED
      BY <1>9, <2>2, <2>3 DEF CompareSlot
  <1>10. ASSUME NEW t \in Threads, CreateChannel(t)
         PROVE  TypeOK'
    <2>1. Searching \in SUBSET Threads /\ t \in Searching
      BY <1>10 DEF Searching, CreateChannel
    <2>2. created + 1 \in Size .. MaxChannels
      <3>1. Cardinality(Searching) \in Nat \ {0}
        BY <2>1, SetShrinks
      <3>2. created + Cardinality(Searching) <= MaxChannels
        BY DEF SearchInv, RoomLeft
      <3>3. QED
        BY <3>1, <3>2
    <2>3. created + 1 \in Channels
      BY <2>2
    <2>4. refs' \in [Channels -> Nat] /\ fresh' \in [Threads -> Channels \cup {None}]
      BY <1>10, <2>3 DEF CreateChannel
    <2>5. QED
      BY <1>10, <2>2, <2>4 DEF CreateChannel
  <1>11. ASSUME NEW t \in Threads, LoadOld(t)
         PROVE  TypeOK'
    BY <1>11 DEF LoadOld
  <1>12. ASSUME NEW t \in Threads, StoreNew(t)
         PROVE  TypeOK'
    <2>1. fresh[t] \in Channels
      BY <1>12 DEF SearchInv, FreshUnseen, Publishing, StoreNew
    <2>2. QED
      BY <1>12, <2>1 DEF StoreNew
  <1>13. ASSUME NEW t \in Threads, ReleaseOld(t)
         PROVE  TypeOK'
    <2>1. handle[t] \in Channels
      BY <1>13 DEF SearchInv, Handles, ReleaseOld
    <2>2. refs' \in [Channels -> Nat]
      BY <1>13, DropTyped DEF ReleaseOld
    <2>3. QED
      BY <1>13, <2>1, <2>2 DEF ReleaseOld
  <1>14. ASSUME NEW t \in Threads, CallAgain(t) \/ DropStub(t) \/ Leave(t)
         PROVE  TypeOK'
    <2>1. CASE DropStub(t)
      <3>1. refs' \in [Channels -> Nat]
        BY <2>1, DropTyped DEF DropStub
      <3>2. QED
        BY <2>1, <3>1 DEF DropStub
    <2>2. QED
      BY <1>14, <2>1 DEF CallAgain, Leave
  <1>15. CASE UNCHANGED vars
    BY <1>15 DEF vars, threadVars
  <1>16. QED
    BY <1>2, <1>3, <1>4, <1>5, <1>6, <1>7, <1>8, <1>9, <1>10, <1>11, <1>12, <1>13,
       <1>14, <1>15 DEF Next, GetStorageStub, ReportResult, Joined

\* A search is counted until it has created its channel, so there is one to create.
LEMMA RoomStep == SearchInv /\ [Next]_vars => RoomLeft'
  <1> SUFFICES ASSUME SearchInv, [Next]_vars
               PROVE  RoomLeft'
    OBVIOUS
  <1>1. TypeOK /\ RoomLeft
    BY DEF SearchInv
  <1>2. Searching \in SUBSET Threads /\ Cardinality(Searching) \in Nat
    BY SetCounted DEF Searching
  <1> USE <1>1, RoundRobinPoolAssumption DEF TypeOK, Goto
  <1>3. ASSUME created' = created, Searching' = Searching
        PROVE  RoomLeft'
    BY <1>3 DEF RoomLeft
  <1>4. ASSUME NEW t \in Threads, ReportHopeless(t)
        PROVE  RoomLeft'
    <2>1. t \notin Searching /\ Searching' = Searching \cup {t}
      BY <1>4 DEF ReportHopeless, Searching
    <2>2. /\ created' = created
          /\ created + Cardinality(Searching) < MaxChannels
      BY <1>4 DEF ReportHopeless, Searching
    <2>3. Cardinality(Searching') = Cardinality(Searching) + 1
      BY <1>2, <2>1, SetGrows
    <2>4. QED
      BY <1>2, <2>2, <2>3 DEF RoomLeft
  <1>5. ASSUME NEW t \in Threads, CompareSlot(t)
        PROVE  RoomLeft'
    <2>1. t \in Searching /\ created' = created
      BY <1>5 DEF CompareSlot, Searching
    <2>2. Searching' = Searching \/ Searching' = Searching \ {t}
      BY <1>5 DEF CompareSlot, Searching, EndReport
    <2>3. QED
      BY <1>2, <1>3, <2>1, <2>2, SetShrinks DEF RoomLeft
  <1>6. ASSUME NEW t \in Threads, CreateChannel(t)
        PROVE  RoomLeft'
    <2>1. t \in Searching /\ created' = created + 1
      BY <1>6 DEF CreateChannel, Searching
    <2>2. Searching' = Searching \ {t}
      BY <1>6 DEF CreateChannel, Searching
    <2>3. QED
      BY <1>2, <2>1, <2>2, SetShrinks DEF RoomLeft
  <1>7. ASSUME NEW t \in Threads, LoadSlot(t)
        PROVE  RoomLeft'
    BY <1>3, <1>7 DEF LoadSlot, Searching
  <1>8. ASSUME NEW t \in Threads,
               GetStorageStub(t) \/ ReportFine(t) \/ LoadOld(t) \/ StoreNew(t)
                  \/ ReleaseOld(t) \/ CallAgain(t) \/ DropStub(t) \/ Leave(t)
        PROVE  RoomLeft'
    <2>1. created' = created
      BY <1>8 DEF GetStorageStub, Advance, LoadChannel, CopyChannel, TakeHandle,
                  ReportFine, LoadOld, StoreNew, ReleaseOld, CallAgain, DropStub, Leave
    <2>2. \E from, to : /\ pc[t] = from /\ pc' = [pc EXCEPT ![t] = to]
                        /\ from \notin {"searching", "comparing", "creating"}
                        /\ to \notin {"searching", "comparing", "creating"}
      BY <1>8 DEF GetStorageStub, Advance, LoadChannel, CopyChannel, TakeHandle,
                  ReportFine, LoadOld, StoreNew, ReleaseOld, CallAgain, DropStub, Leave,
                  EndReport
    <2>3. Searching' = Searching
      BY <2>2 DEF Searching
    <2>4. QED
      BY <1>3, <2>1, <2>3
  <1>9. CASE UNCHANGED vars
    BY <1>3, <1>9 DEF vars, threadVars, Searching
  <1>10. QED
    BY <1>4, <1>5, <1>6, <1>7, <1>8, <1>9 DEF Next, ReportResult, Joined

\* A step that neither creates nor stores a channel shows the threads nothing but
\* what is in the slots, or has been.
Quiet ==
    /\ UNCHANGED <<channels, created, fresh>>
    /\ \A u \in Threads :
          /\ handle'[u] \in {handle[u], None} \/ InSlot(handle'[u])
          /\ stub'[u] \in {stub[u], pointer[u], None}
          /\ pointer'[u] = pointer[u] \/ InSlot(pointer'[u])
          /\ pc'[u] \in {"assigning", "storing"} => Publishing(u)
    /\ \A c \in reported' : c \in reported \/ \E u \in Threads : handle[u] = c

\* A step is quiet, or creates a channel, or assigns one to a slot.
LEMMA StepKinds ==
    ASSUME TypeOK, [Next]_vars
    PROVE  Quiet \/ \E t \in Threads : CreateChannel(t) \/ StoreNew(t)
  <1> USE RoundRobinPoolAssumption
      DEF TypeOK, Quiet, Publishing, InSlot, Slots, Channels, Goto
  <1>1. ASSUME NEW t \in Threads, Advance(t)
        PROVE  Quiet
    BY <1>1 DEF Advance
  <1>2. ASSUME NEW t \in Threads, LoadChannel(t)
        PROVE  Quiet
    BY <1>2 DEF LoadChannel
  <1>3. ASSUME NEW t \in Threads, CopyChannel(t)
        PROVE  Quiet
    BY <1>3 DEF CopyChannel
  <1>4. ASSUME NEW t \in Threads, TakeHandle(t)
        PROVE  Quiet
    BY <1>4 DEF TakeHandle
  <1>5. ASSUME NEW t \in Threads, ReportFine(t)
        PROVE  Quiet
    BY <1>5 DEF ReportFine
  <1>6. ASSUME NEW t \in Threads, ReportHopeless(t)
        PROVE  Quiet
    <2>1. /\ pc' = [pc EXCEPT ![t] = "searching"]
          /\ UNCHANGED <<channels, created, fresh, handle, stub, pointer, reported>>
      BY <1>6 DEF ReportHopeless
    <2>2. QED
      BY <2>1
  <1>7. ASSUME NEW t \in Threads, LoadSlot(t)
        PROVE  Quiet
    BY <1>7 DEF LoadSlot
  <1>8. ASSUME NEW t \in Threads, CompareSlot(t)
        PROVE  Quiet
    <2>1. /\ UNCHANGED <<channels, created, fresh, handle, stub, pointer>>
          /\ \E to \in {"creating", "searching", "reported"} : pc' = [pc EXCEPT ![t] = to]
          /\ reported' \subseteq reported \cup {handle[t]}
      BY <1>8 DEF CompareSlot, EndReport
    <2>2. QED
      BY <2>1
  <1>9. ASSUME NEW t \in Threads, LoadOld(t)
        PROVE  Quiet
    BY <1>9 DEF LoadOld
  <1>10. ASSUME NEW t \in Threads, ReleaseOld(t)
         PROVE  Quiet
    BY <1>10 DEF ReleaseOld, EndReport
  <1>11. ASSUME NEW t \in Threads, CallAgain(t) \/ Leave(t)
         PROVE  Quiet
    BY <1>11 DEF CallAgain, Leave
  <1>12. ASSUME NEW t \in Threads, DropStub(t)
         PROVE  Quiet
    BY <1>12 DEF DropStub
  <1>13. CASE UNCHANGED vars
    BY <1>13 DEF vars, threadVars
  <1>14. QED
    BY <1>1, <1>2, <1>3, <1>4, <1>5, <1>6, <1>7, <1>8, <1>9, <1>10, <1>11, <1>12, <1>13
       DEF Next, GetStorageStub, ReportResult, Joined

\* Whatever is referred to was created.
LEMMA KnownStep == SearchInv /\ [Next]_vars => Known'
  <1> SUFFICES ASSUME SearchInv, [Next]_vars
               PROVE  Known'
    OBVIOUS
  <1>1. TypeOK /\ Known
    BY DEF SearchInv
  <1>2. created \in Nat
    BY <1>1, RoundRobinPoolAssumption DEF TypeOK
  <1>3. CASE Quiet
    BY <1>1, <1>2, <1>3 DEF Known, Quiet, InSlot, None
  <1>4. ASSUME NEW t \in Threads, CreateChannel(t)
        PROVE  Known'
    <2>1. /\ created' = created + 1
          /\ UNCHANGED <<channels, handle, stub, pointer, reported>>
          /\ \A u \in Threads : fresh'[u] \in {fresh[u], created'}
      BY <1>1, <1>4 DEF CreateChannel, TypeOK
    <2>2. \A k \in Nat : k <= created => k <= created'
      BY <1>2, <2>1
    <2>3. created' <= created'
      BY <1>2, <2>1
    <2>4. Channels \cup {None} \subseteq Nat
      BY RoundRobinPoolAssumption DEF Channels, None
    <2>5. QED
      BY <1>1, <2>1, <2>2, <2>3, <2>4 DEF Known, TypeOK
  <1>5. ASSUME NEW t \in Threads, StoreNew(t)
        PROVE  Known'
    <2>1. /\ UNCHANGED <<created, handle, stub, pointer, fresh, reported>>
          /\ \A s \in Slots : channels'[s] \in {channels[s], fresh[t]}
      BY <1>1, <1>5 DEF StoreNew, TypeOK
    <2>2. QED
      BY <1>1, <2>1 DEF Known
  <1>6. QED
    BY <1>1, <1>3, <1>4, <1>5, StepKinds

\* A report moves its thread on within ReportResult, and keeps its handle.
LEMMA ReportMoves ==
    ASSUME NEW t \in Threads, ReportResult(t)
    PROVE  /\ pc[t] \in Reporting \cup {"calling"} /\ handle' = handle
           /\ \E to \in Reporting \cup {"reported"} : pc' = [pc EXCEPT ![t] = to]
  <1> USE DEF Reporting, Goto
  <1>1. CASE ReportFine(t) \/ ReportHopeless(t) \/ LoadSlot(t)
    BY <1>1 DEF ReportFine, ReportHopeless, LoadSlot
  <1>2. CASE CompareSlot(t)
    BY <1>2 DEF CompareSlot, EndReport
  <1>3. CASE CreateChannel(t)
    BY <1>3 DEF CreateChannel
  <1>4. CASE LoadOld(t)
    BY <1>4 DEF LoadOld
  <1>5. CASE StoreNew(t)
    BY <1>5 DEF StoreNew
  <1>6. CASE ReleaseOld(t)
    BY <1>6 DEF ReleaseOld, EndReport
  <1>7. QED
    BY <1>1, <1>2, <1>3, <1>4, <1>5, <1>6 DEF ReportResult

\* A thread that is to report has a handle.
LEMMA HandlesStep == SearchInv /\ [Next]_vars => Handles'
  <1> SUFFICES ASSUME SearchInv, [Next]_vars
               PROVE  Handles'
    OBVIOUS
  <1>1. TypeOK /\ Handles
    BY DEF SearchInv
  <1> USE <1>1, RoundRobinPoolAssumption
      DEF TypeOK, Handles, Slots, Channels, None, Reporting, Goto
  <1>2. ASSUME NEW t \in Threads, Advance(t) \/ LoadChannel(t) \/ CopyChannel(t)
        PROVE  Handles'
    BY <1>2 DEF Advance, LoadChannel, CopyChannel
  <1>3. ASSUME NEW t \in Threads, TakeHandle(t)
        PROVE  Handles'
    <2>1. channels[cursor] # None
      OBVIOUS
    <2>2. /\ handle'[t] = channels[cursor]
          /\ \A u \in Threads : u # t => handle'[u] = handle[u] /\ pc'[u] = pc[u]
      BY <1>3 DEF TakeHandle
    <2>3. QED
      BY <2>1, <2>2
  <1>4. ASSUME NEW t \in Threads, ReportResult(t)
        PROVE  Handles'
    BY <1>4, ReportMoves
  <1>5. ASSUME NEW t \in Threads, CallAgain(t) \/ DropStub(t) \/ Leave(t)
        PROVE  Handles'
    BY <1>5 DEF CallAgain, DropStub, Leave
  <1>6. CASE UNCHANGED vars
    BY <1>6 DEF vars, threadVars
  <1>7. QED
    BY <1>2, <1>3, <1>4, <1>5, <1>6 DEF Next, GetStorageStub, Joined

\* Nobody else has seen the channel of a publication: others only read the slots.
LEMMA FreshStep == SearchInv /\ [Next]_vars => FreshUnseen'
  <1> SUFFICES ASSUME SearchInv, [Next]_vars
               PROVE  FreshUnseen'
    OBVIOUS
  <1>1. TypeOK /\ Known /\ FreshUnseen
    BY DEF SearchInv
  <1>2. CASE Quiet
    BY <1>1, <1>2 DEF Quiet, FreshUnseen, Publishing, InSlot, None
  <1>3. ASSUME NEW t \in Threads, CreateChannel(t)
        PROVE  FreshUnseen'
    <2>1. /\ UNCHANGED <<channels, handle, stub, pointer, reported>>
          /\ fresh' = [fresh EXCEPT ![t] = created + 1]
          /\ pc' = [pc EXCEPT ![t] = "assigning"]
      BY <1>3 DEF CreateChannel, Goto
    <2>2. /\ created + 1 # None /\ Channels \cup {None} \subseteq Nat
          /\ \A k \in Nat : k <= created => k # created + 1
      BY <1>1, RoundRobinPoolAssumption DEF TypeOK, Channels, None
    <2>3. /\ created + 1 # None /\ ~InSlot(created + 1) /\ created + 1 \notin reported
          /\ \A u \in Threads : /\ handle[u] # created + 1 /\ stub[u] # created + 1
                                 /\ pointer[u] # created + 1 /\ fresh[u] # created + 1
      BY <1>1, <2>2 DEF TypeOK, Known, InSlot, None
    <2>4. fresh'[t] = created + 1 /\ \A u \in Threads \ {t} : fresh'[u] = fresh[u]
      BY <1>1, <2>1 DEF TypeOK
    <2>5. \A u \in Threads \ {t} : Publishing(u)' <=> Publishing(u)
      BY <1>1, <2>1 DEF TypeOK, Publishing
    <2>6. \A c : InSlot(c)' <=> InSlot(c)
      BY <2>1 DEF InSlot
    <2>7. QED
      BY <1>1, <2>1, <2>3, <2>4, <2>5, <2>6 DEF FreshUnseen
  <1>4. ASSUME NEW t \in Threads, StoreNew(t)
        PROVE  FreshUnseen'
    <2>1. /\ UNCHANGED <<handle, stub, pointer, reported, fresh>>
          /\ channels' = [channels EXCEPT ![i[t]] = fresh[t]]
          /\ pc' = [pc EXCEPT ![t] = "releasing"]
      BY <1>4 DEF StoreNew, Goto
    <2>2. Publishing(t) /\ ~Publishing(t)' /\ \A u \in Threads \ {t} : Publishing(u)' <=> Publishing(u)
      BY <1>1, <1>4, <2>1 DEF TypeOK, StoreNew, Publishing
    <2>3. \A c : InSlot(c)' => InSlot(c) \/ c = fresh[t]
      BY <1>1, <2>1 DEF TypeOK, InSlot
    <2>4. QED
      BY <1>1, <2>1, <2>2, <2>3 DEF FreshUnseen
  <1>5. QED
    BY <1>1, <1>2, <1>3, <1>4, StepKinds

\* A channel is in one slot at most: only a fresh one is assigned, and once.
LEMMA SlotsStep == SearchInv /\ [Next]_vars => SlotsDiffer'
  <1> SUFFICES ASSUME SearchInv, [Next]_vars
               PROVE  SlotsDiffer'
    OBVIOUS
  <1>1. TypeOK /\ FreshUnseen /\ SlotsDiffer
    BY DEF SearchInv
  <1>2. CASE channels' = channels
    BY <1>1, <1>2 DEF SlotsDiffer
  <1>3. ASSUME NEW t \in Threads, StoreNew(t)
        PROVE  SlotsDiffer'
    <2>1. channels' = [channels EXCEPT ![i[t]] = fresh[t]] /\ ~InSlot(fresh[t])
      BY <1>1, <1>3 DEF StoreNew, FreshUnseen, Publishing
    <2>2. QED
      BY <1>1, <2>1 DEF SlotsDiffer, InSlot, TypeOK
  <1>4. QED
    BY <1>1, <1>2, <1>3, StepKinds DEF Quiet, CreateChannel

\* A step of another thread takes nothing back from a search.
LEMMA OthersPass ==
    ASSUME TypeOK, FreshUnseen, NEW u \in Threads, Passed(u),
           pc'[u] = pc[u], i'[u] = i[u], pointer'[u] = pointer[u], handle'[u] = handle[u],
           \/ channels' = channels
           \/ \E t \in Threads : StoreNew(t)
    PROVE  Passed(u)'
  <1>1. \A s \in Slots : channels[s] # handle[u] => channels'[s] # handle[u]
    <2>1. ASSUME NEW t \in Threads, StoreNew(t)
          PROVE  \A s \in Slots : channels'[s] \in {channels[s], fresh[t]}
      BY <2>1 DEF StoreNew, TypeOK
    <2>2. ASSUME NEW t \in Threads, StoreNew(t)
          PROVE  fresh[t] # handle[u]
      BY <2>2 DEF StoreNew, FreshUnseen, Publishing
    <2>3. QED
      BY <2>1, <2>2
  <1>2. i[u] \in Slots
    BY DEF TypeOK
  <1>3. QED
    BY <1>1, <1>2 DEF Passed, InSlot

\* A slot that a search has passed never gets the channel it looks for.
LEMMA PassedStep == SearchInv /\ [Next]_vars => (\A t \in Threads : Passed(t))'
  <1> SUFFICES ASSUME SearchInv, [Next]_vars
               PROVE  \A u \in Threads : Passed(u)'
    OBVIOUS
  <1>1. TypeOK /\ FreshUnseen /\ SlotsDiffer /\ \A u \in Threads : Passed(u)
    BY DEF SearchInv
  <1>2. \A u \in Threads : i[u] \in Slots
    BY <1>1 DEF TypeOK
  <1>3. channels' = channels \/ \E t \in Threads : StoreNew(t)
    BY <1>1, StepKinds DEF Quiet, CreateChannel
  <1>4. ASSUME NEW t \in Threads, Passed(t)',
               \A u \in Threads \ {t} :
                  /\ pc'[u] = pc[u] /\ i'[u] = i[u]
                  /\ pointer'[u] = pointer[u] /\ handle'[u] = handle[u]
        PROVE  \A u \in Threads : Passed(u)'
    BY <1>1, <1>3, <1>4, OthersPass
  <1> USE <1>1 DEF TypeOK, Goto
  <1>5. ASSUME NEW t \in Threads, GetStorageStub(t)
        PROVE  \A u \in Threads : Passed(u)'
    <2>1. Passed(t)'
      BY <1>5 DEF GetStorageStub, Advance, LoadChannel, CopyChannel, TakeHandle, Passed
    <2>2. QED
      BY <1>4, <1>5, <2>1
         DEF GetStorageStub, Advance, LoadChannel, CopyChannel, TakeHandle
  <1>6. ASSUME NEW t \in Threads,
               ReportFine(t) \/ CallAgain(t) \/ DropStub(t) \/ Leave(t)
        PROVE  \A u \in Threads : Passed(u)'
    <2>1. Passed(t)'
      BY <1>6 DEF ReportFine, CallAgain, DropStub, Leave, Passed
    <2>2. QED
      BY <1>4, <1>6, <2>1 DEF ReportFine, CallAgain, DropStub, Leave
  <1>7. ASSUME NEW t \in Threads, ReportHopeless(t)
        PROVE  \A u \in Threads : Passed(u)'
    <2>1. /\ i' = [i EXCEPT ![t] = 0] /\ pc' = [pc EXCEPT ![t] = "searching"]
          /\ UNCHANGED <<channels, pointer, handle>>
      BY <1>7 DEF ReportHopeless
    <2>2. \A s \in Slots : ~(s < 0)
      BY DEF Slots
    <2>3. Passed(t)'
      BY <2>1, <2>2 DEF Passed
    <2>4. QED
      BY <1>4, <2>1, <2>3
  <1>8. ASSUME NEW t \in Threads, LoadSlot(t)
        PROVE  \A u \in Threads : Passed(u)'
    <2>1. /\ pc[t] = "searching" /\ pc' = [pc EXCEPT ![t] = "comparing"]
          /\ pointer' = [pointer EXCEPT ![t] = channels[i[t]]]
          /\ UNCHANGED <<channels, i, handle>>
      BY <1>8 DEF LoadSlot
    <2>2. Passed(t)'
      BY <1>2, <2>1 DEF Passed, SlotsDiffer
    <2>3. QED
      BY <1>4, <2>1, <2>2
  <1>9. ASSUME NEW t \in Threads, CompareSlot(t)
        PROVE  \A u \in Threads : Passed(u)'
    <2>1. /\ pc[t] = "comparing" /\ UNCHANGED <<channels, pointer, handle>>
          /\ \/ /\ pointer[t] = handle[t] /\ i' = i
                /\ pc' = [pc EXCEPT ![t] = "creating"]
             \/ /\ pointer[t] # handle[t] /\ i' = [i EXCEPT ![t] = i[t] + 1]
                /\ pc' = [pc EXCEPT ![t] = "searching"]
             \/ pc' = [pc EXCEPT ![t] = "reported"] /\ i' = i
      BY <1>9 DEF CompareSlot, EndReport
    <2>2. \A r, s \in Slots : s < r + 1 => s < r \/ s = r
      BY RoundRobinPoolAssumption DEF Slots
    <2>3. Passed(t)'
      BY <1>2, <2>1, <2>2 DEF Passed
    <2>4. QED
      BY <1>4, <2>1, <2>3
  <1>10. ASSUME NEW t \in Threads, CreateChannel(t) \/ LoadOld(t)
         PROVE  \A u \in Threads : Passed(u)'
    <2>1. Passed(t)'
      BY <1>10 DEF CreateChannel, LoadOld, Passed
    <2>2. QED
      BY <1>4, <1>10, <2>1 DEF CreateChannel, LoadOld
  <1>11. ASSUME NEW t \in Threads, StoreNew(t)
         PROVE  \A u \in Threads : Passed(u)'
    <2>1. /\ pc[t] = "storing" /\ pc' = [pc EXCEPT ![t] = "releasing"]
          /\ channels' = [channels EXCEPT ![i[t]] = fresh[t]]
          /\ UNCHANGED <<i, pointer, handle>>
      BY <1>11 DEF StoreNew
    <2>2. handle[t] # fresh[t]
      BY <2>1 DEF FreshUnseen, Publishing
    <2>3. Passed(t)'
      BY <1>2, <2>1, <2>2 DEF Passed, InSlot
    <2>4. QED
      BY <1>4, <2>1, <2>3
  <1>12. ASSUME NEW t \in Threads, ReleaseOld(t)
         PROVE  \A u \in Threads : Passed(u)'
    <2>1. Passed(t)'
      BY <1>12 DEF ReleaseOld, EndReport, Passed
    <2>2. QED
      BY <1>4, <1>12, <2>1 DEF ReleaseOld, EndReport
  <1>13. CASE UNCHANGED vars
    BY <1>1, <1>13, OthersPass DEF vars, threadVars
  <1>14. QED
    BY <1>5, <1>6, <1>7, <1>8, <1>9, <1>10, <1>11, <1>12, <1>13
       DEF Next, ReportResult, Joined

\* A search ends when it has replaced the channel, or when no slot has it.
LEMMA HopelessStep == SearchInv /\ [Next]_vars => HopelessGone'
  <1> SUFFICES ASSUME SearchInv, [Next]_vars
               PROVE  HopelessGone'
    OBVIOUS
  <1>1. TypeOK /\ FreshUnseen /\ HopelessGone /\ \A t \in Threads : Passed(t)
    BY DEF SearchInv
  <1>2. CASE UNCHANGED <<channels, reported>>
    BY <1>1, <1>2 DEF HopelessGone
  <1>3. ASSUME NEW t \in Threads, CompareSlot(t)
        PROVE  HopelessGone'
    <2>1. CASE reported' = reported
      BY <1>2, <1>3, <2>1 DEF CompareSlot
    <2>2. CASE pointer[t] # handle[t] /\ i[t] + 1 = Size /\ EndReport(t)
      <3>1. \A s, r \in Slots : r + 1 = Size => s < r \/ s = r
        BY RoundRobinPoolAssumption DEF Slots
      <3>2. \A s \in Slots : channels[s] # handle[t]
        BY <1>1, <1>3, <2>2, <3>1 DEF CompareSlot, Passed, TypeOK
      <3>3. channels' = channels /\ reported' = reported \cup {handle[t]}
        BY <1>3, <2>2 DEF CompareSlot, EndReport
      <3>4. QED
        BY <1>1, <3>2, <3>3 DEF HopelessGone
    <2>3. QED
      BY <1>3, <2>1, <2>2 DEF CompareSlot
  <1>4. ASSUME NEW t \in Threads, StoreNew(t)
        PROVE  HopelessGone'
    <2>1. /\ channels' = [channels EXCEPT ![i[t]] = fresh[t]] /\ reported' = reported
          /\ fresh[t] \notin reported
      BY <1>1, <1>4 DEF StoreNew, FreshUnseen, Publishing
    <2>2. QED
      BY <1>1, <2>1 DEF HopelessGone, TypeOK
  <1>5. ASSUME NEW t \in Threads, ReleaseOld(t)
        PROVE  HopelessGone'
    <2>1. /\ channels' = channels /\ reported' = reported \cup {handle[t]}
          /\ ~InSlot(handle[t])
      BY <1>1, <1>5 DEF ReleaseOld, EndReport, Passed
    <2>2. QED
      BY <1>1, <2>1 DEF HopelessGone, InSlot
  <1>6. ASSUME NEW t \in Threads,
               \/ GetStorageStub(t) \/ ReportFine(t) \/ ReportHopeless(t) \/ LoadSlot(t)
               \/ CreateChannel(t) \/ LoadOld(t) \/ CallAgain(t) \/ DropStub(t) \/ Leave(t)
        PROVE  HopelessGone'
    BY <1>2, <1>6
       DEF GetStorageStub, Advance, LoadChannel, CopyChannel, TakeHandle, ReportFine,
           ReportHopeless, LoadSlot, CreateChannel, LoadOld, CallAgain, DropStub, Leave
  <1>7. CASE UNCHANGED vars
    BY <1>2, <1>7 DEF vars
  <1>8. QED
    BY <1>3, <1>4, <1>5, <1>6, <1>7 DEF Next, ReportResult, Joined

\* Every step keeps the part of the invariant that no overlap can break.
LEMMA SearchStep == SearchInv /\ [Next]_vars => SearchInv'
  BY TypeStep, RoomStep, KnownStep, HandlesStep, FreshStep, SlotsStep, PassedStep,
     HopelessStep DEF SearchInv

-----------------------------------------------------------------------------
(* Reference counts are exact, until an assignment overlaps another call. *)

\* One thread at a time is in GetStorageStub.
LEMMA LockStep == SearchInv /\ LockHeld /\ [Next]_vars => LockHeld'
  <1> SUFFICES ASSUME SearchInv, LockHeld, [Next]_vars
               PROVE  LockHeld'
    OBVIOUS
  <1> USE DEF LockHeld, Getting, Goto
  <1>1. \E Labels : pc \in [Threads -> Labels]
    BY DEF SearchInv, TypeOK
  <1>2. ASSUME NEW t \in Threads, Advance(t)
        PROVE  LockHeld'
    BY <1>1, <1>2 DEF Advance
  <1>3. ASSUME NEW t \in Threads, LoadChannel(t) \/ CopyChannel(t) \/ TakeHandle(t)
        PROVE  LockHeld'
    BY <1>1, <1>3 DEF LoadChannel, CopyChannel, TakeHandle
  <1>4. ASSUME NEW t \in Threads,
               ReportResult(t) \/ CallAgain(t) \/ DropStub(t) \/ Leave(t)
        PROVE  LockHeld'
    <2>1. \E to : pc' = [pc EXCEPT ![t] = to] /\ to \notin Getting
      <3>1. CASE ReportResult(t)
        BY <3>1, ReportMoves DEF Reporting
      <3>2. CASE CallAgain(t) \/ DropStub(t) \/ Leave(t)
        BY <3>2 DEF CallAgain, DropStub, Leave
      <3>3. QED
        BY <1>4, <3>1, <3>2
    <2>2. QED
      BY <1>1, <2>1
  <1>5. CASE UNCHANGED vars
    BY <1>5 DEF vars, threadVars
  <1>6. QED
    BY <1>2, <1>3, <1>4, <1>5 DEF Next, GetStorageStub, Joined

\* A thread that gets a stub has none.
LEMMA StubFreeStep == SearchInv /\ StubFree /\ [Next]_vars => StubFree'
  <1> SUFFICES ASSUME SearchInv, StubFree, [Next]_vars
               PROVE  StubFree'
    OBVIOUS
  <1>1. TypeOK
    BY DEF SearchInv
  <1> USE <1>1 DEF TypeOK, StubFree, Goto
  <1>2. ASSUME NEW t \in Threads, GetStorageStub(t)
        PROVE  StubFree'
    BY <1>2 DEF GetStorageStub, Advance, LoadChannel, CopyChannel, TakeHandle
  <1>3. ASSUME NEW t \in Threads, ReportResult(t) \/ CallAgain(t) \/ Leave(t)
        PROVE  StubFree'
    <2>1. \E from, to : /\ pc[t] = from /\ pc' = [pc EXCEPT ![t] = to]
                        /\ to \notin {"idle", "getting", "copying"}
      BY <1>3 DEF ReportResult, ReportFine, ReportHopeless, LoadSlot, CompareSlot,
                  CreateChannel, LoadOld, StoreNew, ReleaseOld, EndReport, CallAgain, Leave
    <2>2. stub' = stub
      BY <1>3 DEF ReportResult, ReportFine, ReportHopeless, LoadSlot, CompareSlot,
                  CreateChannel, LoadOld, StoreNew, ReleaseOld, CallAgain, Leave
    <2>3. QED
      BY <2>1, <2>2
  <1>4. ASSUME NEW t \in Threads, DropStub(t)
        PROVE  StubFree'
    BY <1>4 DEF DropStub
  <1>5. CASE UNCHANGED vars
    BY <1>5 DEF vars, threadVars
  <1>6. QED
    BY <1>2, <1>3, <1>4, <1>5 DEF Next, Joined

\* overlapped is never taken back, and set by an assignment beside another call.
LEMMA NotOverlapped ==
    ASSUME TypeOK, [Next]_vars, ~overlapped'
    PROVE  /\ ~overlapped
           /\ \A t \in Threads : StoreNew(t) =>
                 \A u \in Threads \ {t} : pc[u] \notin Getting \cup Reporting
  <1>1. \A t \in Threads : StoreNew(t) => ~overlapped
    BY DEF StoreNew
  <1>2. ~overlapped \/ overlapped' = overlapped
    BY <1>1 DEF Next, GetStorageStub, Advance, LoadChannel, CopyChannel, TakeHandle,
                ReportResult, ReportFine, ReportHopeless, LoadSlot, CompareSlot,
                CreateChannel, LoadOld, ReleaseOld, CallAgain, DropStub, Leave, Joined,
                vars
  <1>3. ASSUME NEW t \in Threads, StoreNew(t)
        PROVE  \A u \in Threads \ {t} : pc[u] \notin Getting \cup Reporting
    <2>1. ~(\E u \in Threads \ {t} : pc[u] \in Getting \cup Reporting)
      BY <1>3, Zenon DEF StoreNew
    <2>2. QED
      BY <2>1
  <1>4. ~overlapped
    BY <1>2
  <1>5. QED
    BY <1>3, <1>4

\* A step of another thread leaves what a thread has read as it is.
LEMMA OthersUndisturbed ==
    ASSUME TypeOK, NEW t \in Threads, NEW u \in Threads \ {t}, Undisturbed(u),
           pc'[u] = pc[u], i'[u] = i[u], pointer'[u] = pointer[u], handle'[u] = handle[u],
           stub'[u] = stub[u],
           \/ UNCHANGED <<channels, cursor>>
           \/ channels' = channels /\ pc[u] \notin Getting
           \/ pc[u] \notin Getting \cup Reporting
    PROVE  Undisturbed(u)'
  BY DEF Undisturbed, Getting, Reporting

\* Before an overlap, what a thread has loaded is still in the slot.
LEMMA UndisturbedStep ==
    ASSUME SearchInv, LockHeld, StubFree, CountInv, [Next]_vars, ~overlapped'
    PROVE  \A u \in Threads : Undisturbed(u)'
  <1>1. TypeOK /\ \A u \in Threads : Undisturbed(u)
    BY NotOverlapped DEF SearchInv, CountInv
  <1> USE <1>1 DEF TypeOK, Goto
  <1>2. ASSUME NEW t \in Threads, Undisturbed(t)',
               \A u \in Threads \ {t} :
                  /\ pc'[u] = pc[u] /\ i'[u] = i[u] /\ stub'[u] = stub[u]
                  /\ pointer'[u] = pointer[u] /\ handle'[u] = handle[u]
                  /\ \/ UNCHANGED <<channels, cursor>>
                     \/ channels' = channels /\ pc[u] \notin Getting
                     \/ pc[u] \notin Getting \cup Reporting
        PROVE  \A u \in Threads : Undisturbed(u)'
    BY <1>1, <1>2, OthersUndisturbed
  <1>3. ASSUME NEW t \in Threads, Advance(t)
        PROVE  \A u \in Threads : Undisturbed(u)'
    <2>1. Undisturbed(t)'
      BY <1>3 DEF Advance, Undisturbed
    <2>2. QED
      BY <1>2, <1>3, <2>1 DEF Advance
  <1>4. ASSUME NEW t \in Threads, LoadChannel(t) \/ CopyChannel(t) \/ TakeHandle(t)
        PROVE  \A u \in Threads : Undisturbed(u)'
    <2>1. Undisturbed(t)'
      <3>1. handle[t] = None \/ ~CopyChannel(t)
        BY DEF CopyChannel, Undisturbed, StubFree
      <3>2. QED
        BY <1>4, <3>1 DEF LoadChannel, CopyChannel, TakeHandle, Undisturbed
    <2>2. QED
      BY <1>2, <1>4, <2>1 DEF LoadChannel, CopyChannel, TakeHandle
  <1>5. ASSUME NEW t \in Threads, ReportFine(t) \/ CallAgain(t) \/ DropStub(t) \/ Leave(t)
        PROVE  \A u \in Threads : Undisturbed(u)'
    <2>1. Undisturbed(t)'
      BY <1>5 DEF ReportFine, CallAgain, DropStub, Leave, Undisturbed
    <2>2. QED
      BY <1>2, <1>5, <2>1 DEF ReportFine, CallAgain, DropStub, Leave
  <1>6. ASSUME NEW t \in Threads, ReportHopeless(t)
        PROVE  \A u \in Threads : Undisturbed(u)'
    <2>1. /\ i' = [i EXCEPT ![t] = 0] /\ pc' = [pc EXCEPT ![t] = "searching"]
          /\ UNCHANGED <<channels, cursor, pointer, handle, stub>>
      BY <1>6 DEF ReportHopeless
    <2>2. Undisturbed(t)'
      BY <2>1 DEF Undisturbed
    <2>3. QED
      BY <1>2, <2>1, <2>2
  <1>7. ASSUME NEW t \in Threads, LoadSlot(t) \/ CreateChannel(t) \/ LoadOld(t)
        PROVE  \A u \in Threads : Undisturbed(u)'
    <2>1. Undisturbed(t)'
      BY <1>7 DEF LoadSlot, CreateChannel, LoadOld, Undisturbed
    <2>2. QED
      BY <1>2, <1>7, <2>1 DEF LoadSlot, CreateChannel, LoadOld
  <1>8. ASSUME NEW t \in Threads, CompareSlot(t)
        PROVE  \A u \in Threads : Undisturbed(u)'
    <2>1. /\ pc[t] = "comparing" /\ UNCHANGED <<channels, cursor, pointer, handle, stub>>
          /\ \/ /\ pointer[t] = handle[t] /\ i' = i
                /\ pc' = [pc EXCEPT ![t] = "creating"]
             \/ /\ i' = [i EXCEPT ![t] = i[t] + 1]
                /\ pc' = [pc EXCEPT ![t] = "searching"]
             \/ pc' = [pc EXCEPT ![t] = "reported"] /\ i' = i
      BY <1>8 DEF CompareSlot, EndReport
    <2>2. Undisturbed(t)'
      BY <2>1 DEF Undisturbed
    <2>3. QED
      BY <1>2, <2>1, <2>2
  <1>9. ASSUME NEW t \in Threads, StoreNew(t)
        PROVE  \A u \in Threads : Undisturbed(u)'
    <2>1. \A u \in Threads \ {t} : pc[u] \notin Getting \cup Reporting
      BY <1>9, NotOverlapped
    <2>2. Undisturbed(t)'
      BY <1>9 DEF StoreNew, Undisturbed
    <2>3. QED
      BY <1>2, <1>9, <2>1, <2>2 DEF StoreNew
  <1>10. ASSUME NEW t \in Threads, ReleaseOld(t)
         PROVE  \A u \in Threads : Undisturbed(u)'
    <2>1. Undisturbed(t)'
      BY <1>10 DEF ReleaseOld, EndReport, Undisturbed
    <2>2. QED
      BY <1>2, <1>10, <2>1 DEF ReleaseOld, EndReport
  <1>11. CASE UNCHANGED vars
    BY <1>11 DEF vars, threadVars, Undisturbed
  <1>12. QED
    BY <1>3, <1>4, <1>5, <1>6, <1>7, <1>8, <1>9, <1>10, <1>11
       DEF Next, GetStorageStub, ReportResult, Joined

\* Before an overlap, a channel is released by one thread at a time.
LEMMA OneReleasesStep ==
    ASSUME SearchInv, CountInv, [Next]_vars, ~overlapped'
    PROVE  OneReleases'
  <1>1. TypeOK /\ OneReleases
    BY NotOverlapped DEF SearchInv, CountInv
  <1> USE <1>1 DEF TypeOK, OneReleases, Goto
  <1>2. ASSUME NEW t \in Threads, StoreNew(t)
        PROVE  OneReleases'
    <2>1. \A u \in Threads \ {t} : pc[u] # "releasing"
      BY <1>2, NotOverlapped DEF Reporting
    <2>2. QED
      BY <1>2, <2>1 DEF StoreNew
  <1>3. ASSUME NEW t \in Threads, ~StoreNew(t),
               \/ GetStorageStub(t) \/ ReportResult(t) \/ CallAgain(t) \/ DropStub(t)
               \/ Leave(t)
        PROVE  OneReleases'
    <2>1. \E to : pc' = [pc EXCEPT ![t] = to] /\ to # "releasing"
      BY <1>3 DEF GetStorageStub, Advance, LoadChannel, CopyChannel, TakeHandle,
                  ReportResult, ReportFine, ReportHopeless, LoadSlot, CompareSlot,
                  CreateChannel, LoadOld, ReleaseOld, EndReport, CallAgain,
                  DropStub, Leave
    <2>2. QED
      BY <2>1
  <1>4. CASE UNCHANGED vars
    BY <1>4 DEF vars, threadVars
  <1>5. QED
    BY <1>2, <1>3, <1>4 DEF Next, Joined

\* The counts do not change in a step that changes no owner and no stub.
LEMMA RefsStay ==
    ASSUME RefsExact, refs' = refs, stub' = stub, \A c \in Channels : Owned(c)' <=> Owned(c)
    PROVE  RefsExact'
  <1>1. \A c : Stubs(c)' = Stubs(c)
    BY DEF Stubs
  <1>2. QED
    BY <1>1 DEF RefsExact

\* Who owns a channel changes when it is created, and when its slot's assignment ends.
LEMMA OwnersStay ==
    ASSUME SearchInv, CountInv, [Next]_vars, ~overlapped', NEW c \in Channels,
           \A t \in Threads : ~CreateChannel(t) /\ ~ReleaseOld(t)
    PROVE  Owned(c)' <=> Owned(c)
  <1>1. TypeOK /\ FreshUnseen /\ \A u \in Threads : Undisturbed(u)
    BY NotOverlapped DEF SearchInv, CountInv
  <1> USE <1>1 DEF TypeOK, Goto
  <1>2. ASSUME UNCHANGED <<channels, fresh>>,
               \A u \in Threads :
                  /\ Publishing(u)' <=> Publishing(u)
                  /\ pc'[u] = "releasing" <=> pc[u] = "releasing"
                  /\ pc[u] = "releasing" => pointer'[u] = pointer[u]
        PROVE  Owned(c)' <=> Owned(c)
    BY <1>2 DEF Owned, InSlot, Unpublished, Releasing
  <1>3. ASSUME NEW t \in Threads,
               \/ GetStorageStub(t) \/ ReportFine(t) \/ ReportHopeless(t) \/ LoadSlot(t)
               \/ CompareSlot(t) \/ CallAgain(t) \/ DropStub(t) \/ Leave(t)
        PROVE  Owned(c)' <=> Owned(c)
    <2>1. /\ UNCHANGED <<channels, fresh>>
          /\ \E from, to :
                /\ pc[t] = from /\ pc' = [pc EXCEPT ![t] = to]
                /\ from \notin {"assigning", "storing", "releasing"}
                /\ to \notin {"assigning", "storing", "releasing"}
      BY <1>3 DEF GetStorageStub, Advance, LoadChannel, CopyChannel, TakeHandle,
                  ReportFine, ReportHopeless, LoadSlot, CompareSlot, EndReport, CallAgain,
                  DropStub, Leave
    <2>2. \A u \in Threads \ {t} : pointer'[u] = pointer[u]
      BY <1>3 DEF GetStorageStub, Advance, LoadChannel, CopyChannel, TakeHandle,
                  ReportFine, ReportHopeless, LoadSlot, CompareSlot, CallAgain,
                  DropStub, Leave
    <2>3. QED
      BY <1>2, <2>1, <2>2 DEF Publishing
  <1>4. ASSUME NEW t \in Threads, LoadOld(t)
        PROVE  Owned(c)' <=> Owned(c)
    BY <1>2, <1>4 DEF LoadOld, Publishing
  <1>5. ASSUME NEW t \in Threads, StoreNew(t)
        PROVE  Owned(c)' <=> Owned(c)
    <2>1. /\ pc[t] = "storing" /\ pc' = [pc EXCEPT ![t] = "releasing"]
          /\ channels' = [channels EXCEPT ![i[t]] = fresh[t]]
          /\ UNCHANGED <<i, pointer, fresh>>
      BY <1>5 DEF StoreNew
    <2>2. pointer[t] = channels[i[t]]
      BY <2>1 DEF Undisturbed
    <2>3. InSlot(c)' <=> c = fresh[t] \/ (\E s \in Slots \ {i[t]} : channels[s] = c)
      BY <2>1 DEF InSlot
    <2>4. InSlot(c) <=> c = pointer[t] \/ (\E s \in Slots \ {i[t]} : channels[s] = c)
      BY <2>2 DEF InSlot
    <2>5. \/ Releasing(c)' /\ c = pointer[t]
          \/ c # pointer[t] /\ (Releasing(c)' <=> Releasing(c))
      BY <2>1 DEF Releasing
    <2>6. \/ Unpublished(c) /\ c = fresh[t]
          \/ c # fresh[t] /\ (Unpublished(c)' <=> Unpublished(c))
      BY <2>1 DEF Unpublished, Publishing
    <2>7. Unpublished(c)' => Unpublished(c)
      BY <2>1 DEF Unpublished, Publishing
    <2>8. QED
      BY <2>3, <2>4, <2>5, <2>6, <2>7 DEF Owned
  <1>6. CASE UNCHANGED vars
    BY <1>2, <1>6 DEF vars, threadVars, Publishing
  <1>7. QED
    BY <1>3, <1>4, <1>5, <1>6 DEF Next, ReportResult, Joined

\* A channel in a slot, or of a stub, has a reference.
LEMMA Referenced ==
    ASSUME RefsExact, TypeOK, NEW c \in Channels, Owned(c) \/ \E t \in Threads : stub[t] = c
    PROVE  refs[c] \in Nat \ {0}
  <1>1. Cardinality(Stubs(c)) \in Nat
    BY SetCounted DEF Stubs
  <1>2. refs[c] = (IF Owned(c) THEN 1 ELSE 0) + Cardinality(Stubs(c))
    BY DEF RefsExact
  <1>3. CASE Owned(c)
    BY <1>1, <1>2, <1>3
  <1>4. ASSUME NEW t \in Threads, stub[t] = c
        PROVE  Cardinality(Stubs(c)) # 0
    <2>1. Stubs(c) \in SUBSET Threads /\ t \in Stubs(c)
      BY <1>4 DEF Stubs
    <2>2. QED
      BY <2>1, SetShrinks
  <1>5. QED
    BY <1>1, <1>2, <1>3, <1>4

\* Before an overlap, every step counts the references it makes and drops.
LEMMA RefsStep ==
    ASSUME SearchInv, StubFree, CountInv, [Next]_vars, ~overlapped'
    PROVE  RefsExact'
  <1>1. /\ TypeOK /\ Known /\ Handles /\ FreshUnseen
        /\ \A u \in Threads : Passed(u) /\ Undisturbed(u)
        /\ OneReleases /\ RefsExact
    BY NotOverlapped DEF SearchInv, CountInv
  <1> USE <1>1 DEF TypeOK, Goto
  <1>2. ASSUME NEW u \in Threads, CreateChannel(u) \/ ReleaseOld(u)
         PROVE  pc[u] \in {"creating", "releasing"} /\ pc'[u] # pc[u]
    BY <1>2 DEF CreateChannel, ReleaseOld, EndReport
  <1>3. ASSUME NEW t \in Threads, CopyChannel(t)
        PROVE  RefsExact'
    <2>1. /\ refs' = [refs EXCEPT ![pointer[t]] = refs[pointer[t]] + 1]
          /\ stub' = [stub EXCEPT ![t] = pointer[t]]
          /\ pc[t] = "copying"
      BY <1>3 DEF CopyChannel
    <2>2. stub[t] = None
      BY <2>1 DEF StubFree
    <2>3. ASSUME NEW c \in Channels
          PROVE  refs'[c] = (IF Owned(c)' THEN 1 ELSE 0) + Cardinality(Stubs(c)')
      <3>1. Owned(c)' <=> Owned(c)
        <4>1. \A u \in Threads : pc'[u] = pc[u] \/ pc[u] = "copying"
          BY <1>3 DEF CopyChannel
        <4>2. \A u \in Threads : ~CreateChannel(u) /\ ~ReleaseOld(u)
          BY <1>2, <4>1
        <4>3. QED
          BY <4>2, OwnersStay
      <3>2. refs[c] = (IF Owned(c) THEN 1 ELSE 0) + Cardinality(Stubs(c))
        BY DEF RefsExact
      <3>3. c # None
        BY DEF Channels, None
      <3>4. Stubs(c) \in SUBSET Threads /\ t \notin Stubs(c)
        BY <2>2, <3>3 DEF Stubs
      <3>5. CASE c = pointer[t]
        <4>1. Stubs(c)' = Stubs(c) \cup {t}
          BY <2>1, <3>5 DEF Stubs
        <4>2. Cardinality(Stubs(c)') = Cardinality(Stubs(c)) + 1
          BY <3>4, <4>1, SetGrows
        <4>3. Cardinality(Stubs(c)) \in Nat /\ refs'[c] = refs[c] + 1
          BY <2>1, <3>4, <3>5, SetCounted
        <4>4. QED
          BY <3>1, <3>2, <4>2, <4>3
      <3>6. CASE c # pointer[t]
        <4>1. Stubs(c)' = Stubs(c) /\ refs'[c] = refs[c]
          BY <2>1, <3>4, <3>6 DEF Stubs
        <4>2. QED
          BY <3>1, <3>2, <4>1
      <3>7. QED
        BY <3>5, <3>6
    <2>4. QED
      BY <2>3 DEF RefsExact
  <1>4. ASSUME NEW t \in Threads, DropStub(t)
        PROVE  RefsExact'
    <2>1. /\ refs' = [refs EXCEPT ![stub[t]] = IF refs[stub[t]] = 0 THEN 0
                                               ELSE refs[stub[t]] - 1]
          /\ stub' = [stub EXCEPT ![t] = None]
          /\ pc[t] = "reported"
      BY <1>4 DEF DropStub, Drop
    <2>2. ASSUME NEW c \in Channels
          PROVE  refs'[c] = (IF Owned(c)' THEN 1 ELSE 0) + Cardinality(Stubs(c)')
      <3>1. Owned(c)' <=> Owned(c)
        <4>1. \A u \in Threads : pc'[u] = pc[u] \/ pc[u] = "reported"
          BY <1>4 DEF DropStub
        <4>2. \A u \in Threads : ~CreateChannel(u) /\ ~ReleaseOld(u)
          BY <1>2, <4>1
        <4>3. QED
          BY <4>2, OwnersStay
      <3>2. refs[c] = (IF Owned(c) THEN 1 ELSE 0) + Cardinality(Stubs(c))
        BY DEF RefsExact
      <3>3. c # None
        BY DEF Channels, None
      <3>4. CASE c = stub[t]
        <4>1. Stubs(c) \in SUBSET Threads /\ t \in Stubs(c) /\ Stubs(c)' = Stubs(c) \ {t}
          BY <2>1, <3>3, <3>4 DEF Stubs
        <4>2. /\ Cardinality(Stubs(c)) \in Nat \ {0}
              /\ Cardinality(Stubs(c)') = Cardinality(Stubs(c)) - 1
          BY <4>1, SetShrinks
        <4>3. refs[c] # 0 /\ refs[c] \in Nat
          BY <3>2, <4>2
        <4>4. refs'[c] = refs[c] - 1
          BY <2>1, <3>4, <4>3
        <4>5. QED
          BY <3>1, <3>2, <4>2, <4>4
      <3>5. CASE c # stub[t]
        <4>1. Stubs(c)' = Stubs(c) /\ refs'[c] = refs[c]
          BY <2>1, <3>3, <3>5 DEF Stubs
        <4>2. QED
          BY <3>1, <3>2, <4>1
      <3>6. QED
        BY <3>4, <3>5
    <2>3. QED
      BY <2>2 DEF RefsExact
  <1>5. ASSUME NEW t \in Threads, CreateChannel(t)
        PROVE  RefsExact'
    <2>1. /\ pc[t] = "creating" /\ pc' = [pc EXCEPT ![t] = "assigning"]
          /\ refs' = [refs EXCEPT ![created + 1] = 1]
          /\ fresh' = [fresh EXCEPT ![t] = created + 1]
          /\ UNCHANGED <<channels, pointer, stub>>
      BY <1>5 DEF CreateChannel
    <2>2. ASSUME NEW c \in Channels
          PROVE  refs'[c] = (IF Owned(c)' THEN 1 ELSE 0) + Cardinality(Stubs(c)')
      <3>1. Stubs(c)' = Stubs(c)
        BY <2>1 DEF Stubs
      <3>2. refs[c] = (IF Owned(c) THEN 1 ELSE 0) + Cardinality(Stubs(c))
        BY DEF RefsExact
      <3>3. CASE c = created + 1
        <4>1. Owned(c)'
          BY <2>1, <3>3 DEF Owned, Unpublished, Publishing
        <4>2. \A u \in Threads : stub[u] # c
          BY <3>3, RoundRobinPoolAssumption DEF Known, Channels, None
        <4>3. Stubs(c) = {}
          BY <4>2 DEF Stubs
        <4>4. Cardinality(Stubs(c)') = 0
          BY <3>1, <4>3, FS_EmptySet
        <4>5. refs'[c] = 1
          BY <2>1, <3>3
        <4>6. QED
          BY <4>1, <4>4, <4>5
      <3>4. CASE c # created + 1
        <4>1. Owned(c)' <=> Owned(c)
          BY <2>1, <3>4 DEF Owned, InSlot, Unpublished, Releasing, Publishing
        <4>2. refs'[c] = refs[c]
          BY <2>1, <3>4
        <4>3. QED
          BY <3>1, <3>2, <4>1, <4>2
      <3>5. QED
        BY <3>3, <3>4
    <2>3. QED
      BY <2>2 DEF RefsExact
  <1>6. ASSUME NEW t \in Threads, ReleaseOld(t)
        PROVE  RefsExact'
    <2>1. /\ pc[t] = "releasing" /\ pc' = [pc EXCEPT ![t] = "reported"]
          /\ refs' = [refs EXCEPT ![pointer[t]] = IF refs[pointer[t]] = 0 THEN 0
                                                  ELSE refs[pointer[t]] - 1]
          /\ UNCHANGED <<channels, fresh, pointer, stub>>
      BY <1>6 DEF ReleaseOld, Drop, EndReport
    <2>2. pointer[t] = handle[t]
      BY <2>1 DEF Undisturbed
    <2>3. ASSUME NEW c \in Channels
          PROVE  refs'[c] = (IF Owned(c)' THEN 1 ELSE 0) + Cardinality(Stubs(c)')
      <3>1. Stubs(c)' = Stubs(c) /\ Cardinality(Stubs(c)) \in Nat
        BY <2>1, SetCounted DEF Stubs
      <3>2. refs[c] = (IF Owned(c) THEN 1 ELSE 0) + Cardinality(Stubs(c))
        BY DEF RefsExact
      <3>3. /\ InSlot(c)' <=> InSlot(c)
            /\ Unpublished(c)' <=> Unpublished(c)
        BY <2>1 DEF InSlot, Unpublished, Publishing
      <3>4. CASE c = pointer[t]
        <4>1. ~InSlot(c) /\ ~Unpublished(c)
          BY <2>1, <2>2, <3>4 DEF Passed, FreshUnseen, Unpublished
        <4>2. Releasing(c) /\ ~Releasing(c)'
          BY <2>1, <3>4 DEF Releasing, OneReleases
        <4>3. Owned(c) /\ ~Owned(c)'
          BY <3>3, <4>1, <4>2 DEF Owned
        <4>4. refs[c] = 1 + Cardinality(Stubs(c)) /\ refs[c] # 0
          BY <3>1, <3>2, <4>3
        <4>5. refs'[c] = refs[c] - 1
          BY <2>1, <3>4, <4>4
        <4>6. QED
          BY <3>1, <4>3, <4>4, <4>5
      <3>5. CASE c # pointer[t]
        <4>1. refs'[c] = refs[c]
          BY <2>1, <3>5
        <4>2. Releasing(c)' <=> Releasing(c)
          BY <2>1, <3>5 DEF Releasing
        <4>3. QED
          BY <3>1, <3>2, <3>3, <4>1, <4>2 DEF Owned
      <3>6. QED
        BY <3>4, <3>5
    <2>4. QED
      BY <2>3 DEF RefsExact
  <1>7. CASE /\ UNCHANGED <<refs, stub>>
             /\ \A t \in Threads : ~CreateChannel(t) /\ ~ReleaseOld(t)
    BY <1>7, OwnersStay, RefsStay
  <1>8. ASSUME NEW t \in Threads,
               \/ Advance(t) \/ LoadChannel(t) \/ TakeHandle(t) \/ ReportFine(t)
               \/ ReportHopeless(t) \/ LoadSlot(t) \/ CompareSlot(t) \/ LoadOld(t)
               \/ StoreNew(t) \/ CallAgain(t) \/ Leave(t)
        PROVE  UNCHANGED <<refs, stub>>
    BY <1>8 DEF Advance, LoadChannel, TakeHandle, ReportFine, ReportHopeless, LoadSlot,
                CompareSlot, LoadOld, StoreNew, CallAgain, Leave
  <1>9. CASE UNCHANGED vars
    BY <1>7, <1>9, <1>2 DEF vars, threadVars
  <1>10. QED
    BY <1>3, <1>4, <1>5, <1>6, <1>7, <1>8, <1>9
       DEF Next, GetStorageStub, ReportResult, Joined

\* At the start each slot has the one reference to its channel.
LEMMA CountInit == Init => LockHeld /\ StubFree /\ CountInv
  <1> SUFFICES ASSUME Init
               PROVE  LockHeld /\ StubFree /\ CountInv
    OBVIOUS
  <1> USE RoundRobinPoolAssumption DEF Init, None
  <1>1. LockHeld /\ StubFree
    BY DEF LockHeld, StubFree, Getting
  <1>2. (\A t \in Threads : Undisturbed(t)) /\ OneReleases
    BY DEF Undisturbed, OneReleases
  <1>3. RefsExact
    <2>1. SUFFICES ASSUME NEW c \in Channels
                   PROVE  refs[c] = (IF Owned(c) THEN 1 ELSE 0) + Cardinality(Stubs(c))
      BY DEF RefsExact
    <2>2. Stubs(c) = {}
      BY DEF Stubs, Channels
    <2>3. Owned(c) <=> c <= Size
      <3>1. ~Unpublished(c) /\ ~Releasing(c)
        BY DEF Unpublished, Publishing, Releasing
      <3>2. c <= Size => channels[c - 1] = c /\ c - 1 \in Slots
        BY DEF Slots, Channels
      <3>3. InSlot(c) => c <= Size
        BY DEF InSlot, Slots
      <3>4. QED
        BY <3>1, <3>2, <3>3 DEF Owned, InSlot
    <2>4. refs[c] = IF Owned(c) THEN 1 ELSE 0
      BY <2>3
    <2>5. Cardinality(Stubs(c)) = 0
      BY <2>2, FS_EmptySet
    <2>6. QED
      BY <2>4, <2>5
  <1>4. QED
    BY <1>1, <1>2, <1>3 DEF CountInv

\* Every step keeps the whole invariant.
LEMMA PoolStep == PoolInv /\ [Next]_vars => PoolInv'
  <1> SUFFICES ASSUME PoolInv, [Next]_vars
               PROVE  PoolInv'
    OBVIOUS
  <1>1. SearchInv /\ LockHeld /\ StubFree /\ CountInv
    BY DEF PoolInv
  <1>2. SearchInv' /\ LockHeld' /\ StubFree'
    BY <1>1, SearchStep, LockStep, StubFreeStep
  <1>3. CountInv'
    <2>1. ASSUME ~overlapped'
          PROVE  (\A t \in Threads : Undisturbed(t)') /\ OneReleases' /\ RefsExact'
      BY <1>1, <2>1, UndisturbedStep, OneReleasesStep, RefsStep
    <2>2. QED
      BY <2>1 DEF CountInv
  <1>4. QED
    BY <1>2, <1>3 DEF PoolInv

\* What is exact is not freed while it is used.
LEMMA ApartFromInv == PoolInv => SafeApart
  <1> SUFFICES ASSUME PoolInv, ~overlapped
               PROVE  SafeApart
    BY DEF SafeApart
  <1>1. /\ TypeOK /\ RefsExact /\ \A t \in Threads : Undisturbed(t)
    BY DEF PoolInv, SearchInv, CountInv
  <1>2. \A s \in Slots : channels[s] \in Channels /\ Owned(channels[s])
    BY <1>1 DEF TypeOK, Owned, InSlot
  <1>3. \A s \in Slots : ~Freed(channels[s])
    BY <1>1, <1>2, Referenced DEF Freed
  <1>4. ASSUME NEW t \in Threads
        PROVE  ~Freed(stub[t])
    <2>1. CASE stub[t] = None
      BY <2>1 DEF Freed
    <2>2. CASE stub[t] \in Channels
      BY <1>1, <2>2, Referenced DEF Freed
    <2>3. QED
      BY <1>1, <2>1, <2>2 DEF TypeOK
  <1>5. ASSUME NEW t \in Threads
        PROVE  /\ pc[t] \in {"copying", "comparing"} => ~Freed(pointer[t])
               /\ handle[t] \in {None, stub[t]}
               /\ pc[t] = "releasing" => pointer[t] = handle[t]
    BY <1>1, <1>3 DEF TypeOK, Undisturbed
  <1>6. QED
    BY <1>3, <1>4, <1>5 DEF SafeApart

\* Everything the pool promises, and what it takes to keep it.
THEOREM PoolInvariant == Spec => []PoolInv
  <1>1. Init => PoolInv
    BY SearchInit, CountInit DEF PoolInv
  <1>2. QED
    BY <1>1, PoolStep, PTL DEF Spec

\* Every variable of RoundRobinChannelPool and of its clients keeps its type.
THEOREM TypeCorrect == Spec => []TypeOK
  <1>1. PoolInv => TypeOK
    BY DEF PoolInv, SearchInv
  <1>2. QED
    BY <1>1, PoolInvariant, PTL

\* A channel that ReportResult was told is hopeless is in no slot when it returns,
\* and never again, though ReportResult does not take lock_.
THEOREM HopelessIsGone == Spec => []HopelessGone
  <1>1. PoolInv => HopelessGone
    BY DEF PoolInv, SearchInv
  <1>2. QED
    BY <1>1, PoolInvariant, PTL

\* Until an assignment to a slot overlaps another call, no shared_ptr the pool and
\* its clients use is of a channel that is freed, and reports evict what they name.
THEOREM SafeWhileApart == Spec => []SafeApart
  <1>1. QED
    BY ApartFromInv, PoolInvariant, PTL

===============================================================================
