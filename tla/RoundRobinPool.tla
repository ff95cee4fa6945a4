---------------------------- MODULE RoundRobinPool ----------------------------
(***************************************************************************)
(* RoundRobinChannelPool of benchmark/channel_policy.cc (--cpolicy pool)    *)
(* and the worker threads of benchmark/grpc_runner.cc as its clients.       *)
(*                                                                         *)
(* GetStorageStub holds lock_, ReportResult does not: a search of channels_ *)
(* and the assignment to a slot run beside them.  A slot is a shared_ptr:   *)
(* copying it loads the pointer, then adds a reference; assigning to it     *)
(* loads the old pointer, stores the new one, then drops a reference of the *)
(* old one.  A channel without references is freed, and its address is not  *)
(* used again here (RoundRobinPlusPool is about that).                      *)
(***************************************************************************)
EXTENDS Integers, FiniteSets

CONSTANTS
    Size,         \* --carg, the number of channels
    Threads,      \* the worker threads
    MaxChannels   \* bound: channels created in one behaviour

ASSUME RoundRobinPoolAssumption ==
    /\ Size \in Nat \ {0}
    /\ MaxChannels \in Nat /\ MaxChannels >= Size
    /\ IsFiniteSet(Threads)

VARIABLES
    channels,    \* channels_: the channel of each slot
    cursor,      \* cursor_
    created,     \* how many channels there have been
    refs,        \* the reference count of each channel
    pc,          \* where each thread is
    i,           \* the slot each thread's search has come to
    pointer,     \* the pointer each thread has loaded from a slot
    fresh,       \* the new channel each thread is about to assign
    stub,        \* the channel each thread's stub refers to
    handle,      \* the handle beside it
    reported,    \* history: the handles of the hopeless reports that have ended
    overlapped   \* history: a slot was assigned to while another call was in the pool

threadVars == <<pc, i, pointer, fresh, stub, handle>>
vars == <<channels, cursor, created, refs, threadVars, reported, overlapped>>

None     == 0
Slots    == 0 .. Size - 1
Channels == 1 .. MaxChannels

Getting   == {"getting", "copying", "naming"}             \* GetStorageStub, with lock_
Reporting == {"searching", "comparing", "creating", "assigning", "storing", "releasing"}

TypeOK ==
    /\ channels \in [Slots -> Channels]
    /\ cursor \in Slots
    /\ created \in Size .. MaxChannels
    /\ refs \in [Channels -> Nat]
    /\ pc \in [Threads -> Getting \cup Reporting \cup {"idle", "calling", "reported", "done"}]
    /\ i \in [Threads -> Slots]
    /\ pointer \in [Threads -> Channels \cup {None}]
    /\ fresh \in [Threads -> Channels \cup {None}]
    /\ stub \in [Threads -> Channels \cup {None}]
    /\ handle \in [Threads -> Channels \cup {None}]
    /\ reported \subseteq Channels
    /\ overlapped \in BOOLEAN

Init ==
    /\ channels = [s \in Slots |-> s + 1]
    /\ cursor = 0
    /\ created = Size
    /\ refs = [c \in Channels |-> IF c <= Size THEN 1 ELSE 0]
    /\ pc = [t \in Threads |-> "idle"]
    /\ i = [t \in Threads |-> 0]
    /\ pointer = [t \in Threads |-> None]
    /\ fresh = [t \in Threads |-> None]
    /\ stub = [t \in Threads |-> None]
    /\ handle = [t \in Threads |-> None]
    /\ reported = {}
    /\ overlapped = FALSE

Goto(t, label) == pc' = [pc EXCEPT ![t] = label]

\* A channel that is already gone has no reference to drop.
Drop(c) == refs' = [refs EXCEPT ![c] = IF @ = 0 THEN 0 ELSE @ - 1]

-----------------------------------------------------------------------------
(* GetStorageStub *)

\* Wrong on purpose: the cursor does not come back to the first slot.
AdvanceFar(t) ==
    /\ pc[t] = "idle"
    /\ \A u \in Threads : pc[u] \notin Getting
    /\ cursor' = cursor + 1
    /\ Goto(t, "getting")
    /\ UNCHANGED <<channels, created, refs, i, pointer, fresh, stub, handle, reported,
                   overlapped>>

\* lock_ is free, and the cursor moves on.
Advance(t) ==
    /\ pc[t] = "idle"
    /\ \A u \in Threads : pc[u] \notin Getting
    /\ cursor' = (cursor + 1) % Size
    /\ Goto(t, "getting")
    /\ UNCHANGED <<channels, created, refs, i, pointer, fresh, stub, handle, reported,
                   overlapped>>

\* NewStub(channels_[cursor_]) copies the shared_ptr, here ...
LoadChannel(t) ==
    /\ pc[t] = "getting"
    /\ pointer' = [pointer EXCEPT ![t] = channels[cursor]]
    /\ Goto(t, "copying")
    /\ UNCHANGED <<channels, cursor, created, refs, i, fresh, stub, handle, reported,
                   overlapped>>

\* Wrong on purpose: the stub has a bare pointer to its channel.
CopyPointer(t) ==
    /\ pc[t] = "copying"
    /\ stub' = [stub EXCEPT ![t] = pointer[t]]
    /\ Goto(t, "naming")
    /\ UNCHANGED <<channels, cursor, created, refs, i, pointer, fresh, handle, reported,
                   overlapped>>

\* ... and here.
CopyChannel(t) ==
    /\ pc[t] = "copying"
    /\ refs' = [refs EXCEPT ![pointer[t]] = @ + 1]
    /\ stub' = [stub EXCEPT ![t] = pointer[t]]
    /\ Goto(t, "naming")
    /\ UNCHANGED <<channels, cursor, created, i, pointer, fresh, handle, reported,
                   overlapped>>

\* The handle is read from the slot a second time; lock_ is released.
TakeHandle(t) ==
    /\ pc[t] = "naming"
    /\ handle' = [handle EXCEPT ![t] = channels[cursor]]
    /\ Goto(t, "calling")
    /\ UNCHANGED <<channels, cursor, created, refs, i, pointer, fresh, stub, reported,
                   overlapped>>

-----------------------------------------------------------------------------
(* ReportResult *)

\* Any status but CANCELLED and DEADLINE_EXCEEDED changes nothing.
ReportFine(t) ==
    /\ pc[t] = "calling"
    /\ Goto(t, "reported")
    /\ UNCHANGED <<channels, cursor, created, refs, i, pointer, fresh, stub, handle,
                   reported, overlapped>>

\* The search begins at the first slot.  Each search may need a new channel.
ReportHopeless(t) ==
    /\ pc[t] = "calling"
    /\ created + Cardinality({u \in Threads : pc[u] \in {"searching", "comparing", "creating"}})
          < MaxChannels
    /\ i' = [i EXCEPT ![t] = 0]
    /\ Goto(t, "searching")
    /\ UNCHANGED <<channels, cursor, created, refs, pointer, fresh, stub, handle,
                   reported, overlapped>>

\* The predicate takes its shared_ptr by value: the slot is copied as for a stub.
LoadSlot(t) ==
    /\ pc[t] = "searching"
    /\ pointer' = [pointer EXCEPT ![t] = channels[i[t]]]
    /\ Goto(t, "comparing")
    /\ UNCHANGED <<channels, cursor, created, refs, i, fresh, stub, handle, reported,
                   overlapped>>

EndReport(t) == reported' = reported \cup {handle[t]} /\ Goto(t, "reported")

\* Wrong on purpose: the last slot is left out.
CompareSlotShort(t) ==
    /\ pc[t] = "comparing"
    /\ \/ pointer[t] = handle[t] /\ Goto(t, "creating") /\ UNCHANGED <<i, reported>>
       \/ /\ pointer[t] # handle[t]
          /\ \/ i[t] + 1 < Size - 1 /\ i' = [i EXCEPT ![t] = @ + 1]
                /\ Goto(t, "searching") /\ UNCHANGED reported
             \/ i[t] + 1 >= Size - 1 /\ EndReport(t) /\ UNCHANGED i
    /\ UNCHANGED <<channels, cursor, created, refs, pointer, fresh, stub, handle, overlapped>>

\* The copy's reference comes and goes in the step: held longer, it could only have the
\* channel freed later.  The slot is found, or the next one is
\* looked at, or there is none.
CompareSlot(t) ==
    /\ pc[t] = "comparing"
    /\ \/ /\ pointer[t] = handle[t]
          /\ Goto(t, "creating")
          /\ UNCHANGED <<i, reported>>
       \/ /\ pointer[t] # handle[t] /\ i[t] + 1 < Size
          /\ i' = [i EXCEPT ![t] = @ + 1]
          /\ Goto(t, "searching")
          /\ UNCHANGED reported
       \/ /\ pointer[t] # handle[t] /\ i[t] + 1 = Size
          /\ EndReport(t)
          /\ UNCHANGED i
    /\ UNCHANGED <<channels, cursor, created, refs, pointer, fresh, stub, handle,
                   overlapped>>

\* *i = channel_creator_(), in four steps.
CreateChannel(t) ==
    /\ pc[t] = "creating"
    /\ created' = created + 1
    /\ refs' = [refs EXCEPT ![created + 1] = 1]
    /\ fresh' = [fresh EXCEPT ![t] = created + 1]
    /\ Goto(t, "assigning")
    /\ UNCHANGED <<channels, cursor, i, pointer, stub, handle, reported, overlapped>>

LoadOld(t) ==
    /\ pc[t] = "assigning"
    /\ pointer' = [pointer EXCEPT ![t] = channels[i[t]]]
    /\ Goto(t, "storing")
    /\ UNCHANGED <<channels, cursor, created, refs, i, fresh, stub, handle, reported,
                   overlapped>>

StoreNew(t) ==
    /\ pc[t] = "storing"
    /\ channels' = [channels EXCEPT ![i[t]] = fresh[t]]
    /\ overlapped' = (overlapped \/ \E u \in Threads \ {t} : pc[u] \in Getting \cup Reporting)
    /\ Goto(t, "releasing")
    /\ UNCHANGED <<cursor, created, refs, i, pointer, fresh, stub, handle, reported>>

ReleaseOld(t) ==
    /\ pc[t] = "releasing"
    /\ Drop(pointer[t])
    /\ EndReport(t)
    /\ UNCHANGED <<channels, cursor, created, i, pointer, fresh, stub, handle, overlapped>>

-----------------------------------------------------------------------------
(* The threads between the calls of the pool. *)

\* DoRandomRead goes on with its stub.
CallAgain(t) ==
    /\ pc[t] = "reported"
    /\ Goto(t, "calling")
    /\ UNCHANGED <<channels, cursor, created, refs, i, pointer, fresh, stub, handle,
                   reported, overlapped>>

\* The StubHolder goes out of scope.
DropStub(t) ==
    /\ pc[t] = "reported"
    /\ Drop(stub[t])
    /\ stub' = [stub EXCEPT ![t] = None]
    /\ handle' = [handle EXCEPT ![t] = None]
    /\ Goto(t, "idle")
    /\ UNCHANGED <<channels, cursor, created, i, pointer, fresh, reported, overlapped>>

\* No work is left, or the call failed.
Leave(t) ==
    /\ pc[t] = "idle"
    /\ Goto(t, "done")
    /\ UNCHANGED <<channels, cursor, created, refs, i, pointer, fresh, stub, handle,
                   reported, overlapped>>

Joined == (\A t \in Threads : pc[t] = "done") /\ UNCHANGED vars

GetStorageStub(t) == Advance(t) \/ LoadChannel(t) \/ CopyChannel(t) \/ TakeHandle(t)

ReportResult(t) ==
    \/ ReportFine(t) \/ ReportHopeless(t) \/ LoadSlot(t) \/ CompareSlot(t)
    \/ CreateChannel(t) \/ LoadOld(t) \/ StoreNew(t) \/ ReleaseOld(t)

Next ==
    \/ \E t \in Threads :
          GetStorageStub(t) \/ ReportResult(t) \/ CallAgain(t) \/ DropStub(t) \/ Leave(t)
    \/ Joined

Spec == Init /\ [][Next]_vars

-----------------------------------------------------------------------------
(* Properties *)

\* A channel that has been reported hopeless by its handle is in no slot, whatever
\* the searches and assignments that ran beside the report did to the slots.
HopelessGone == \A s \in Slots : channels[s] \notin reported

Freed(c) == c # None /\ refs[c] = 0

\* The missing lock does harm only when a slot is assigned to while another call is
\* in the pool: until then no freed channel is in a slot, in a stub or about to be
\* copied, the handle names the channel of its stub, and a channel leaves the pool
\* only if it was reported.
SafeApart ==
    ~overlapped =>
        /\ \A s \in Slots : ~Freed(channels[s])
        /\ \A t \in Threads :
              /\ ~Freed(stub[t])
              /\ pc[t] \in {"copying", "comparing"} => ~Freed(pointer[t])
              /\ handle[t] \in {None, stub[t]}
              /\ pc[t] = "releasing" => pointer[t] = handle[t]
===============================================================================
