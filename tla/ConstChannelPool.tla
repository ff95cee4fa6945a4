---------------------------- MODULE ConstChannelPool ----------------------------
(***************************************************************************)
(* ConstChannelPool of benchmark/channel_policy.cc with the ChannelPoller   *)
(* of benchmark/channel_poller.{h,cc} it owns.  All threads share one pool  *)
(* (--cpolicy const), or each has its own (perthread).                      *)
(*                                                                         *)
(* The pool has no lock.  Its channel_ is a shared_ptr, so threads that     *)
(* copy and assign it at once race: a copy loads the pointer, then adds a   *)
(* reference; an assignment loads the old pointer, stores the new one, then *)
(* drops a reference of the old one.  A channel whose references are gone   *)
(* is freed.                                                                *)
(*                                                                         *)
(* External: a completion queue's Next() returns true when a watch has      *)
(* ended, false when the queue is shut down and no watch is outstanding; a  *)
(* watch ends when the channel's state changes, or the channel is freed.    *)
(***************************************************************************)
EXTENDS Integers, FiniteSets

CONSTANTS
    Threads,      \* the worker threads
    MaxChannels   \* bound: channels created in one behaviour

ASSUME ConstChannelPoolAssumption ==
    /\ IsFiniteSet(Threads)
    /\ MaxChannels \in Nat \ {0}

VARIABLES
    users,           \* the threads that share this pool: all of them, or one
    channel,         \* ConstChannelPool::channel_, or None
    created,         \* how many channels there have been
    refs,            \* the reference count of each channel
    freed,           \* the channels destroyed
    pc,              \* where each thread is
    pointer,         \* the pointer each thread has loaded from channel_
    fresh,           \* the new channel each thread is about to assign
    stub,            \* the channel each thread's StubHolder refers to
    main,            \* running, then the steps of the destructors
    poller_channel,  \* ChannelPoller::channel_
    tmp_channel,     \* the local variable of ~ChannelPoller
    shutdown,        \* shutdown_, set together with cq_.Shutdown()
    poller,          \* the polling thread: next, event, exited
    watch,           \* NotifyOnStateChange: none, waiting, ended
    watched          \* the channel it waits on

poolVars   == <<channel, created, refs, freed>>
workerVars == <<pc, pointer, fresh, stub>>
pollerVars == <<poller_channel, tmp_channel, shutdown, poller, watch, watched>>

vars == <<users, poolVars, workerVars, main, pollerVars>>

None     == 0
Channels == 1 .. MaxChannels

Serving == {"calling", "assigning", "storing", "releasing", "reported"}

TypeOK ==
    /\ users \subseteq Threads
    /\ channel \in Channels \cup {None}
    /\ created \in Channels
    /\ refs \in [Channels -> Int]
    /\ freed \subseteq Channels
    /\ pc \in [Threads -> Serving \cup {"idle", "copying", "done"}]
    /\ pointer \in [Threads -> Channels \cup {None}]
    /\ fresh \in [Threads -> Channels \cup {None}]
    /\ stub \in [Threads -> Channels \cup {None}]
    /\ \A t \in Threads : stub[t] # None <=> pc[t] \in Serving
    /\ main \in {"running", "reset", "swapped", "dropped", "shut", "destroyed"}
    /\ poller_channel \in Channels \cup {None}
    /\ tmp_channel \in Channels \cup {None}
    /\ shutdown \in BOOLEAN
    /\ poller \in {"next", "event", "exited"}
    /\ watch \in {"none", "waiting", "ended"}
    /\ watched \in Channels

\* The pool and its poller share the first channel, and the poller watches it.
Init ==
    /\ users \in {Threads} \cup {{t} : t \in Threads}
    /\ channel = 1 /\ poller_channel = 1
    /\ created = 1
    /\ refs = [c \in Channels |-> IF c = 1 THEN 2 ELSE 0]
    /\ freed = {}
    /\ pc = [t \in Threads |-> "idle"]
    /\ pointer = [t \in Threads |-> None]
    /\ fresh = [t \in Threads |-> None]
    /\ stub = [t \in Threads |-> None]
    /\ main = "running"
    /\ tmp_channel = None
    /\ shutdown = FALSE
    /\ poller = "next"
    /\ watch = "waiting" /\ watched = 1

\* A reference to c goes away, with the channel if it was the last.
Drop(c) ==
    /\ refs' = [refs EXCEPT ![c] = @ - 1]
    /\ freed' = IF refs[c] = 1 THEN freed \cup {c} ELSE freed

-----------------------------------------------------------------------------
(* The worker threads. *)

Goto(t, label) == pc' = [pc EXCEPT ![t] = label]

\* GetStorageStub: NewStub(channel_) copies the shared_ptr, here ...
LoadChannel(t) ==
    /\ pc[t] = "idle"
    /\ pointer' = [pointer EXCEPT ![t] = channel]
    /\ Goto(t, "copying")
    /\ UNCHANGED <<users, poolVars, fresh, stub, main, pollerVars>>

\* Wrong on purpose: a stub with a bare pointer to its channel.
CopyPointer(t) ==
    /\ pc[t] = "copying"
    /\ stub' = [stub EXCEPT ![t] = pointer[t]]
    /\ Goto(t, "calling")
    /\ UNCHANGED <<users, poolVars, pointer, fresh, main, pollerVars>>

\* ... and here.
CopyChannel(t) ==
    /\ pc[t] = "copying"
    /\ refs' = [refs EXCEPT ![pointer[t]] = @ + 1]
    /\ stub' = [stub EXCEPT ![t] = pointer[t]]
    /\ Goto(t, "calling")
    /\ UNCHANGED <<users, channel, created, freed, pointer, fresh, main, pollerVars>>

\* ReportResult of any status but CANCELLED.
ReportResult(t) ==
    /\ pc[t] = "calling"
    /\ Goto(t, "reported")
    /\ UNCHANGED <<users, poolVars, pointer, fresh, stub, main, pollerVars>>

\* ReportResult of CANCELLED: channel_ = channel_creator_(), in four steps.
CreateChannel(t) ==
    /\ pc[t] = "calling"
    /\ created < MaxChannels
    /\ created' = created + 1
    /\ refs' = [refs EXCEPT ![created + 1] = 1]
    /\ fresh' = [fresh EXCEPT ![t] = created + 1]
    /\ Goto(t, "assigning")
    /\ UNCHANGED <<users, channel, freed, pointer, stub, main, pollerVars>>

LoadOld(t) ==
    /\ pc[t] = "assigning"
    /\ pointer' = [pointer EXCEPT ![t] = channel]
    /\ Goto(t, "storing")
    /\ UNCHANGED <<users, poolVars, fresh, stub, main, pollerVars>>

StoreNew(t) ==
    /\ pc[t] = "storing"
    /\ channel' = fresh[t]
    /\ Goto(t, "releasing")
    /\ UNCHANGED <<users, created, refs, freed, pointer, fresh, stub, main, pollerVars>>

ReleaseOld(t) ==
    /\ pc[t] = "releasing"
    /\ Drop(pointer[t])
    /\ Goto(t, "reported")
    /\ UNCHANGED <<users, channel, created, pointer, fresh, stub, main, pollerVars>>

\* DoRandomRead goes on with its stub.
CallAgain(t) ==
    /\ pc[t] = "reported"
    /\ Goto(t, "calling")
    /\ UNCHANGED <<users, poolVars, pointer, fresh, stub, main, pollerVars>>

\* Wrong on purpose: the stub goes but its holder still points at the channel.
DropStubOnly(t) ==
    /\ pc[t] = "reported"
    /\ Drop(stub[t])
    /\ Goto(t, "idle")
    /\ UNCHANGED <<users, channel, created, pointer, fresh, stub, main, pollerVars>>

\* The StubHolder goes out of scope.
DropStub(t) ==
    /\ pc[t] = "reported"
    /\ Drop(stub[t])
    /\ stub' = [stub EXCEPT ![t] = None]
    /\ Goto(t, "idle")
    /\ UNCHANGED <<users, channel, created, pointer, fresh, main, pollerVars>>

\* No work is left, or the call failed.
Leave(t) ==
    /\ pc[t] = "idle"
    /\ Goto(t, "done")
    /\ UNCHANGED <<users, poolVars, pointer, fresh, stub, main, pollerVars>>

Worker(t) ==
    /\ main = "running"
    /\ \/ LoadChannel(t) \/ CopyChannel(t) \/ ReportResult(t) \/ CreateChannel(t)
       \/ LoadOld(t) \/ StoreNew(t) \/ ReleaseOld(t) \/ CallAgain(t)
       \/ DropStub(t) \/ Leave(t)

-----------------------------------------------------------------------------
(* ~ConstChannelPool, once its users are done, and in it ~ChannelPoller.  The *)
(* sections under mu_ are one step each.                                      *)

\* Wrong on purpose: the member is left to be destroyed after the poller.
ResetChannelLate ==
    /\ main = "running"
    /\ \A t \in users : pc[t] = "done"
    /\ main' = "reset"
    /\ UNCHANGED <<users, poolVars, workerVars, pollerVars>>

\* channel_.reset()
ResetChannel ==
    /\ main = "running"
    /\ \A t \in users : pc[t] = "done"
    /\ Drop(channel)
    /\ channel' = None
    /\ main' = "reset"
    /\ UNCHANGED <<users, created, workerVars, pollerVars>>

\* tmp_channel.swap(channel_)
SwapChannel ==
    /\ main = "reset"
    /\ tmp_channel' = poller_channel
    /\ poller_channel' = tmp_channel
    /\ main' = "swapped"
    /\ UNCHANGED <<users, poolVars, workerVars, shutdown, poller, watch, watched>>

\* tmp_channel.reset()
ResetTmpChannel ==
    /\ main = "swapped"
    /\ Drop(tmp_channel)
    /\ tmp_channel' = None
    /\ main' = "dropped"
    /\ UNCHANGED <<users, channel, created, workerVars, poller_channel, shutdown,
                   poller, watch, watched>>

\* shutdown_ = true; cq_.Shutdown()
Shutdown ==
    /\ main = "dropped"
    /\ shutdown' = TRUE
    /\ main' = "shut"
    /\ UNCHANGED <<users, poolVars, workerVars, poller_channel, tmp_channel, poller,
                   watch, watched>>

\* Wrong on purpose: the thread is left alone.
Detach ==
    /\ main = "shut"
    /\ main' = "destroyed"
    /\ UNCHANGED <<users, poolVars, workerVars, pollerVars>>

\* thread_->join(), after which cq_ and the rest are destroyed.
Join ==
    /\ main = "shut"
    /\ poller = "exited"
    /\ main' = "destroyed"
    /\ UNCHANGED <<users, poolVars, workerVars, pollerVars>>

Destructor == ResetChannel \/ SwapChannel \/ ResetTmpChannel \/ Shutdown \/ Join

-----------------------------------------------------------------------------
(* The polling thread, and what it polls. *)

\* cq_.Next() returns true.
NextEvent ==
    /\ poller = "next"
    /\ watch = "ended"
    /\ watch' = "none"
    /\ poller' = "event"
    /\ UNCHANGED <<users, poolVars, workerVars, main, poller_channel, tmp_channel,
                   shutdown, watched>>

\* Under mu_: stop, or watch the channel again if there still is one.
HandleEvent ==
    /\ poller = "event"
    /\ \/ /\ shutdown
          /\ poller' = "exited"
          /\ UNCHANGED <<watch, watched>>
       \/ /\ ~shutdown /\ poller_channel # None
          /\ watch' = "waiting" /\ watched' = poller_channel
          /\ poller' = "next"
       \/ /\ ~shutdown /\ poller_channel = None
          /\ poller' = "next"
          /\ UNCHANGED <<watch, watched>>
    /\ UNCHANGED <<users, poolVars, workerVars, main, poller_channel, tmp_channel,
                   shutdown>>

\* cq_.Next() returns false.
NextShutdown ==
    /\ poller = "next"
    /\ shutdown /\ watch = "none"
    /\ poller' = "exited"
    /\ UNCHANGED <<users, poolVars, workerVars, main, poller_channel, tmp_channel,
                   shutdown, watch, watched>>

Poller == NextEvent \/ HandleEvent \/ NextShutdown

EndWatch ==
    /\ watch = "waiting"
    /\ watch' = "ended"
    /\ UNCHANGED <<users, poolVars, workerVars, main, poller_channel, tmp_channel,
                   shutdown, poller, watched>>

\* The state of a channel that lives changes when it likes.
StateChanges == watched \notin freed /\ EndWatch

ChannelFreed == watched \in freed /\ EndWatch

Gone == main = "destroyed" /\ UNCHANGED vars

Next == (\E t \in users : Worker(t)) \/ Destructor \/ Poller \/ StateChanges
        \/ ChannelFreed \/ Gone

\* Both threads are scheduled, and gRPC ends the watch of a destroyed channel.
\* No channel has to change its state.
Fairness == WF_vars(Destructor) /\ WF_vars(Poller) /\ WF_vars(ChannelFreed)

Spec == Init /\ [][Next]_vars /\ Fairness

-----------------------------------------------------------------------------
(* Properties *)

\* Nobody refers to a channel that is gone, if the pool is one thread's own or
\* has replaced its channel at most once: the first channel outlives the race
\* on channel_, because the poller has a reference of its own.
ChannelsAlive ==
    Cardinality(users) = 1 \/ created <= 2 =>
        ({channel, poller_channel, tmp_channel} \cup {stub[t] : t \in Threads})
            \cap freed = {}

\* The completion queue is not destroyed under a watch, or an event, of its own.
QueueDrained == main = "destroyed" => watch = "none"

\* "so that channel can be destroyed when channel_poller is destroyed": the
\* destructors return, though no channel ever changes its state again.
DestructorReturns == main = "reset" ~> main = "destroyed"
=================================================================================
