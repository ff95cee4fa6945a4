---------------------------- MODULE ChannelManager ----------------------------
(***************************************************************************)
(* The sample program: ChannelManager and ChannelHandle of                  *)
(* sample/channel_manager.{h,cc}, and the worker threads and main() of      *)
(* sample/main.cc that use them.  GetHandle, OnRpcDone and the handle's     *)
(* destructor each run under lock_, so each is one step.                    *)
(***************************************************************************)
EXTENDS Integers, Sequences, FiniteSets

CONSTANTS
    MaxChannelCount,  \* --channels, max_channel_count_
    Threads,          \* --threads
    Runs,             \* --runs
    Retries,          \* --retries, the attempts of a run
    SizeMax,          \* SIZE_MAX, the largest size_t
    Statuses          \* how RPCs may end; "unhealthy" is CANCELLED or DEADLINE_EXCEEDED

ASSUME ChannelManagerAssumption ==
    /\ MaxChannelCount \in Nat
    /\ Runs \in Nat /\ Retries \in Nat /\ SizeMax \in Nat
    /\ Statuses \subseteq {"OK", "failed", "unhealthy"}
    \* --threads is an int, so a size_t can count the threads.
    /\ IsFiniteSet(Threads) /\ Cardinality(Threads) <= SizeMax

VARIABLES
    channel_states,        \* channel_states_: a channel and its in_use_count
    channel_handle_count,  \* channel_handle_count_
    pc,                    \* idle, calling, rpc_done, finished
    handle,                \* the channel of each thread's ChannelHandle, or 0
    status,                \* how the thread's last RPC ended
    run, retry,            \* the worker's loop counters
    unhealthy,             \* history: channels that ended an RPC unhealthy
    main                   \* running, joined, destroyed

vars == <<channel_states, channel_handle_count, pc, handle, status, run, retry,
          unhealthy, main>>

CountModulus == SizeMax + 1
Pool         == 1 .. Len(channel_states)
Channels     == Nat \ {0}

\* A thread at "calling" has a handle whose on_rpc_done_called_ is false, at
\* "rpc_done" one with which it is true.
ChannelHandles ==
    /\ handle \in [Threads -> Nat]
    /\ \A t \in Threads : handle[t] # 0 <=> pc[t] \in {"calling", "rpc_done"}

TypeOK ==
    /\ channel_states \in Seq([channel : Channels, in_use_count : 0 .. SizeMax])
    /\ channel_handle_count \in 0 .. SizeMax
    /\ pc \in [Threads -> {"idle", "calling", "rpc_done", "finished"}]
    /\ ChannelHandles
    /\ status \in [Threads -> Statuses \cup {"none"}]
    /\ run \in [Threads -> 0 .. Runs]
    /\ retry \in [Threads -> 0 .. Retries]
    /\ unhealthy \subseteq Channels
    /\ main \in {"running", "joined", "destroyed"}

Init ==
    /\ channel_states = << >>
    /\ channel_handle_count = 0
    /\ pc = [t \in Threads |-> "idle"]
    /\ handle = [t \in Threads |-> 0]
    /\ status = [t \in Threads |-> "none"]
    /\ run = [t \in Threads |-> 0]
    /\ retry = [t \in Threads |-> 0]
    /\ unhealthy = {}
    /\ main = "running"

\* The first channel with the least in_use_count, as a set of at most one: a
\* count of SIZE_MAX is never less than the initial minimum.
Candidate ==
    {i \in Pool :
        /\ channel_states[i].in_use_count < SizeMax
        /\ \A k \in Pool :
              /\ channel_states[i].in_use_count <= channel_states[k].in_use_count
              /\ k < i => channel_states[i].in_use_count < channel_states[k].in_use_count}

\* Wrong on purpose: a pool that is full is given one channel more.
MayCreateTooMany ==
    \A i \in Candidate :
        channel_states[i].in_use_count > 0 /\ Len(channel_states) <= MaxChannelCount

\* There is no candidate, or it is in use and the pool is not full.
MustCreate ==
    \A i \in Candidate :
        channel_states[i].in_use_count > 0 /\ Len(channel_states) < MaxChannelCount

\* Wrong on purpose: one run too many.
HasAttemptOffByOne(t) == run[t] <= Runs /\ retry[t] < Retries

HasAttempt(t) == run[t] < Runs /\ retry[t] < Retries

\* channel_creator_(): each call makes a channel of its own, whatever its
\* credentials are.
CreateBenchmarkGrpcChannel == Len(channel_states) + 1

\* The handle keeps its channel alive, and has yet to be told of an RPC's end.
TakeHandle(t, channel) ==
    /\ handle' = [handle EXCEPT ![t] = channel]
    /\ pc' = [pc EXCEPT ![t] = "calling"]

GetHandle(t) ==
    /\ pc[t] = "idle"
    /\ HasAttempt(t)
    /\ \/ /\ MustCreate
          /\ channel_states' = Append(channel_states,
                [channel |-> CreateBenchmarkGrpcChannel, in_use_count |-> 1])
          /\ TakeHandle(t, CreateBenchmarkGrpcChannel)
       \/ /\ ~MustCreate
          /\ \E i \in Candidate :
                /\ channel_states' = [channel_states EXCEPT ![i].in_use_count = @ + 1]
                /\ TakeHandle(t, channel_states[i].channel)
    /\ channel_handle_count' = (channel_handle_count + 1) % CountModulus
    /\ UNCHANGED <<status, run, retry, unhealthy, main>>

\* Wrong on purpose: only an RPC that succeeded gives its channel back.
OnRpcDoneIfOk(t) ==
    /\ pc[t] = "calling"
    /\ \E s \in Statuses :
          /\ status' = [status EXCEPT ![t] = s]
          /\ channel_states' =
               [i \in Pool |->
                  IF channel_states[i].channel = handle[t] /\ s = "OK"
                  THEN [channel_states[i] EXCEPT !.in_use_count = (@ - 1) % CountModulus]
                  ELSE channel_states[i]]
    /\ pc' = [pc EXCEPT ![t] = "rpc_done"]
    /\ UNCHANGED <<channel_handle_count, handle, run, retry, unhealthy, main>>

\* The RPC ends and OnRpcDone is told how.  An unhealthy channel's count is
\* reset; the channel itself stays, for "cs.channel == channel_creator_()"
\* compares it with a new one that is then dropped.
OnRpcDone(t) ==
    /\ pc[t] = "calling"
    /\ \E s \in Statuses :
          /\ status' = [status EXCEPT ![t] = s]
          /\ unhealthy' = IF s = "unhealthy" THEN unhealthy \cup {handle[t]} ELSE unhealthy
          /\ channel_states' =
               [i \in Pool |->
                  IF channel_states[i].channel = handle[t]
                  THEN [channel_states[i] EXCEPT !.in_use_count =
                          IF s = "unhealthy" THEN 0 ELSE (@ - 1) % CountModulus]
                  ELSE channel_states[i]]
    /\ pc' = [pc EXCEPT ![t] = "rpc_done"]
    /\ UNCHANGED <<channel_handle_count, handle, run, retry, main>>

\* Wrong on purpose: the handle of an attempt that will be retried is kept.
DestroyHandleOnSuccess(t) ==
    /\ pc[t] = "rpc_done"
    /\ handle' = [handle EXCEPT ![t] = 0]
    /\ \/ /\ status[t] = "unhealthy"
          /\ retry' = [retry EXCEPT ![t] = @ + 1]
          /\ UNCHANGED <<run, channel_handle_count>>
       \/ /\ status[t] # "unhealthy"
          /\ run' = [run EXCEPT ![t] = @ + 1]
          /\ retry' = [retry EXCEPT ![t] = 0]
          /\ channel_handle_count' = (channel_handle_count - 1) % CountModulus
    /\ pc' = [pc EXCEPT ![t] = "idle"]
    /\ UNCHANGED <<channel_states, status, unhealthy, main>>

HandleDestroyed == channel_handle_count' = (channel_handle_count - 1) % CountModulus

\* The handle goes out of scope.  An unhealthy attempt is followed by the next
\* one of the same run, any other ends the run.
DestroyHandle(t) ==
    /\ pc[t] = "rpc_done"
    /\ HandleDestroyed
    /\ handle' = [handle EXCEPT ![t] = 0]
    /\ \/ /\ status[t] = "unhealthy"
          /\ retry' = [retry EXCEPT ![t] = @ + 1]
          /\ UNCHANGED run
       \/ /\ status[t] # "unhealthy"
          /\ run' = [run EXCEPT ![t] = @ + 1]
          /\ retry' = [retry EXCEPT ![t] = 0]
    /\ pc' = [pc EXCEPT ![t] = "idle"]
    /\ UNCHANGED <<channel_states, status, unhealthy, main>>

\* Wrong on purpose: a run out of attempts is begun again.
NextRunAgain(t) ==
    /\ pc[t] = "idle"
    /\ run[t] < Runs /\ retry[t] >= Retries
    /\ retry' = [retry EXCEPT ![t] = 0]
    /\ UNCHANGED <<channel_states, channel_handle_count, pc, handle, status, run,
                   unhealthy, main>>

\* Out of attempts: the run is given up, and the next one begins.
NextRun(t) ==
    /\ pc[t] = "idle"
    /\ run[t] < Runs /\ retry[t] >= Retries
    /\ run' = [run EXCEPT ![t] = @ + 1]
    /\ retry' = [retry EXCEPT ![t] = 0]
    /\ UNCHANGED <<channel_states, channel_handle_count, pc, handle, status,
                   unhealthy, main>>

Finish(t) ==
    /\ pc[t] = "idle"
    /\ run[t] >= Runs
    /\ pc' = [pc EXCEPT ![t] = "finished"]
    /\ UNCHANGED <<channel_states, channel_handle_count, handle, status, run, retry,
                   unhealthy, main>>

\* main() joins the threads, prints, and destroys the manager on its way out.
JoinThreads ==
    /\ main = "running"
    /\ \A t \in Threads : pc[t] = "finished"
    /\ main' = "joined"
    /\ UNCHANGED <<channel_states, channel_handle_count, pc, handle, status, run,
                   retry, unhealthy>>

DestroyManager ==
    /\ main = "joined"
    /\ main' = "destroyed"
    /\ UNCHANGED <<channel_states, channel_handle_count, pc, handle, status, run,
                   retry, unhealthy>>

Gone == main = "destroyed" /\ UNCHANGED vars

Worker(t) == GetHandle(t) \/ OnRpcDone(t) \/ DestroyHandle(t) \/ NextRun(t) \/ Finish(t)

Next == (\E t \in Threads : Worker(t)) \/ JoinThreads \/ DestroyManager \/ Gone

\* Threads are scheduled, and an RPC ends sooner or later.
Fairness ==
    /\ \A t \in Threads : WF_vars(Worker(t))
    /\ WF_vars(JoinThreads \/ DestroyManager)

Spec == Init /\ [][Next]_vars /\ Fairness

-----------------------------------------------------------------------------
(* Properties *)

InProgress(i) == {t \in Threads : pc[t] = "calling" /\ handle[t] = channel_states[i].channel}

\* "The number of in-progress RPC": each channel's in_use_count is exact, as
\* long as no channel was to be replaced.
InUseExact ==
    unhealthy = {} =>
        \A i \in Pool : channel_states[i].in_use_count = Cardinality(InProgress(i))

\* "The maximum number of channels in the pool" is not exceeded; a maximum of 0 does
\* not keep the first channel from being made.
PoolBounded == Len(channel_states) <= MaxChannelCount \/ Len(channel_states) = 1

\* It is not, at least, as long as no channel was to be replaced.
PoolBoundedWhileHealthy == unhealthy = {} => PoolBounded

\* "Replace the unhealthy channel with the newly created one": no channel that
\* ended an RPC unhealthy is handed out again.
UnhealthyReplaced ==
    \A i \in Pool : channel_states[i].channel \notin unhealthy

\* The manager counts the handles alive, so its destructor's assertion that
\* there is none holds when main() returns, however the RPCs ended.
HandlesCounted ==
    /\ channel_handle_count = Cardinality({t \in Threads : handle[t] # 0})
    /\ main # "running" => channel_handle_count = 0

\* Every thread gets through its runs, and the program ends.
Terminates == <>(main = "destroyed")
===============================================================================
