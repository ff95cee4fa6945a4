# Verification of the gRPC for GCP end-to-end programs

TLA+ models of the programs under `src/e2e-examples/gcs`: a benchmark that reads and
writes Google Cloud Storage objects over gRPC from many threads (`benchmark/`), a sample
with a channel manager (`sample/`), and a server that fakes the storage service
(`dummy_server/`). The rest of the repository is build files, Firestore examples
in which one call follows another, and scripts.

Every module can be checked with `tlc -config MCx.cfg MCx.tla`, every `*Proofs` module
with `tlapm`. `PROJECT.json` lists runs, mutants, findings, hazards and
theorems, and for each definition the lines it models.

## 1. Inventory

### The benchmark

| Component | State | Operations | Hard behaviour | What makes it correct |
|---|---|---|---|---|
| `WorkQueue` (work_queue.cc) | per-thread counters, stealing flag, a mutex | constructor, `pop` | threads pop and rob each other at once | each piece of work is given out once, own work first, refusal only when nothing is left |
| `GrpcRunner` (grpc_runner.cc) | parameters, threads, `vector<bool> returns`, the queue | `Run`, `DoOperation`, `DoRead`, `DoRandomRead`, `DoWrite` | retries while others steal; `exit(1)` in one thread; results stored unlocked in shared words | a job succeeds once, none is lost, success is never claimed falsely, every run ends |
| `GcscppRunner` (gcscpp_runner.cc) | the same, no queue | the same | no retries; statuses ignored; a read loop that may not end | the same promise |
| `RunnerWatcher` (runner_watcher.cc) | operations under a lock, start and duration | `NotifyCompleted`, getters | calls of all threads are recorded out of time order | the operations and durations the report is made of |
| `main()` (main.cc), `Parameters` | flags | parse, start admin and telemetry, run, report | early returns, failures of each step | exit status 0 only for a run that did its work |
| `ConstChannelPool`, `ChannelPoller` | `channel_`; the polling thread, its channel, completion queue and flag | `GetStorageStub`, `ReportResult`, both destructors, `ThreadRun` | `channel_` is assigned without a lock; the destructor has to outlast a watch | no use of a freed channel, the queue is drained, the destructor returns |
| `RoundRobinChannelPool` | channels, cursor, a lock | the same two | `ReportResult` does not take the lock | hopeless channels go; handles name their stubs' channels; no use of a freed channel |
| `RoundRobinPlusChannelPool` | per slot a channel and a count, a lock | the same two | reports about evicted channels, recycled addresses, several reports per stub | counts are exact, the least used channel is chosen, hopeless channels go |
| `SmartRoundRobinChannelPool` | channels, cursor, a map of scores keyed by address, a count | the same two, `InitChannelStateMap` | the map and the channels part ways, integer division | evaluation happens, evicts only what deserves it, does not crash |
| `CreateNewChannelStubProvider` | none | the same two | none | - |
| `ObjectResolver` | names and bounds | `Resolve` | modulo arithmetic | object numbers stay within their bounds |
| `PrintResult`, `WriteReport`, `WriteData` | none | sorting, percentiles | indexes at the ends | they index what exists |
| `grpc_admin.cc` | two globals and a thread | start, stop | stop races the thread's start and end; `main()` may leave without a stop | the thread is told to end and joined |
| channel creation, telemetry, random data, `grpc_xtra` | none that lasts | - | - | - |

The server and its clients meet in messages: a read of the sample's `worker` or of
`DoRead`, a write of `DoWrite`.

The parts of the benchmark meet in four places: `main()` calls `Run()`; the worker threads of a runner
pop from one `WorkQueue`; they get stubs from a `StorageStubProvider` and report every
call to it; they report every call to the `RunnerWatcher`, which `main()` reads after
the join. Each provider sees only interleaved `GetStorageStub` and `ReportResult` calls
and the lifetimes of the stubs it gave out.

### The sample

| Component | State | Operations | Hard behaviour | What makes it correct |
|---|---|---|---|---|
| `ChannelManager`, `ChannelHandle` | channels with counts, the number of handles, a lock | `GetHandle`, `OnRpcDone`, destructors | unsigned counts, replacement of a channel in use | exact counts, lazy creation, the limit, no handle left at the end |
| `worker`, `main` | two loop counters a thread | - | retries | the program ends |

### The dummy server and the scripts

| Component | State | Operations | Hard behaviour | What makes it correct |
|---|---|---|---|---|
| reactors (dummy_server/main.cc) | per RPC: `left_size_` | `GetObject`, `ReadObject`, `WriteObject`, `MaybeWriteNext`, `OnWriteDone`, `OnReadDone`, `OnDone` | callbacks in any order the library may make them, on connections that break | one operation at a time, one `Finish`, the bytes add up, the reactor goes |
| `RunServer` (dummy_server/main.cc) | the server | start | unknown credentials, files that do not open, a port that is taken | clients of a server that is not there see their calls fail |
| `gcs_util.cc` | none | size from an object's name, a chunk of data | overflow, names that are almost sizes | sizes are what the name says |
| `benchmark_analysis/*.py` | none | one pass over a file | - | - |

## 2. Modules

| Module | Models | Runs |
|---|---|---|
| `WorkQueue` | the queue; implements `WorkPool` | `MCWorkQueue` |
| `WorkPool` | abstract: a set of work that shrinks piece by piece | |
| `Runner` | `main()`, both runners, the watcher's record; composes `WorkQueue`, implements `Benchmark` | `MCRunner*` |
| `Benchmark` | abstract: jobs complete once each; success only when all are done | |
| `RoundRobinPlusPool` | policy `bpool` and its client threads | `MCRoundRobinPlusPool` |
| `SmartRoundRobinPool` | policy `spool` and its client threads | `MCSmartRoundRobinPool*` |
| `RoundRobinPool` | policy `pool` and its client threads | `MCRoundRobinPool` |
| `ConstChannelPool` | policies `const` and `perthread`, the poller, the destructors | `MCConstChannelPool` |
| `ChannelManager` | the sample: manager, handles, workers, `main()` | `MCChannelManager*` |
| `DummyServer` | the dummy server and one call to it; uses `GcsUtil`, implements `Transfer` | `MCDummyServer` |
| `GcsUtil` | `gcs_util.cc`: operators on names and sizes | |
| `Transfer` | abstract: bytes arrive; success only when all have; refused only if there is no object | |
| `BenchmarkMain` | `main()` around the run: admin thread, clock, recorded times, percentiles | `MCBenchmarkMain` |
| `RunnerProofs`, `RoundRobinPlusPoolProofs`, `SmartRoundRobinPoolProofs`, `RoundRobinPoolProofs`, `ConstChannelPoolProofs`, `ChannelManagerProofs`, `DummyServerProofs` | theorems about the module each is named after | checked by tlapm |
| `QueueAndMainProofs` | theorems about `WorkQueue` and `BenchmarkMain` | checked by tlapm |

Definitions marked "Wrong on purpose" are plausible bugs of the definition that
follows them. No specification uses them: put in the place of the right definition,
each makes the property `PROJECT.json` names with it fail.

### How state and steps correspond to the code

**WorkQueue.** `thread_works` is `thread_works_`; `pop` holds the mutex throughout, so
it is one step, `Pop`. `Source` is the search: the caller's own counter, else the first
counter with something left. `work` is what each caller's `pop` returned last. A pair's
work_id counts from 1, as in the code; `<<0, 0>>` is the answer "none". `pop` also
answers "none" to a thread id outside the range; no caller has one. The specification's names
(`QueueInit`, `QueueNext`, `QueueTypeOK`) are its own, because `QueueAndMainProofs` extends
`BenchmarkMain` as well.

**Runner.** A worker's `pc` runs `begin` (argument checks) - `next` (pop, or the loop's
condition) - `call` (the RPC) - `notify` (the watcher, then `continue`, `return` or the
next job) - `return` - `store` (the result bit) - `done`. The RPC is one step that ends
in any status: neither a chunk nor the time it takes is visible to another thread. An
operation's record keeps the job, whether the status was OK, and whether the content
was intact, a fact the code does not always look at. `returns` is a `vector<bool>`: a store
of one bit loads a word (`LoadWord`) and stores it (`StoreWord`), and threads whose bits
share a word (`SameWord`) may undo each other's stores: the data race of the code, as the
usual build compiles it. `DoRandomRead` decrements its loop counter before a retry; here it
stays on its job, which is the same. `GcscppRunner` differs in its calls: an unopened
stream ends the thread, a finished one is recorded as OK, and a random read whose stream
ends early goes on reading nothing for ever (`Spin`). The flags that decide what happens
are the record `parameters`; how a flag's text is parsed is the library's business, and
whether `GetParameters` and `main()` accept the flags is one Boolean of it.

**Pools.** `GetStorageStub` and `ReportResult` of `bpool` and `spool` run under their lock:
one step each. The code knows a channel by its address, and an address can be used again
after the last reference is gone; so a model channel is an address and a serial number
that only properties look at, and a new channel takes any address that no pool slot and no
live stub has. Clients behave as the operations of the runner do: a stub for each call
(read), one stub for all calls (random read), a stub that may never be reported (resumable
write whose start fails).

**SmartRoundRobinPool.** `ReportResult` has three ways: `EvictHopeless`, an error that changes
nothing, and `Count`, which adds a result to the entry its address finds (`Updated`) and may
go on to `Evaluate`. The map is keyed by address, as in the code; an entry's `serials` are
history for the properties: the channel it was made for, and those whose calls it has
counted. `milliseconds` is what a call adds to the sum that a score divides by: the code sums
finer durations and rounds the sum down. An entry outlives a channel that was hopeless, and
a later channel may get its address: `hopeless` keeps the channels reported so
since the map was made. `EntriesTraced` says that nothing else is ever counted, `EvictsOnlySlow`
that an eviction for a low score is one for the scores of the entry the channel has: calls on
that very channel (by serial), or on hopeless ones at its address before. That last clause is
not for caution. Without it TLC finds, in 16 steps, the fresh fourth channel at the address of
the dead second evicted for what the second did; it was never called itself.

**RoundRobinPool.** `GetStorageStub` holds `lock_` (`Getting`: one thread at a time), and
`ReportResult` does not: its search (`LoadSlot`, `CompareSlot`) and its assignment
(`CreateChannel`, `LoadOld`, `StoreNew`, `ReleaseOld`) are steps of their own that run beside it
and each other. The reads of a slot by `GetStorageStub` are two, one for the stub and one for the
handle. As in `ConstChannelPool`, the undefined behaviour of the race is what the usual
`shared_ptr` makes of it. The comparison with a slot's channel copies the pointer, compares
and drops the copy in one step (`CompareSlot`), after the load that is another: a copy held longer
could only have the channel freed later. Addresses do not come back in this module; what a
recycled one does to a report is the subject of the other two. A search that may end in an assignment starts only if there is a
channel left for it below `MaxChannels`.

**DummyServer, GcsUtil, Transfer.** One call at a time: calls share nothing but the process.
`started` is what the call's reactor has asked the library to do; the library completes its head,
calls the handler (`OnWriteDone`, `OnReadDone`, `OnDone`) and puts what was to be sent on
`to_client`. A handler is an operator that extends `started`, so that a handler that started two
things, or none, would show. The connection may break at any time (`Break`: a deadline, a
network), and the process may be killed (`Kill`); from then on nothing arrives, a write may still
complete as if it did, and `Finish` at the client makes up a status. A name is a sequence of
tokens (slash, dot, digits, letters, each letter in upper or lower case), enough for both searches,
the regular expression and the units, which the code puts into lower case first;
`Wrap` is the overflow of an `int64_t` whose largest value is `IntMax`. `SizesNamed` is the independent
definition of a size that `TransferSpec` compares with: which splits of a name into
directory, digits, unit and extension there are, a unit being one of four letters in any case,
alone or with "ib" behind it (`IsUnit`, `Powers`): nothing of it is taken from `GetUnitMultiplier`. The client is the sample's loop for reads
(`Read`, `ReadEnds`, `GetStatus`) and `DoWrite`'s loop for writes (`WriteChunk`, `WriteFails`,
`WritesDone`). `GetObject` has no client in the repository; it is called as any unary call is.

**BenchmarkMain.** The control of `main()` that `Runner` leaves out. `g_admin_thread` is the
thread's own state, `g_admin_server` what the unique_ptr holds. `Tick` advances the clock between
any two steps; an operation's `time` and `elapsed_time` are read from it where the code calls
`absl::Now()`, and the record under the lock is a later step, so records come out of order.
The workers are those of `Runner` with their jobs counted only: one that fails and may not try
again ends the process (`ExitProcess`), or with `--wait_threads` stays away while the others go
on, and `main()` then returns 1 (`RunFails`, which also stands for a run whose result was lost, as
`Runner` shows). `Shutdown()` is one step: it wakes `Wait()` last, and the library's destructor,
which the admin thread then runs, waits for the rest of it. `GetNonWarmupsDuration` is
the code's loop as a fold, `Percentile` its index. `GetSortedOperationIndex` is the set of
orders that `std::sort` may leave the indexes in: it is not stable, so operations of equal
time come in any order, and what is said of percentiles is said of each such order.

**ConstChannelPool.** Here nothing is locked, and the model is as fine as the race: copying
the `shared_ptr` is a load and an increment, assigning it is load, store and decrement.
That is undefined behaviour in C++; the model takes the outcomes of the usual
implementation. The poller's thread, the sections of its destructor and the completion
queue are steps of their own. What gRPC does (a watch ends when the channel changes
state or is destroyed; `Next` returns false once the queue is shut down and
empty) is external and taken from the way the code uses it.

**ChannelManager.** The three operations run under the lock: one step each. Counts are
`size_t`, with wrap-around above `SizeMax`; `--threads` is an `int`, so a `size_t` can count
the threads (the assumption on `Threads`). `--channels` is not checked: with 0 the first call still
makes a channel, so `PoolBounded` allows one. The manager's assertion that no
handle is left is the invariant `HandlesCounted`. `OnRpcDone` compares where it should
assign (`cs.channel == channel_creator_()`), so its channel stays; the model does what the
code does. `handle` is the thread's `ChannelHandle`; its `on_rpc_done_called_` is whether the
thread is past `calling`.

## 3. Runs

Passing runs, with the number of distinct states:

| Run | Question | Instance |
|---|---|---|
| `work_queue` (248) | is the queue the abstract pool: each piece once, own work first, a refusal only for want of work? | 3 threads, 2 pieces each, stealing on and off |
| `runner` (265 000) | do the threads of either client keep the promise of `Benchmark`, lose nothing, and end? | 2 threads, 2 runs each, 2 failing calls, 73 combinations of flags |
| `round_robin_plus` (16 900) | do reports hit their own channel, are counts exact, do hopeless channels go? | 2 channels, 3 threads, 6 addresses, 5 channels created |
| `smart_round_robin` (925 000) | what may the map count, does the evaluation happen on time, whom does it evict? | 2 channels, 2 threads, 5 addresses, 5 channels created, evaluation above 2 * 2, `score_count` up to 6 |
| `round_robin` (223 000) | do hopeless channels go although the search is unlocked, and what does the missing lock break, and when? | 2 channels, 2 threads, 5 channels created |
| `const_pool` (44 000) | is a freed channel ever used, and do the destructors drain the queue and return? | 2 threads, 4 channels created |
| `channel_manager` (56 700) | are counts, limit and handles right, and does the program end? | 3 threads, 1 run of 2 attempts, 2 channels, `SIZE_MAX` = 7 |
| `dummy_server` (12 200) | do the callbacks keep to one operation at a time, do the bytes add up, is a size what the name says, does OK mean everything arrived, does each call end? | 15 names with 4 limits, 8 writes, 5 ways to start, messages of up to 8 bytes, 2 in a stream |
| `benchmark_main` (373 000) | is the measured interval within the true one, do percentiles stand for their rank, does the process end with its admin thread? | 2 threads, 2 operations each, one failure, 2 ticks |

Runs that TLC must find violated, because the source says one thing and does another:

| Run | The source says | What happens |
|---|---|---|
| `lost_result` | "Runner failed to complete a run." | two threads that succeeded store their bits at once, one bit is lost, and the run fails |
| `smart_quorum` | "once the update counter exceeds the threadhold, it evaluates the last performer" | evictions leave dead entries in the map until no quorum is reached, unless a new channel gets a dead one's address |
| `manager_replace` | "Replace the unhealthy channel with the newly created one." | the channel stays, with its count reset |

### Bounds, and why they are enough

* *Threads.* Every interaction in this code is between a thread and its like through a lock
  or a word: two threads meet in every way there is. Three are used where a third
  can be the one that is chosen wrongly (stealing order, least used slot).
* *Runs.* Two jobs a thread: one to be working on, one to be stolen.
* *Failures.* `MaxFailures` = 2 lets one job fail twice, or two threads once each.
  It bounds calls that fail, so that retrying ends; the theorems hold for every bound.
* *Channels.* `MaxChannels` lets every slot be replaced at least once, and one of them
  twice; after the last no thread takes a stub any more, or the call that would create one more
  is not taken. In `smart_round_robin` five channels are what a low score needs to hit a channel
  at a recycled address: two to start with, one in the place of a
  hopeless one while a stub still has that one's address, one that gets the address afterwards,
  and one in the place of that. There is always a free address
  (the assumption on `Addresses`), and one that was freed can come back.
* *`ScoresPerChannel`* is 3 in the code (channel_policy.cc:271) and in `smart_quorum`; the passing run
  takes 2, so that five channels can be reached, and the theorems hold for any.
  *`MaxScoreCount`* = 6 is the first count above the threshold of 2 * 2 and one more.
* *`MinCount`* bounds how far random reads drive a count below zero.
* *`K`* = 2 and *`IntMax`* = 31 in `DummyServer`: `1t` is 16 bytes, `2t` wraps below zero, `4t` to
  zero, `5t` to a size again. `MaxReadChunkBytes` = 8 cuts objects into one to four messages,
  with and without a rest. *`Window`* = 2 messages in a stream: a sender waits for room.
* *`MaxTime`* = 2 ticks are enough for an operation that begins first and ends last, and for
  one recorded after another that ended later.
* *`WordBits`* = 64 puts both results in one word, the racing case.
* *`SizeMax`* = 7 is large enough for all counts; only "below zero" wraps.

Symmetry (threads, addresses) is used where nothing orders them and no liveness is checked.

### Fairness

Weak fairness of each worker and of `main()`: the operating system schedules every thread,
and every call has ended, in the model, when its step is taken. A call ends in the code
because gRPC ends it (the timeout the flag sets, or the stream's end). That calls stop
failing is not fairness but the bound `MaxFailures`: `Terminates` and `TryingCompletes`
of the runner say "once calls stop failing". `Spin` is not fair: a thread that reads nothing
for ever is the exception in `Terminates`. In `ConstChannelPool` the destructing
thread, the polling thread and the end of the watch of a destroyed channel are fair, and
no change of a living channel's state is: the destructor must not depend on one.
In `DummyServer` the server's start, the library and the client are fair: both processes run, and
gRPC completes what it can. A break is fair only when there is no server (the connection is
refused); a connection that could break need not, and a server need not die. In `BenchmarkMain`
`main()`, the admin thread and the workers are; the clock is not.
The other pools' and the queue's specifications have no fairness; only safety is asked of them.

## 4. Proofs

tlapm checks these for every value of the constants that the modules' `ASSUME`s allow
(any finite number of threads, channels, runs and failures, any width of a word, any set of
flags).

**QueueAndMainProofs**, on the queue. `QueueTypeCorrect`; `WorkIsExclusive`; `QueueImplementsPool`.
`Exclusive` alone is not inductive: nothing in it says that a piece held is below its counter.
`ExclusiveInv` adds that everything held was handed out, so the piece a step gives, which was
not, is new.

**QueueAndMainProofs**, on `main()`. `TypeCorrect`, `EndsInNoOtherWay`, `MeasuredSpanIsBounded`,
`SomeOrderIsSorted`, `PercentilesHaveTheirRank`. The inductive invariant `MainInv` (which TLC
found true of all states of `benchmark_main` first) joins to `TypeOK`:

* `ControlInv`: what the workers still do, given where `main()` is. A thread in a call has work
  left, and after the join none has, so the report reads a record nobody adds to.
* `TimeInv`: the times of operations, made or recorded, lie between `run_start` and the clock,
  and after the join within `duration`.
* `LastSucceeds`: once no thread has work left (one that failed keeps what it had), the operation recorded last succeeded, since a
  thread records its last success last. So a report with an operation has a
  successful one, and the percentiles have something to index.
* `AdminInv`: where the admin thread is, what `g_admin_server` holds, and how the process may
  have ended.

`EndsInNoOtherWay` is the safety part of `Ends`: it does not say that the process ends, but that
if it has, then in one of the ways `EndsWell` lists, and never in the report. `MeasuredSpanIsBounded`
needs the value of a fold. Its equation is solved by a function on sets of indexes, whose
existence for every length is shown with a largest length for which there is one (`FoldExists`),
and read off step by step (`DurationIs`): after each operation `begin` is the
least begin so far, so that `std::max(begin, op.time)` is always `op.time`, and the measured
interval runs from the least begin to the end of the last operation recorded.
`PercentilesHaveTheirRank` counts: in a sorted order the operations slower than
the one at a position stand before it, and all up to it are as slow (`RankInSorted`). As the theorem
quantifies over sorted orders, `SomeOrderIsSorted` shows that there always is one.

**RunnerProofs.** `TypeCorrect`, `JobsAreExclusive`, `JobsCompleteOnce`, `JobsAreNotLost`,
`StealingIsComplete`, `SuccessIsReal`, `ReportsHaveSuccess`, `RunKeepsPromise`. The inductive
invariant has three parts. `TypeOK` with `HasJob`: a thread in the middle of a call has a job.
`JobInv`: a job in hand was begun and is not completed (`HeldIsFresh`), a completed job was begun,
a thread that left with success had nothing left (`LeavesWhenDone`); with them exclusivity,
once-only and no-loss are inductive. `ResultInv`: a bit that is set, in `returns` or in the copy
a thread has loaded, belongs to a thread that succeeded (`BitsAreTrue`). The race can only lose a
set bit, since a thread's bit is set only by its own store and before it all copies have it clear;
that is why `NoFalseSuccess` holds whatever the word's width while "no success is lost" does
not. `RunKeepsPromise` is the refinement of `Benchmark`: a step that records a first success
completes a job, the successful join is the verdict, the rest stutters.

**RoundRobinPlusPoolProofs.** `TypeCorrect`, `HopelessStaysGone`, `ReportsHitTheirChannel`,
`CountsAreExact`, `LeastUsedIsLeast`. `ChannelInv` says that no two live channels (in a slot or held
by a stub) share an address, that serial numbers are those of channels created so far, and that
hopeless channels are gone: the argument that a `StubHolder` keeping its channel alive is what
makes comparing addresses sound. The counts then follow for operations that report
every call on a stub of its own.

**ChannelManagerProofs.** `TypeCorrect`, `CountsAreExact`, `LimitHolds`, `HandlesAreCounted`, from
`ManagerInvariant`. The counts need what no property says: a channel is numbered by its place
(`ChannelsNumbered`), so a handle and an entry of `channel_states_` can be matched, and a thread
with a handle is in an attempt (`InAttempt`), so main() finds none after its joins
(`JoinedFinished`). A count does not wrap because it counts threads, and there are no more
threads than `SizeMax`. That the search returns a candidate of the least count rests on a set of
natural numbers having a least one.

**DummyServerProofs.** `ObjectSizeIsNamed` says of a name of any length that `GetObjectSize` returns
the size its parts stand for, whatever the case of its unit: that the units of
`GetUnitMultiplier` are those of `SizesNamed` is `UnitsAgree`, where the two searches end is characterised by position
(`BasenameLies`), and so is each split that `SizesNamed` allows (`SizesNamedLie`).
`TypeCorrect`, `OneOperation`, `NoByteLost` and `ImplementsTransfer` come from `ServerInvariant`: what
may be started for each method (`KindsRight`), a finish is the last thing of a stream
(`InOrder`), and for each method where the bytes are. `BytesConserved` speaks only of
unbroken connections and is not inductive; `ReadParts` adds that what a client of a broken one
has is still a part of the object, so that OK, which may be on its way when the
connection breaks, never arrives before a byte that was sent. `ImplementsTransfer` is the
refinement of `Transfer`, step by step. Sums over streams are compared summand by summand
(`SumsGrowAlike`), which needs no induction over sequences.

**SmartRoundRobinPoolProofs.** `TypeCorrect`, `MapIsTraced`, `EvaluationOnTime`, `OnlySlowEvicted`,
from `PoolInvariant`. As in `bpool`, live channels have different addresses (`AddressesUnique`),
hence the map that `InitChannelStateMap` builds has an entry for each channel. `EntriesTraced` is not
inductive: a result is counted for a stub's channel, which the pool may have replaced
long ago. `StubsTraced` adds that a stub of a channel that is in the map is of one the pool has,
or of one reported hopeless since the map was made: a channel evicted for its score is held
by a stub at most, its address is not free while one is, and the map made with its eviction has
no entry for it. `OnlySlowEvicted` needs all of that, since the code identifies what it
evicts by address alone. The proof of `EvaluatedOnTime` corrected the model: a division by zero in an
evaluation that was late leaves `score_count` above its threshold although there is a quorum, so
it now excepts a process that has died.

**RoundRobinPoolProofs.** `TypeCorrect`, `HopelessIsGone`, `SafeWhileApart`. `HopelessGone` holds
whatever overlaps. Its invariant, `SearchInv`, follows each search: the slots behind it do not
have the channel it looks for (`Passed`), and never will, because only a fresh channel is
assigned (`FreshUnseen`), once, to one slot (`SlotsDiffer`). `SafeApart` needs reference counts,
which are exact until an assignment overlaps another call: `CountInv` says what each
thread has read is still there (`Undisturbed`), one thread at a time releases a channel, and a
count is the one reference of the slot or of the thread that has taken the channel out of it,
plus the number of stubs.

**ConstChannelPoolProofs.** `TypeCorrect`, `AliveWhileUnraced`, `QueueIsDrained`. `QueueDrained` holds
whatever the threads do, since it rests on the destructor and the poller only (`MainInv`,
`PollerInv`). `ChannelsAlive` has the shape of `SafeApart`: `CountInv` holds while there is one
user or one replacement at most (`Unraced`), when at most one thread assigns
`channel_` (`OneReplaces`).

**Not proved.** Liveness (`Terminates` of both programs, `TryingCompletes`, `DestructorReturns`,
`CallEnds`, `Ends`): fairness and ENABLED are beyond the prover; TLC checks them. Every other
property of a passing run (each invariant, each action property, each refinement) is a theorem.
`WorkIsExclusive`, `JobsAreExclusive` and `LeastUsedIsLeast` are proved and no longer run: `PoolSpec`, `OnceOnly` and
`CountsMatch` would show TLC the same mistakes.

## 5. What the models showed beside the findings

The benchmark:

* A read whose content fails the CRC32C check stops reading and is recorded with the status of
  the stream, OK included (grpc_runner.cc:245); the flag says "Check CRC32C check for received
  content". `CorruptReadFails` in `Runner` states it; TLC finds it violated.
* When `StartResumableWrite` fails the thread ends, whatever `--trying` says (grpc_runner.cc:443);
  the flag says "Keep trying the same operation if failed". `TryingNeverFails` states it and is
  violated; `TryingCompletes` says that this is the only way a job is left undone.
* A random read takes one stub and reports many calls, so a count of `bpool` goes below zero and a
  busy channel is preferred (channel_policy.cc:178); a resumable write that cannot start drops
  its stub without a report, and its channel's count stays one too high for good. The comment says
  "Finds the channel with the least number of use." (channel_policy.cc:151): `LeastUsedAlways` in
  `RoundRobinPlusPool` states it for all operations and is violated.
* Under `pool`, an assignment that meets another call can make a handle name another channel than
  its stub's, free a channel that is being copied, or evict a fresh channel in place of the
  hopeless one. `SafeApart` says that nothing of it happens before such a meeting, `HopelessGone`
  that a hopeless channel goes even then.
* Under `const`, `ChannelsAlive` is stated for at most one replacement: with two (three
  channels created) the race on `channel_` frees a channel that the pool or a stub still has.
* A channel whose successes all took less than a millisecond makes the evaluation of `spool`
  divide by zero (channel_policy.cc:282): the state `crashed` of `SmartRoundRobinPool`.
* A hopeless channel's entry stays in the map of `spool`, and once its address is used again the
  evaluation evicts the new channel on the dead one's scores (channel_policy.cc:251, 303): the
  exception in `EvictsOnlySlow`.
* The end of the measured interval is that of the operation recorded last, not the latest
  (runner_watcher.cc:92): a long operation recorded before a short one shortens the interval, and
  the throughput printed is too high. `MeasuredSpan` says by how much at most, and when not.
* `StopGrpcAdmin` right after the start calls `Shutdown()` on a null pointer
  (grpc_admin.cc:50), and so does `Wait()` if the admin's port is taken (grpc_admin.cc:41). A
  `return 1` of `main()` after the admin thread has started (main.cc:66, 74) destroys a joinable
  thread, which terminates the process. `EndsWell` lists these ends beside a clean one: `Ends` says that
  the process comes to one of them, `EndsInNoOtherWay` that it comes to no other.
* "Sorted by throughput" (print_result.cc:51, 155) sorts by elapsed time, which is the same only
  for operations of one size. The labels p01, p50 and p99 of the peers (print_result.cc:167)
  stand before the first, third and fifth percentile: those of 0.1, 10 and 90 per cent.
* `run_ctest` and `run_mtest` return 0, which `Run()` returns as `false`: the diagnostic modes
  end with "Runner failed to complete a run." (grpc_runner.cc:124 and 127).
* A random read of `GcscppRunner` never ends if the object is shorter than the chunk
  (gcscpp_runner.cc:198), and all its operations are recorded as OK (gcscpp_runner.cc:149, 209, 260).
* With `--chunk_size 0` the write loops of both runners do not advance (grpc_runner.cc:459):
  the exception in `CallEnds`.

The sample and the dummy server:

* Once a channel of the sample was unhealthy, its reset count wraps below zero when the other
  handles on it finish: it is no candidate until it wraps back, and the pool may grow past
  its limit. `PoolBoundedWhileHealthy` says the limit holds until then. With `--channels 0` the pool
  has one channel (sample/channel_manager.cc:63).
* A `ChannelHandle` that is moved from still has its manager, and its destructor would count down
  a second time (channel_manager.h:48); the sample never moves one.
* A name with the unit KB or MB is not found: the units known are k and kib and their like,
  in any case (gcs_util.cc:43). So is the example of the comment, "100KB" (gcs_util.cc:56), and the object
  the sample asks for unless told otherwise, "1MB.bin" (sample/main.cc:39).
* A size that overflows becomes that of another object (gcs_util.cc:69): 8388608T is not
  found, 16777216T is empty. `TransferSpec` takes such sizes as they come out.
* `read_offset` is not looked at: the bytes of a read from an offset are those from the start.
* If the port is taken, the server says that it is listening and then waits on a null pointer
  (dummy_server/main.cc:192 to 195).
* `StartResumableWrite` is not implemented: a resumable write to this server never starts.

## 6. Not modelled, and why

Channel creation in the benchmark, credentials, telemetry and random data keep no state and decide
no control flow. `percall` keeps no state. `ObjectResolver` is two modulo operations on its
arguments, without state: which object a job reads is not visible to retries, queue or pools. The percentiles of peers repeat those of operations on
sets that are never empty. The texts of reports and logs, the analysis scripts,
the Firestore examples and the build are input and output. In what is modelled: the content of
chunks, bytes and times (except where a score, an index or a transfer needs them), headers, peers,
and object names outside the dummy server.

## 7. Plan

Done: `WorkQueue`, `Runner` with both clients, the four pools, `ChannelManager`, `DummyServer`,
`BenchmarkMain`; proofs of every safety invariant, action property and refinement of all of them.

Left: `ObjectResolver.Resolve` as an operator with its bounds; the peers' percentiles, which are
indexed as those of the operations are; several calls to the dummy server at once, which would
matter only if its handlers came to share state.

The checked properties are chosen so that each says something no other does; a new one
takes the place of one that a theorem or a stronger property has made redundant.
