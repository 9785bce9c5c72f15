# A TLA+ model of Chimbuko's performance analysis

Chimbuko analyses the trace of an MPI program while the program runs. Next to
every rank of the program runs an *AD* (anomaly detection) process, which reads
the trace that the TAU tracer streams through ADIOS2, rebuilds the function
calls, judges their run times by a statistical model and reports the anomalies.
A *parameter server* merges the models and the statistics of all AD processes.
A *provenance database* keeps the anomalies, and a visualisation module, which
is another repository's, shows them.

This directory specifies that system from the trace to the database: who may
free a call of the call list, which call a communication event belongs to, what
a rank may rely on when it talks to the server, when the server may stop, what a
model contains that is merged while it changes, when a rank's run ends and what
it has reported by then, how statistics are merged for display and for the
database, and what the outlier algorithms make of the values.

File names below are relative to `src/` in the repository; `pa` abbreviates
`modules/performance_analysis`. Line by line, `PROJECT.json` says which lines
each definition stands for (`map`).

- [1. The system](#1-the-system)
- [2. The modules](#2-the-modules)
- [3. The runs](#3-the-runs)
- [4. What is proved](#4-what-is-proved)
- [5. Where code and documentation disagree](#5-where-code-and-documentation-disagree)
- [6. What is not modelled](#6-what-is-not-modelled)
- [7. Plan](#7-plan)

## 1. The system

### 1.1 Components

**AD process** (`app/driver.cpp`, one per rank of the program)

| Component | State | Operations | What makes it correct |
|---|---|---|---|
| Driver: `driver.cpp`, `ChimbukoBase`, `Chimbuko` (`src/core/chimbuko.cpp`, `src/pa/chimbuko.cpp`) | step counters, frequencies of analysis, synchronisation and sending, buffers of provenance and statistics | `run`, `runFrame`, `readStep`, `performEndStepAction`, `finalize` | every outlier is reported once; the run ends when the stream has and nothing is left, and then it does end |
| `ADParser` (`src/pa/ad/ADParser.cpp`) | the three tables of the current IO step, function names, step number, stream status | `beginStep`, `update_attributes`, `fetchFuncData`, `fetchCommData`, `fetchCounterData`, `getEvents`, `endStep` | the events come out in an order from which the calls can be rebuilt, and no event is dropped but the malformed ones |
| `ADEvent` (`src/pa/ad/ADEvent.cpp`) | the call list with reference counts, per thread a call stack, a stack of comm events and one of counters, calls that wait for their GPU partner, calls that wait for a label | `addEvent` (`addFunc`, `addComm`, `addCounter`), `checkAndMatchCorrelationID`, `purgeCallList`, `trimCallList`, `clear` | the calls are the program's; an iterator that is kept stays valid; what is no longer needed is freed |
| Outlier detection: `ADOutlier` (`src/core/ad/ADOutlier.cpp`) and its data sets (`ADDataInterface`, `ADExecDataInterface`) | local and global model, count of synchronisations | `run`, `sync_param`, `labelData` | every call gets one label; every value counts once in the model; outliers are the rare values |
| Statistics and provenance (`ADAnomalyProvenance`, `ADLocalFuncStatistics`, `ADNormalEventProvenance`, ...) | the last normal call of each function, normal calls still wanted | functions from the above to records | the records agree with the calls they are about |
| `ADCounter`, `ADMetadataParser`, `ADMonitoring` | counters of the steps since the last analysis, latest values | `addCounter`, `extractCounters`, look-ups | the node state is the latest sample |
| Network client: `ADNetClient` (`src/core/ad/ADNetClient.cpp`) | connection; in `ADThreadNetClient` a queue of actions and a worker thread | `connect_ps`, `disconnect_ps`, `send_and_receive`, `async_send`, `setRecvTimeout`, the destructor | requests are carried out in order, once; no object is used after its end |
| `ADglobalFunctionIndexMap` | a cache of function indices | `lookup` | one name has one index on all ranks |
| Provenance database client (`src/core/provdb/ProvDBclient.cpp`, `ADProvenanceDBclient`) | outstanding asynchronous sends | connection, handshakes, `sendMultipleDataAsync`, `disconnect` | nothing is lost, nobody leaves before its records have arrived |
| `ADio`, `DispatchQueue`, `threadPool`, `mtQueue` | a queue and worker threads | `write`, `dispatch`, `submit`, the destructors | what was queued is carried out once, before the end |

**Parameter server** (`app/pserver.cpp`, one)

| Component | State | Operations | What makes it correct |
|---|---|---|---|
| Network: `ZMQNet` (`src/core/net/zmq_net.cpp`); also `ZMQMENet`, `MPINet`, `LocalNet` | a router with its count of outstanding requests, worker threads, count of clients | `run`, `recvAndSend`, `doWork`, hand shake, disconnection, `stopServer`, `stop`, `finalize` | each request is carried out once and answered to its sender; the server stops when, and only when, it should |
| `PSparamManager` (`src/core/pserver/PSparamManager.cpp`) | parameters of each worker thread, the global model, an updater thread | `updateWorkerModel`, `updateGlobalModel`, `start/stopUpdaterThread`, `restoreGlobalModelJSON` | a global model counts every update once, and does not lose data |
| Global statistics (`GlobalAnomalyStats`, `GlobalCounterStats`, `GlobalAnomalyMetrics`) | sums and recent data, one object per worker thread | adding, `merge_and_flush`, packets, the final profile | recent data are shown once, totals count everything once |
| `PSglobalFunctionIndexMap` | name to index | `lookup`, `deserialize` | no index is given to two names, also after a restart |
| `PSstatSender` (`src/core/pserver/PSstatSender.cpp`) | a thread that sends and sleeps, stop and failure flags | `run_stat_sender`, `stop_stat_sender` | what is received is shown; the thread can be stopped |
| Prune (`src/core/provdb/ProvDBpruneCore.cpp`, `src/pa/provdb`) | the records of a shard, the metrics of those kept | `prune`, `finalize` | no anomaly of the final model is erased; statistics count what is kept |

**Provenance database** (`app/provdb_admin.cpp`, one process per instance, with
`provdb_commit` and `provdb_shutdown`): connected ranks, flags for server and
committer; handshakes and the decision to end. It is correct when it does not
end under a client and ends when all have gone.

**Shared data structures**: `Histogram`, `HistogramVBW` (creation, merging,
reading), `RunStats` (moments, merging): a merge is the union of the data.

**Other programs**: `hpserver`, `pshutdown`, `sstSinker`, simulators and queries.

### 1.2 How they interact

```
 trace --> ADParser --getEvents--> ADEvent <--labels-- ADOutlier (RunStats, Histogram)
              |                      |                    |
         ADMonitoring             provenance /        sync_param
              \_________________  statistics              |
                               \   |      \           ADNetClient
                     ADio, ProvDB client   \__async_send__/|  ZeroMQ: REQ/ROUTER
                               |                           v
                       provdb_admin       ZMQNet router --DEALER/ROUTER-- ZMQNet workers
                        ^       ^                          |
              provdb_commit     |         PSparamManager, global statistics, function index
                                |             ^                     ^
                     final data, prune   updater thread        PSstatSender --> visualisation
```

An AD process has one thread that does the analysis, and as many others as it
has network clients and output queues. Per IO step it parses, adds the events to
`ADEvent`, labels the calls, sends statistics and anomalies and purges the call
list. All parts of the analysis share the call list through iterators. The
server has a router thread (`main`), worker threads that carry out the payloads
of requests, an updater thread and a sender thread, which share the models and
the statistics under mutexes. At its end it sends final statistics to the
database and prunes it with the final model.

### 1.3 What is hard

*Concurrency.* Caller and worker of `ADThreadNetClient` share action objects
whose owner differs from kind to kind; the router of `ZMQNet` reads counters
that the workers write; models are merged without a lock while they change;
statistics are flushed for display while they are added to; destructors of
queues race with their threads.

*Order.* Launch and kernel are traced by different threads and complete in
either order, with purges in between; three tables of one step end at different
times; function rows may be out of order, names may come late; events of equal
time are ordered by kind; asynchronous sends must not be overtaken; the
database's handshakes are not answered.

*Failure.* A client's receive may time out, of which the server is not told; the
server may be stopped by a signal, a time out, a command, or `stop()` while it is
at work; a packet for the visualisation may fail; a rank may throw out of its run.

*Long histories.* Reference counts are raised and lowered many IO steps apart,
along lines of parents that are computed anew each time; calls without a label
are carried from step to step; values move between local and global models;
histograms are merged again and again.

*End.* The destructor of the client, the server, its updater, its sender, the
database's instances and their committers each wait for another thread or
program. Nothing is persisted but the model and the function index that the
server restores at its start.

The hazards are listed one by one, with the line at which each bites and the
properties that watch it, in `PROJECT.json` (`hazards`).

## 2. The modules

| Module | Models | With |
|---|---|---|
| `ADEvent` | the call list: call stacks, partners, reference counts, purge | `ADEventProofs` |
| `ADAnomalyProvenance` | extends `ADEvent`: call stacks, host stacks and windows in the provenance of a call | `MCADEvent`, `ADEventProofs` |
| `ADParser` | from the tables of an IO step to calls with their data events (`ADParser` with the other half of `ADEvent`) | `MCADParser`, `ADParserProofs`; uses `ADMonitoring` |
| `ADMonitoring` | the counters of a rank and its node state | |
| `ADDriver` | the program of the ranks: barriers, frame loop, outlier detection, synchronisation, buffers and sends | `MCADDriver`, `ADDriverProofs` |
| `OutlierModels` | models, synchronisation, scores and labels of SSTD, HBOS and COPOD | `MCOutlierModels`; extends `Histogram`, `RunStats` |
| `Histogram`, `RunStats`, `Rational` | the data structures of the models over exact rational numbers | |
| `ADThreadNetClient` | the client's queue and worker thread | `MCADThreadNetClient`, `ADThreadNetClientProofs`; implements `OrderedRequests` |
| `OrderedRequests` | abstract: requests carried out in order | |
| `ZMQNet` | the server's network with its clients | `MCZMQNet`, `ZMQNetProofs`; implements `RequestReply` |
| `RequestReply` | abstract: one request outstanding, served once, answered to its sender | |
| `PSparamManager` | the server's model | `MCPSparamManager`, `ServerProofs` |
| `PSstatistics` | the server's statistics, their packets, the final data, the function index map | `MCPSstatistics`, `PSstatisticsProofs` |
| `ProvenanceDB` | the database's instances with ranks, server and committers attached, and the prune | `MCProvenanceDB`, `ServerProofs` |
| `TaskQueues` | `DispatchQueue`, `ADio`, `threadPool` with `mtQueue` and futures | `MCTaskQueues`, `TaskQueuesProofs` |

The modules meet at the calls of one component by another. `ADDriver` has, as a
choice, what `ADEvent` and `ADParser` do with an IO step (some calls become
complete) and what `OutlierModels` finds (some are outliers), and of
`PSparamManager` that an update becomes visible later (`Publish`); `ADEvent` has
of the driver that the analysis labels some calls (`Analyze`); `PSstatistics`
begins where `ADDriver`'s sends end; `ProvenanceDB` has records that are found at
any time. A choice that stands for another module's outcome includes every outcome
of that module; that it does is by inspection, not checked.

In every module an operator whose name ends in a suffix after an underscore
(`CanDelete_LabelOnly`, `Take_Newest`) is a wrong form of the definition below
it. It belongs to no specification; with the definition replaced by it, the
property that `PROJECT.json` names for it (`mutants`) is violated, which shows
that the property watches that line.

`map` names for each definition the lines that it stands for. A tuple of
variables, or a set of records, stands for the class whose members the variables
abstract; its lines are those of the declaration.

### 2.1 `ADEvent`

The class is single-threaded and hard all the same. `std::list` iterators to
calls are kept in the call stacks, in `m_callIDMap`, in `m_execDataMap` (calls
offered to the outlier detection), in `m_unmatchedCorrelationID` (calls whose
GPU partner has not come) and in the partner lists, and `purgeCallList` frees
nodes at the end of every IO step. What may be freed is decided by
`ExecData_t::can_delete` from the label and a count of references, which
`stackProtectGC` raises and `stackUnProtectGC` lowers for a call and all its
parents.

| Variable | In the code |
|---|---|
| `live` | keys of `m_callIDMap`, the nodes of `m_callList` |
| `above[c]` | the line of parents of `c`, from its parent to the root |
| `done`, `labelled`, `refs` | `get_exit() != 0`, `get_label() != 0`, `m_references` |
| `carried`, `partners` | correlation IDs among the counters, `m_gpu_correlation_id_partner` |
| `stack`, `execData`, `unmatched`, `locked` | `m_callStack`, `m_execDataMap`, `m_unmatchedCorrelationID`, `m_stackLockedUnlabeled` |
| `op` and the last four | where the one thread is: in a match, or in a purge and at which call |

Calls are numbered in the order of ENTRY, which is also the order of a thread's
list. `Enter` and `Exit` are `addFunc`; `KeepUnmatched`, `MatchPartner` and
`MatchFails` are `checkAndMatchCorrelationID`, one correlation ID per step;
`Analyze` is all that lies between the last event of a step and the purge and
may label any subset of the calls without a label; `PurgeBegin` to `PurgeEnd`
are `purgeCallList` with one call per step, in the code's order.
`TrimCallList`, `Clear` and `AddCall` are public operations that the driver does
not use; `TestAPI` switches them on. The purge is in steps of one call because
what it does with one call depends on what it has done with those before; no
other thread looks in between.

`LaunchFirst` says whether a kernel's EXIT is always handed over after its
launch's. That is what a tracer does that writes the launch's exit when the
launch returns, and what the unit test does; nothing in the code enforces it.
`FreedIntact` says whether freed list nodes still hold the label that they had:
`clearUnlabeled` reads them, which is undefined, and with `FreedIntact = FALSE`
it may find any label.

### 2.2 `ADParser`

One thread's way from tables to calls. The traced program and the tracer are
external: they write a trace of properly nested calls and data events (comm
events, counters, correlation IDs) with non-decreasing times. An `IOStep` takes
what a step hands over, a prefix of each table, not necessarily to the same
time, possibly with two function rows swapped or a row of nonsense among them,
and the names known so far, and does all that the driver does with it:
`fetchFuncData` (drop malformed rows, put in order, drop rows whose name is
unknown), `getEvents` (interweave, with the priorities among equal times and the
edge case of correlation IDs in calls of zero length) and `addEvent` for each
row (call stack, data stacks, what an EXIT claims, exclusive time). The
interweaving loop is a function of the number of iterations, whose value is the
record of the code's local variables; so are the sort by time and the sequence of
`addEvent`s. Two variables are history and decide nothing in the code's part of
the model: `trace` has the rows written, a row's `id` being its place there,
and `prog` the calls that the program made.

The tracer writes first and the steps are cut from the finished trace: a step
hands over only rows that were written before it, so that writing in between
adds no behaviour. `KeepsUp` is an assumption: the tables of comm events and
counters may run ahead of the function table and not behind it. The comment on
`addComm` speaks of events "out of order with the func events on io step
boundaries". Were a data table cut short before the function table, the code
would give the late event to an enclosing call, and `NoneLeftUnclaimed` would
not say anything about it, as it is not on the stack when the call completes;
`ClaimedByInnermost` would be violated.

### 2.3 `ADThreadNetClient`

The calls of the main thread become action objects, numbered in the order in
which they are made, in `queue`. A blocking action is on the caller's stack: it
is in `freed` as soon as the caller has returned (`Return`), which can be any
time after `Notify`. A non-blocking one is on the heap and freed by the worker
(`Finish`), which had to ask before it performed the action whether it would
have to (`doDelete`). `Destruct`, `DestructorCall` and `Join` are the
destructor. `Perform` stands for the network client within; `PerformFails` is a
server that cannot be connected to or an answer that does not come in time, each
of which throws in the worker thread and ends the process.

A caller makes calls as the driver does: it connects only when not connected and
sends only when `use_ps()`; it may disconnect, reconnect, change the timeout and
be destroyed at any time.

`OrderedRequests` is what a rank may rely on: `made` requests, `carried` out in
that order, a blocking one returns when all are, and all of them are in the end.
The refinement mapping (`Requests`) reads `made` from the number of action
objects, `carried` from the history of performed actions, and has the rank
`blocked` while its last action is a blocking one that has not gone out of scope.

### 2.4 `ZMQNet`

Clients (`Connect`, `Request`, `Disconnect`, `Receive`, `GiveUp`), workers
(`Perform`, `Reply`, `ReplyFails`) and the router, whose loop is cut where
another thread's step can make a difference: the check whether to stop, the
poll, each message moved to a client, the count, each message moved to a worker,
the count, the stop socket. `Interrupts` chooses what may happen from outside:
the poll times out, a signal comes, `stop()` is called. ZeroMQ is external:
reliable queues; a DEALER may give a request to any worker. A worker's poll,
receive and action are one step (`Perform`): that its poll or receive fails when
the context ends, or is interrupted, is left out; that its reply fails is not.

The router reads `m_clients`, `m_client_has_connected` and `m_remote_stop_cmd`
without the mutex that the workers write them under. `Check` reads them in one
step. That is enough: it uses them only when `m_n_requests` is 0, no worker is
at work then (`OutstandingExact`), and the workers' writes happen before the
reply that the router has moved.

`RequestReply` says what clients are promised. In the mapping (`Service`) a
request is served once a worker holds its reply or the reply is on its way, and
the number of clients is `m_clients`.

### 2.5 `PSparamManager`

Parameters are additive statistics, so a model is abstracted to how many updates
of each worker it contains. `UpdateWorker` and `Answer` are the two critical
sections of `updateWorkerModel`, with a whole `updateGlobalModel` between them
when updates are forced. `Merge` and `Swap` are `updateGlobalModel`, in which
each thread that merges reads one worker's parameters per step. `Start`,
`EndOfService`, `StopUpdater` and `Join` follow `app/pserver.cpp`. The restored
model is worth `Restored` updates. The workers are idle when the service ends, as
they are when the server stops by itself (`StopsSafely`); after a signal one may
still be at work (section 5, `ZMQNet_graceful`), and its update may be missing
from the final model. That case is left out, here and in `PSstatistics`.

### 2.6 `ADAnomalyProvenance`

What `ADAnomalyProvenance` reads from the call list between analysis and purge:
`CallStack` walks from parent to parent and ends early at one that is not there
any more, `HostStack` is that of the one launch of a kernel, `Window` the
neighbours of a call in its thread's list. What should be there, `Expected`,
comes from the history variables of `ADEvent`, which the purge does not touch.

### 2.7 `ADDriver`

Where a rank is in its program is `pc`: `StartRun` to `Leave` are `driver.cpp`
with its barriers and its `catch` clauses, `ReadStep` is `readStep` with what
parser and event manager deliver as a choice, `Collect` and `Analyse` are
`ADOutlier::run` before and after the answer of the server and the rest of
`runFrame`, `End` is the end of `run` with its forced sends. A value is the call
it belongs to, and a model a tally of calls, saturating at 2, so that "once" and
"more than once" can be told apart and nothing else can. Ranks differ in their
parameters (`Configs`): frequencies, limits of the number of frames, recording
windows, with or without server, with the workaround for just-in-time compiled
functions. An exception may be thrown out of `run` where a configuration allows it.

### 2.8 `ADMonitoring` with `ADParser`

The counters of a step that are not on the watch list go to calls, the others
are collected until the next analysis and become the node state.

### 2.9 `Histogram`, `RunStats`, `OutlierModels`

The algorithms themselves, over exact rational numbers (`Rational`) instead of
double precision. Three effects of rounding that the code deals with on purpose
are kept: the first edge of a histogram is a little below its smallest value
(`ShiftInv`), the range for a fixed number of bins a little wider than the
values (`SlackInv`), and a step that is too small for the arithmetic is no step
(`MinStepInv`). Scott's rule has a cube root: its width is rounded to halves.
Scores are logarithms: they are integers in units of 2^-10 bits of probabilities
rounded up to multiples of 2^-12, computed bit by bit (`Log2`). Creation of a
histogram, the merge by bins of variable width (`HistogramVBW::import`, `split`,
extraction of the counts in the new bins with their rounding), its fall-backs
and its fatal errors, cumulative distribution, negation and skewness are modelled,
and of `RunStats` `push`, merging and the moments.

`OutlierModels` lets ranks run the algorithm of a configuration on small batches,
with and without a server, and keeps, as history, which values each model is made
of. `last` is what the last call of `run` did: batch, labels, merges.
`m_use_global_threshold` is true, as everywhere in the programs.

### 2.10 `PSstatistics`

Workers add the parts of what a rank sends in the order of the payload, each
under its lock (`Sections`); the sender merges the workers' objects one after the
other (`Merges`), flushing the parts that are shown only once (`Flushed`), then
sends (`Send`) or fails (`SendFails`). `ServiceEnds` to `SendFinal` are `main`
after `net.run()`. `fmap`, `nextIdx` and `trained` are the function index map
and the indices of the models, which a restart restores.

### 2.11 `ProvenanceDB`

Calls without an answer (hello and goodbye) are in `chan`, records under way are
`"flight"` in `db`. `EndInstance` is the loop of `provdb_admin`'s `main`,
`CommitterChecks` that of `provdb_commit`. The parameter server's end is
`ServiceEnds`, which writes the statistics that the ranks reported, `Prune`, and
`PSDisconnects`, which writes those of the prune. The prune goes over shards and,
in each, over the two collections: `LoadShard` reads what is there, `EraseRecords`
and `AmendRecords` deal with one function at a time, the latter counting each
anomaly it amends in `regen`, which lasts over all shards, and
`NextCollection` goes on; records may arrive at any time in between. Statistics are bags of records, so that one counted twice,
for another function or not at all can be told. `PruneFails` is a call to an
instance that has ended. How shards are
divided over instances is `ProvDBsetup`. Two assumptions are stated in the
module: that ranks leave after the barrier that all have reached, so that nobody
is still to connect, and that handshakes have been carried out by then
(`Attached`), which nothing in the code makes sure of but the length of a run.

### 2.12 `TaskQueues`

The three classes differ in where they look at their flags, and `kind` says which
one a behaviour is of. A critical section is one step; unlocking and notifying
are two where they are two in the code. Waiting threads are woken by a
notification or spuriously. `TaskThrows` is a task of a `DispatchQueue` that throws
in the thread, where nothing catches it; the tasks of a `threadPool` put
what they throw into their promise. `Broken` has both ends of a promise that is
broken: `get` throws to the caller, the destructor of the future ends the process.

## 3. The runs

| Run | Instance | States | Shows |
|---|---|---|---|
| `ADEvent_launch` | a CPU and a GPU thread, 2 correlation IDs, 3 calls with up to 2 IDs each, no window, `LaunchFirst` | 284 897 | reference counts exact, no dangling iterator, partners found, provenance complete, nothing freed too early, everything freed in the end |
| `ADEvent_anyorder` | the same with a window of one call, any order of completion, and the unused operations | 445 228 | whatever happens, a freed call lay outside the window |
| `ADParser_steps` | 2 functions, one of them named late, 5 rows with up to 2 data events, times 0..2, 2 steps | 1 150 933 | the calls, their parents and exclusive times are the program's; every data event is in one place, and the right one; the node state is the latest |
| `ADDriver_frames` | 2 ranks, up to 3 calls and 2 functions, 8 configurations | 26 440 | models made of exactly the values; every outlier reported once; a normal execution for every anomaly; every rank exits but where another failed |
| `OutlierModels_merges` | 2 ranks, with and without a server, 3 calls of `run` on batches of up to 2 values, each algorithm | 13 664 | no value is lost or counted twice; counts stay in their bins; outliers are the rare values; moments exact |
| `ADThreadNetClient_calls` | 5 calls and the destructor's | 32 039 | no use after destruction, nothing leaked; implements `OrderedRequests` with its fairness; the timeout asked for is in force; the destructor ends |
| `ZMQNet_service` | 2 clients, one of which may give up; 2 workers; 2 messages per cycle; 1 request per connection; time out, signal, stop | 274 852 | implements `RequestReply`, the count of outstanding requests is exact, nobody is cut off, every request is answered, the server stops by itself |
| `PSparamManager_merges` | 2 workers, 2 updates each, a restored model worth 1, with and without forced updates | 77 792 | no update counts twice, the model does not regress, every update is published, the updater can be stopped |
| `PSstatistics_packets` | 2 workers, data of 2 ranks, one of them with anomalies, packets that fail, with and without a restored index map | 184 132 | recent data shown once, totals match; final data complete; no index given twice; what is received is shown |
| `ProvenanceDB_life` | 2 ranks and 4 records of 2 functions on 1 or 2 shards and instances, with and without prune and automatic shutdown, also the prune over 2 instances | 451 786 | no connected client is cut off, and the prune at most by instances other than the first; records arrive; the statistics count what is kept; everything ends but what waits for a prune that failed |
| `TaskQueues_tasks` | 1 or 2 threads, 4 tasks, each of the three classes | 25 008 | each task once, in order with one thread, all before the destructor returns; every call returns |
| `ProvenanceDB_prune` | the setup of two instances of `ProvenanceDB_life` | - | ends in the violation of `PruneFindsShards`, see section 5 |

### 3.1 The properties

Each is stated in words above its definition. A property of a run is often the
conjunction of named parts that are about one thing. The ones that carry most:

- `GarbageCollectorSafe`: `RefCountExact`, the count of each call is the number
  of protections in force that cover it, where the protections are read off
  `m_unmatchedCorrelationID` and `m_stackLockedUnlabeled`; it relates a count to
  lines of parents that were walked at another time. `NothingDangling` and
  `UnmatchedLineAlive`: what is dereferenced without a look at `m_callIDMap` is
  there. With `FreedOnlyWhenUnneeded` and `Reclaimed` a node is freed if and only
  if nothing needs it.
- `PartnersMatch`: partners are exactly the pairs that share a correlation ID.
- `ProvenanceComplete`: the record of an anomaly names all its enclosing calls
  and its launch's, however many purges there were since they began.
- `ReconstructionExact`, `DataWhereItBelongs`, `NoneLeftUnclaimed`: the
  reconstruction against the traced program, whatever the cuts, the disorder and
  the late names.
- `ModelsExact`: the values in local models, in the server and on their way are
  those that were offered, and a model belongs to one function. `OutliersReportedOnce`
  relates labels, given in any frame, to what database and server have when `run`
  returns. `Exits` is the termination of all ranks.
- `EveryValueCounted`, `DistributionsKept`: merged histograms count what was put
  in, and at each edge their distribution lies between the two that the inputs
  allow. `OutliersAreRare` states of HBOS and COPOD what their labels mean.
- `CarriesOutInOrder`, `NothingForgotten`, `ServesRequests`: refinements.
- `StopsSafely`: what the server's decision to stop rests on and that it is right.
- `NothingInvented`, `GlobalNeverRegresses`: the model between unlocked merges.
- `PacketsExact`, `FinalDataExact`: flushes, failing packets and totals, one
  through the sender and one through `main`.
- `NobodyCutOff`, `RecordsArrive`, `AllEnd`: the unanswered handshakes.
  `NobodyCutOff` is about the clients that say hello, and about the prune as far
  as these protect it: it cannot fail at the shards of instance 0. That it
  fails at no others is `PruneFindsShards`, which does not hold (section 5), and
  `AllEnd` says who waits for ever then, and that nobody else does.
- `StatisticsOfKept`: what is accumulated over shards, collections and functions,
  while records are written, against what the database has at the end.
- `TasksKept`, `CallsReturn`: no task and no wake-up lost in a destructor.

### 3.2 Bounds

*`ADEvent`.* Three calls are the smallest number with a line of parents on one
side of a match: a parent with a launch, and the kernel. They also make a call
that shares its parent with another, a launch of two kernels, a kernel that
waits, a call locked for lack of a label under another one, and all pairs of
those. With two correlation IDs a call may have two partners, which is where
`stackProtectGC` treats one partner and several differently. The window is 0 in
the first run, so that all is freed that can be, and 1 in the second, where
three calls put some inside and some outside of it.

*`ADParser`.* Five rows make two nested calls or two after another, with a data
event; times 0, 1, 2 make any of the rows coincide or differ; two steps make
every row the last before a cut or the first after it. Times begin at 0, and between rows time
advances by at most one, since only its order matters (exclusive times of 2 still
occur, from two rows of 1). The function table of a step has at most one pair of
rows swapped and one malformed row; disorder of comm events and counters is
only distinguished from order, as it ends the process.

*`ADDriver`.* Two ranks of the same program are enough to share a model, to be
staggered, and to wait for each other; a configuration has the calls that its
question needs (the same function on two ranks, two functions, two threads, the
first call of a function) and a period after which step counters repeat. What a
count of 2 stands for, "more than once", no test of the code tells from more.

*`OutlierModels`, `Histogram`.* Batches of no, one and two values, equal, next to
each other and apart, three calls of `run` on two ranks: the third merges what
is itself merged. At most 3 bins for HBOS, so that the bound is reached, and 6
for a merge. The small shifts are scaled from 1e-6, 1e-3 and 1e-12 to 1/10, 1/10
and 1/20, so that their effects are not below a count (`ShiftInv`, `SlackInv`,
`DeltaInv`, `MinStepInv`, `TinyInv`).

*`ADThreadNetClient`.* Five calls reach connect, disconnect and reconnect with a
changed timeout in between, and up to five actions in the queue at once.

*`ZMQNet`.* Two clients and two workers are the smallest number in which answers
can be swapped, handled out of order, and in which one client leaves when
another comes. `MaxPollMsg` 2 is reached in `recvAndSend` by the two clients'
messages; the loop's other exit, an empty socket, too.

*`PSparamManager`.* Two workers, and with forced updates four threads that merge
at the same time; two updates each are what a slower merge needs to lose one.

*`PSstatistics`.* Two workers, so that a packet may be made when one has added
half of a datum; two data of one function from two ranks, which share the
function's totals and nothing else; counts saturate at 2.

*`ProvenanceDB`.* Two ranks, so that one may leave before the other comes, and
with two shards what is accumulated in one meets the other. Of four records, two of
each rank, two anomalies of one function stay, one in each shard; the one anomaly of
the other function does not, so that its statistics become blank; a normal execution
stays and is not counted. One and two instances, the latter with and without prune.

*`TaskQueues`.* Four tasks for two threads: one each, and two in the queue when
the destructor comes.

`CHECK_DEADLOCK FALSE` is in configurations whose behaviours end: the calls or
rows are used up, the programs have ended. In `ADEvent_launch` deadlock is
checked, as the IO steps go on for ever.

### 3.3 Fairness

- `ADEvent`: weak fairness of the match, the analysis and the purge. The driver
  runs all three in each step (`runFrame`, `performEndStepAction`); that further
  events come is not assumed, nor that the analysis ever labels a call.
- `ADDriver`: weak fairness of each rank's thread, of the server's updater and of
  the barriers. That the stream delivers is not assumed, nor that it ends: `Exits`
  is about ranks whose stream has.
- `ADThreadNetClient`: weak fairness of the main thread's steps within a call
  and of the worker's steps. Both threads are scheduled; `notify` wakes
  the waiting thread. That the rank makes a call is not assumed.
- `ZMQNet`: weak fairness of the router, of each worker, and of clients'
  connecting, disconnecting and receiving, since every rank comes and goes.
  Nothing is assumed of time outs, signals, stops, requests and clients that
  give up.
- `PSparamManager`: weak fairness of each thread's steps; that updates come, or
  that the service ends, is not assumed.
- `PSstatistics`: weak fairness of a worker within a payload, of the sender and of
  `main` once the service has ended. That ranks send, that a packet succeeds and
  that the service ends is not assumed.
- `ProvenanceDB`: weak fairness of every program, of its calls' arrival and of
  stores: remote calls are taken to be reliable, as Mercury's are.
- `TaskQueues`: weak fairness of each thread that can go on, and of the caller
  within a call; that tasks come is not assumed.

`ADParser` and `OutlierModels` have safety properties only.

## 4. What is proved

The theorems hold for every value of the constants that satisfies the module's
assumption (`ADEventAssumption`, ...), and for behaviours of any length: bounds
like `MaxCalls` are constants like the others. The assumptions say of the
constants what the code gives: numbers are natural, the correlation IDs, clients,
workers and calls of a stream are finitely many, every setup of the database has
ranks, shards and instances (`SetupsAssumption`), a restored index map is one that
a server wrote, the recording window's ends are steps or -1. Where a theorem needs
more, the more is a hypothesis in its statement.

Each rests on an inductive invariant, which is named here.

**`ADEventProofs`** (`ADEvent` with any threads, correlation IDs, window and
number of events)

- `TypeCorrect`. Inductive with one addition: during a match `current` is a call.
- `StacksAreOpenLines`: `StackIsOpenLine`. The invariant `StackInv` adds that
  calls beyond `nCalls` are not in the list and not done, so that a new call is
  larger than all before and not yet anyone's parent. The steps that matter are
  `Enter`, where the new call's line is the whole stack, `Exit`, where the top
  of the stack is shown to be the largest open call (`TopIsLast`,
  `PopElements`), and the frees, which take only complete calls (`StackFree`).
- `UnlabelledNeverLost`: `UnlabelledAnalyzedAgain`, also when freed memory has
  been overwritten.
- `PartnersAreMatched`: `PartnersMatch`, in either order of launch and kernel,
  without the operations of the tests (`~TestAPI`), which change the list under
  the matching. `CarryInv` says who may carry a correlation ID and which IDs of
  the current call are still to be examined, `PairInv` that an ID waits exactly
  when one call has shown it, and that partners are those who share an ID already
  examined; neither is inductive without the other.
- `CountsExact`, `CollectorSafe`: `RefCountExact` with `UnmatchedLineAlive`, and
  `GarbageCollectorSafe`, if kernels complete after their launches
  (`LaunchFirst`). `LaunchInv` is what that order gives: a kernel finds its launch
  waiting, so that only launches wait. `OrderInv` and `MatchInv` say that parents
  come before children and that the call being matched has its line, unlocked.
  A count is the cardinality of a set of lines; each protection adds one line to
  it and each release takes the same one away. `CollectorSafe` alone needs that
  freed memory is intact (`FreedIntact`), because `m_execDataMap` keeps iterators
  over a purge (section 5).
- `FreedUnneeded`: `FreedOnlyWhenUnneeded`. `ManagerGoesOn`: `NeverTerminates`,
  that is no count is released below 0 and no waiting launch has gone, so that
  neither of the two fatal errors is raised; no run that passes checks it, as the
  run without the hypothesis shows the error.
- `WindowIsKept`: `WindowKept`, with the operations of the tests. The calls a trim
  takes are the complement of the `WindowSize` most recent; that these exist is an
  induction over the finite subsets of the list (`MostRecent`).
- `ProvenanceIsComplete`: `ProvenanceComplete` of `ADAnomalyProvenance`, under the
  hypotheses of `CollectorSafe`. `ProvInv` says that the calls completed since the
  last purge still have their lines, and that a purge visits every call it may
  free; `LenInv` that a kernel has one partner for each ID it has shown.

**`ADThreadNetClientProofs`** (any number of calls)

- `TypeCorrect`, `NoUseAfterDestruction`, `WorkerAlwaysThere`, `EverythingDone`,
  and `ImplementsOrderedRequests`, the refinement's safety part. All rest on one
  inductive invariant, `IInv`, of four parts beside the types. `Placed`: the
  actions are those performed, then the one in hand, then the queue, in the
  order in which they were made, so that each is in one place. `Destroyed`:
  which objects have been freed, by whom, at each point of the two loops. `Lifetimes`: what main
  thread and worker are doing fits together (nothing follows a blocking action
  until it returns, nothing follows the stop action). `CallsBound`: the
  destructor adds at most two. `RequestsAreSafe` puts the three safety properties
  of the run together.
  The refinement follows step by step: `Enqueue` is `Make`, `Perform` is
  `CarryOut`, `Return` is `Return`, `PerformFails` is `Fail`, all others stutter.
- `SocketHasTimeout`: `TimeoutInForce`. `Timeouts` says which call's timeout the
  client and its socket have, by position: the last of those performed, and the
  last before the last `connect_ps`.

**`ZMQNetProofs`** (any number of clients, workers and requests)

- `TypeCorrect`, `RequestsCounted` (`OutstandingExact`), `FinishesLast`
  (`NobodyCutOff`), and both as `StopsAtTheRightTime` (`StopsSafely`). The
  invariant `IInv` (theorem `EachInOnePlace`) says where requests are, and reads
  the counters off that: a client's request is in one of five places (`OnePlace`)
  and is what the client waits for (`Asking`); `m_n_requests` is the number of
  those between the router's sockets, less or more what the current poll cycle has
  moved and not yet counted, and `m_clients` is the number of clients between a
  handshake and a disconnection that were carried out (`Counts`); when the server
  has stopped by itself both are 0 and stay so (`Stopped`).
- `RequestsServedOnce`: the safety part of `ServesRequests`. A request that is
  carried out and not answered yet (`Carried`) is what `served` stands for: a
  client's `Asks` is `Ask`, a worker's `Perform` is `Serve`, the client's
  `Receive` is `Answer`, and the moves between sockets and threads stutter.

**`ServerProofs`**, on `PSparamManager` (any number of workers)

- `TypeCorrect`.
- `ModelsOnlyOfReceived`: `NothingInvented`, for any number of threads that
  merge at the same time. Inductive with what holds before the start (`Bounded`).
- `OneMergerNeverRegresses`: `GlobalNeverRegresses`. The invariant
  `OnlyUpdaterMerges` says that while forced updates are off and the service
  runs, no worker merges and the updater's unfinished model is at least the
  published one for each worker that it has already read.

**`PSstatisticsProofs`** (any number of workers, any payloads and restored maps)

- `TypeCorrect`, and `EachWhereItBelongs`, the invariant `IInv`: each datum is with
  one worker at most (`Distinct`); the parts of it that are not flushed stay with
  that worker (`Kept`); those that are flushed are with the worker, in the packet,
  or shown, and in one place only unless a packet failed (`Once`); what is new
  somewhere is in the totals there, too (`Covered`), for which a worker must add to
  totals before it adds to what is new (`Ahead`).
- `PacketsRight`: `PacketsExact`. `FinalDataRight`: `FinalDataExact`, with what the
  index map adds (`Indexed`) and that nobody adds once the network has ended (`Over`).

**`ServerProofs`**, on `ProvenanceDB` (any number of ranks, shards, instances and
records)

- `ConnectionsLast`: `NobodyCutOff`. An instance ends when nobody is registered,
  and a client is registered only when its greeting has arrived. `Registered` says
  where each writer's greeting is; `Order` that once a rank has left the
  server, or an instance was told to stop, no greeting is still to come: the
  barrier of the ranks and the order of the disconnections give that.
  `ConnectionsLast` needs them also for the prune: while the parameter server has
  not said goodbye instance 0 is up, whatever the others do.
- `SentRecordsArrive`: `RecordsArrive`.
- `PrunedStatistics`: `StatisticsOfKept`. `InHand` says what `loaded` and `update`
  hold: records of the current shard and collection that nothing has been decided
  of, and that those that are kept are of collections read before, so that none
  is read again. `Counts` says that, at every point of the prune, the accumulated
  statistics are those of the anomalies kept so far. `Entries` says that whatever is
  or comes to the database after the end of the service is of a function with
  statistics to be replaced: ranks find nothing any more.

**`TaskQueuesProofs`** (any number of threads and tasks)

- `TypeCorrect`, `EveryTaskOnce` (`NothingDropped`), `PromisesOfTakenTasksKept`
  (`BrokenOnlyInQueue`), and both together, `TasksAreKept` (`TasksKept`). The
  inductive invariant `IInv` has two parts beside the types. `Placed`: each task
  handed over is in the queue, or in the hands of one running thread, or done,
  and in one of these only. `Ends`: a thread that has ended saw the flag set and,
  unless the class is `threadPool`, an empty queue; the caller's stages in the
  destructor fit the flags; after the join all threads have ended. Neither is
  inductive without the other: a thread may only end with an empty queue because
  nothing is pushed any more, and a task is only done before the destructor
  returns because whoever could have left it has not ended.
- `OneThreadKeepsOrder`: `InOrder`, from `Ordered`: with one thread, what is done,
  in hand and in the queue are the tasks in order.

**`ADDriverProofs`** (any ranks, streams and configurations)

- `TypeCorrect`: no tally exceeds its bound, and the counters that are taken modulo
  a frequency remain natural numbers, also for a recording window without ends.
- `ModelsRight`: `ModelsExact`. `CountInv` relates, for each call, what its rank
  holds and what it handed over to how often the call was offered; between request
  and answer the server already has what the rank still holds, and the relation
  is another (`CountRight`). `IndexInv` says that the server's map numbers the
  names it knows without gaps and that each rank's map is a part of it; that
  the server always has a free index for a new name is `LookupIs`.
- `OutliersAreReported`: `OutliersReportedOnce`. `ReportRight` says of each call
  what buffer and destination have of it, together, for its label: an anomaly
  record and a count once if it is an outlier, none before; a profile entry as soon
  as it is labelled, or, between request and answer, will be; the data sets are
  unlabelled calls of the current frame; and when `run` has returned the
  buffers have nothing of it. The sum over buffer and destination is what a
  send preserves (`MovedKeeps`), whenever it is due.
- `NormalsFollow`: `NormalForEveryAnomaly`, which is inductive once what is noted is
  taken as buffered or sent (`NormalInv`); a request that is dropped was
  served in the same frame.

**`ADParserProofs`** (any functions and late names, any numbers of rows, times and
steps)

The provers cannot use an induction theorem that takes an operator as a parameter.
What the loops compute for every input is proved with sets instead: `UpTo` and
`LeastOne` say that a set of numbers that has 0, and with each number the next one
up to `n`, has all up to `n`, which follows from the natural numbers being well
founded. The loops are functions of the number of their iterations, so that
"holds after `i` iterations" is such a set.

- `TracesAndMonitor`. `TraceInv`: each table is what is left of the trace's rows
  of its kind, in their order. `ProgInv`: there are two functions `E` and `X` that
  say where in the trace each call of the program begins and ends, and calls are
  nested by these places; by times alone they are not, as many rows may have one
  time. `MonitorInv`: the counters collected are the most recent of the watched
  ones handed over, without gaps, so that the last sample of a kind among them is
  the last of all. `NodeStateLatest` (`NodeStateIsLatest`) follows.
- `FetchedIs` says that the function table after `fetchFuncData` is the trace's own
  order of it again, without unknown functions, whichever disorder it had
  (`ByTimeIs`: the sort is stable). `InterwovenIs` says what `getEvents` makes of
  three tables: all their rows, each table in its order, and between two tables
  the order `Woven`: by time, and of one time no EXIT before a data event.
- `NeverClaims`: the edge case of `getEvents` (ENTRY, correlation ID and EXIT of one
  time) never arises, for any tables: among equal times a counter has always been
  taken before the EXIT can be next. The configuration `ADParser_corrid` shows
  that what is promised there is not kept (section 5); this says that the code
  written for it is never reached.
- `CallsOfTrace`, `CallsReconstructed` (`ReconstructionExact`). `CallInv` relates,
  after any number of rows, `m_callList` to the program: each call in the list is one that
  the program began by then, of a function that is known, and they are in its order;
  each is open until the row of its EXIT; its parent is the innermost of those around it
  that are in the list; its exclusive time is its duration less its children's, or,
  while open, minus what its completed children took. The part without which it is
  not inductive is `Missed`: if a call is not in the list because its name came
  late, no earlier call of that function is, so that an EXIT whose ENTRY was
  dropped meets a call stack whose top is of another function, and is refused.
- `DataOfTrace`, `DataPlaced` (`DataWhereItBelongs`), `AllClaimed`
  (`NoneLeftUnclaimed`). `KeptUp`: what is left of the data tables is not earlier
  than any function event that was handed over, which is `KeepsUp` over all steps. `Placed`: of each kind, every event handed
  over is on its stack or with one call, once, the stack being in the order of
  time. `Innermost`: no completed call has within its times an event that
  belongs to a call around it, and none on the stack could have been taken by
  a completed call. `Claims` is what one `addEvent` of an EXIT does to these.
- `TypesAndStack`: `TypeOK`, whose part about the call stack (the line of open
  calls, each the parent of the next) follows from `CallInv`.

Type correctness is proved in all eight modules (of `ProvenanceDB` as the part
`Types` of `IInv`), and is for that reason not among the properties of the runs.

*Only model-checked.* All liveness properties (`Reclaimed`, `NothingForgotten`,
`ServesAndEnds`, `PublishesAndStops`, `Exits`, `AllShown`, `AllEnd`, `CallsReturn`)
and the fairness parts of the refinements: TLAPS proves neither `ENABLED` nor
fairness. Of the safety properties, those of `OutlierModels` with `Histogram` and
`RunStats` (`EveryValueCounted`, `DistributionsKept`, `OutliersAreRare`,
`MomentsExact`): their definitions are recursive operators over exact fractions,
and what they say of every input is non-linear arithmetic over sums of any
length, which the SMT solver does not decide. Every safety property that a
passing run checks of another module is a theorem.

## 5. Where code and documentation disagree

The run `ProvenanceDB_prune` and nine further configurations show that the code
does not do what a comment, a document or a test says of it. TLC ends each of
them (`tlc -config X.cfg MCModule`, the module being the part before the
underscore) with the violation of the one property that it has.

| Configuration | What happens | Against |
|---|---|---|
| `ADParser_corrid` | Since counters precede an EXIT of the same time (ADParser.cpp:712-713), the edge case that would stop at one correlation ID is unreachable: a call of zero length takes all of its time (`OneCorrelationID`). | ADParser.cpp:729-730, and the unit test at ADParser.cpp:1005 |
| `ADEvent_kernelfirst` | A kernel whose EXIT comes before its launch's waits with its own line protected. At the match the partner is set first, and then the waiting line is released *with* the line of the launch, which was never protected: the count of the launch is 0 and `deregister_reference` (ExecData.cpp:44) ends the process (`NeverTerminates`). | ADEvent.cpp:131; the unit test (ADEvent.cpp:788-848) completes the launch first in all its cases |
| `ADEvent_unlabelled` | The purge visits parents before children. A parent with a label is freed, then its child without one locks "the stack", of which the parent is no longer part (`UnlabelledLineAlive`). | ADEvent.cpp:472 |
| `ADEvent_freed` | `clearUnlabeled` (ADEvent.cpp:383-391) runs after the purge has freed nodes and reads labels through iterators to them; what it reads of memory that was reused may be 0 and keeps the iterator (`LabelledCleared`). | ADEvent.hpp:418 |
| `ZMQNet_graceful` | After a signal, `finalize` (zmq_net.cpp:237) ends the context while a worker carries out a request; its answer cannot be sent and the error is thrown in a thread where nothing catches it (`ShutsDownGracefully`). | pserver.cpp:221 |
| `PSparamManager_forced` | With forced updates two threads merge at a time, and the one that began first may swap last: a rank gets a model without its own update (`AnswerHasOwnUpdate`). | PSparamManager.hpp:44, 79 |
| `ProvenanceDB_prune` | The client with which the parameter server prunes a shard says no hello (PSshardProvenanceDBclient.cpp:11-19). With several instances, one other than instance 0 is left by its last rank before the prune, ends by itself (provdb_admin.cpp:466), and the prune of its shards fails outside the `try` of `main` (pserver.cpp:288): later shards are not pruned, the final statistics are not written again, and instance 0 and its committer wait for ever for a goodbye. Automatic shutdown and prune are both the default (`PruneFindsShards`). | PSshardProvenanceDBclient.hpp:12 |
| `ProvenanceDB_uneven` | `getNshardsInstance` takes the remainder off the last instance only. 5 shards on 4 instances are 2 per instance: instance 2 creates shards 4 and 5, whose provider index is a fatal error (setup.hpp:104), and instance 3 has -1 shards, which provdb_admin.cpp:230 does not catch (`ShardsServed`). | setup.hpp:16, provdb_admin.cpp:231 |
| `ProvenanceDB_late` | A rank leaves the parameter server (chimbuko.cpp:228) before its database client waits for its sends; the server may prune before the last records arrive, and these stay as the older model judged them (`PrunedAll`). | pserver.cpp:280, "Post-prune the provenance database" |
| `OutlierModels_union` | `merge_histograms` puts the first edge of the merged histogram a fraction of *its* bin width below the smallest value (Histogram.cpp:238), an input's is the same fraction of *the input's* width below it. When the merged bins are narrower (Scott's rule, COPOD) the part of the input's first bin below the new edge belongs to no range: with enough counts in that bin (the order of 1e6; the configuration scales 1e-6 to 1/5) whole counts are lost (`MergedIsUnion`). The run goes on, with at most a recoverable error in the log (Histogram.cpp:180); the check of the totals (Histogram.cpp:190) cannot be true of a loss. | Histogram.hpp:172 |

Things met on the way that no configuration is about:

*Event manager and parser.* With kernels first, the release of a line that was
not protected by this match may also take away a protection that belongs to
*another* one, instead of ending the process. `MatchFails`' other cause, a
waiting partner that has been freed, cannot happen (`UnmatchedLineAlive`). The
window of a long-running call lacks the neighbours that were purged before it
completed. "Most recent (end of list)" (ADMonitoring.cpp:55) holds of counters
that are in the order of time across threads.

*Driver.* `readStep` ends the run when no completed call is left, although the
stream may go on (src/pa/chimbuko.cpp:475); the model has it, so that what comes
after is no part of the run. A call whose function has too few data points keeps
no label, is offered again, and its value is pushed again
(ADOutlier.cpp:245, 286): it gets its label in the end *because* it counts more
than once. The profile of a function counts a call that stays unlabelled once in
each frame (`OutliersReportedOnce` claims "at least once" of it for that reason).
A rank that throws out of `run` under MPI leaves the others at the post-run
barrier (driver.cpp:76, 115).

*Server.* A handshake whose client has timed out is still carried out: the client
counts as connected for ever and the server never stops by itself.
A SIGTERM that arrives while the router is not in `zmq_poll` is lost: the
handler (pserver.cpp:114) only logs. When the server stops for another reason,
requests that have reached its port and not its workers are never answered. The
final model that `main` makes before it stops the updater may be replaced by one
that the updater began earlier; `GlobalNeverRegresses` ends with the service for
that reason. The sender merges and flushes before it knows that the packet can be
sent, so that the recent data of a failed packet are shown never (they are in the
final data); `m_stop_sender` is never reset, so that a sender cannot be run twice.
The check "Worker was shut down before emptying its queue!" (ADNetClient.cpp:446)
can never fire: the loop ends only with an empty queue.

*Algorithms.* HBOS labels *all* values outliers when all bins that have values are
equally full and there is more than one (ad.rst:35 says "top 1% of scores are
filtered"). With a server, the threshold of HBOS is not sent, although
ADOutlier.hpp:240 says "The threshold is maintained as part of the global model".
COPOD's merge ends the process when Scott's width and the inputs' widths are all
too small for 50000 bins (Histogram.cpp:228-235). COPOD's skewness is rounding
noise or not a number when all counts are in one bin. `unsigned int c`
(ADOutlier.cpp:491) truncates counts of 64 bits. `RunStats::m_max` starts at the
smallest *positive* number.

*Queues.* `threadPool`'s destructor drops the tasks that nobody has taken, whose
futures then throw, while `DispatchQueue`'s carries them out. A future that is
discarded waits for its task in its own destructor.

## 6. What is not modelled

The row of each component in `PROJECT.json` has its note. In short:

- *Rounding* beyond the effects named in 2.9, and values that are not numbers.
- *Formats*: JSON, serialisation, metadata, the command line, logging, timing.
- *Pure input and output*: opening ADIOS2 streams, directories and names of
  files, CURL, commits to disk.
- *External services*: ZeroMQ, ADIOS2, TAU, Sonata, Margo and MPI's barriers
  appear as the code uses them.
- *Other transports*: `MPINet` does not compile against the present `Message`
  class. `ZMQMENet` is used by `hpserver` only, which says of itself "incomplete!
  Use pserver for production": its `run` returns at once, it sends the statistics
  of worker 0 only, and a port that no client uses polls for ever. `LocalNet`
  calls payloads directly, for tests.
- *Programs around the two that matter*: simulators, queries, `sstSinker`;
  `pshutdown` is a client of `ZMQNet` that sends `stopServer`;
  `driver_multirank.cpp` is disabled by the preprocessor.
- *Ends by a signal*: SIGTERM of an instance of the database ends it whoever is
  connected (provdb_admin.cpp:39); workers of the server that are still in a payload
  when `net.run()` has returned after a signal (2.5).
- *Very narrow histograms of large values*: the smallest step of the arithmetic is
  absolute in the model and relative in the code, so that the fatal "Value is outside
  of histogram" for such values (Histogram.cpp:429-449) is not reached.
- *Pools without threads*, which the constructors accept and no program asks for:
  `ADio` has one thread by default, `threadPool` at least one.
- *Operations that no program uses*: histograms of fixed bin width with a largest
  number of bins, `mtQueue::tryPop` and `clear`, the callbacks of
  `PSstatSender`, the payloads of single statistics, which only tests send.
- *Operations that only read*: frozen parameters, statistics to JSON, queries.

## 7. Plan

Done: `ADEvent`; `ADThreadNetClient` over `OrderedRequests`; `ZMQNet` over
`RequestReply`; `PSparamManager`; `ADParser`; `ADDriver` with the function index
and the outlier detection's synchronisation; `PSstatistics`; `ProvenanceDB`;
`TaskQueues`; the algorithms; provenance and monitoring; and of all of these but
the algorithms the proofs of every safety property that the runs check. What would
add most now:

1. `RetentionPolicy`, an abstract specification of the call list (calls are
   entered, completed, labelled and needed, and freed when they are not) that
   `ADEvent` implements; `FreedUnneeded` and `CollectorSafe` are most of its proof.
2. Of `OutlierModels`, that no value is lost or counted twice when rank and server
   merge (`EveryValueCounted`), which needs its counts apart from the moments and
   as recursive functions; `ADDriver`'s `ModelsExact` has it for models as bags.
3. That `PSparamManager`'s updater, once told, merges at most once more.
4. `ADDriver` over `ADThreadNetClient`'s `OrderedRequests` instead of sends that
   arrive at once, which matters if asynchronous sends get a queue of limited length.
