# Yori in TLA+

A specification of Yori, a daemon (`yorid`) with a command line client (`yori`)
that shares the GPUs of one machine among its users: a queue, a scheduler, a
process supervisor, log streaming and an IPC service. The modules are written
from the C++ sources; every definition that models code has an entry in the map
of `PROJECT.json` with the lines it stands for. TLC checks the modules on small
instances. TLAPS proves the main properties of the store, the GPU sampler, the
scheduler, the job manager and the exit monitor for all instances.

## The system

| Part | State | Operations | Talks to |
|---|---|---|---|
| State store (`src/store`) | jobs, GPU leases, one revision | `load`, `apply(mutation)` | everyone that persists anything |
| SQLite backend (`sqlite_state_store.cpp`) | tables, open transaction | begin, one statement per row, commit, rollback | state store contract |
| Job queue (`src/queue`) | sorted entries, bounded | `admit`, `remove`, `restore` | scheduler, job manager, recovery |
| FIFO scheduler (`src/scheduler`) | none of its own | `run_once` | queue, store, GPU observation |
| Recovery (`src/recovery`) | a plan | `plan`, `recover` in chunks | store, queue, `/proc` |
| Job manager (`job_manager.cpp`) | supervised jobs, command channel, wake pipe | submit, cancel, schedule, launch, exit, pump done, start, stop | all of the parts above and below |
| Exit monitor (`process_exit_monitor.cpp`) | registry of pids, exit channel | register, scan, deliver | kernel, job manager |
| Supervisor and grace timer (`src/process`, `grace_escalation.cpp`) | phase of one process | spawn, adopt, cancel, escalate, abandon, destroy | kernel |
| GPU manager (`gpu_manager.cpp`) | last observation, baseline, event channel | sample | provider, job manager |
| Log pump, sink, streamer, follow service | pipes, files, topics, sessions | attach, pump, publish, finish, follow | job manager, clients |
| IPC protocol, transport and service | frames, connections | encode, decode, eight handlers | client, job manager, store |
| Launch adapter, environment capture | none of their own | capture, resolve, merge, validate | client, job manager |
| Client (`apps/yori`) | one request | submit, cancel, ps, queue, gpu, inspect, logs, tensorboard | IPC service |

What makes the system hard is that one worker thread exchanges events with five
others (clients, reaper, log pump, GPU sampler, grace timers) over bounded
channels that drop or merge, that every step of it can fail or be the last
before a crash, and that the processes outlive the daemon. What has to hold:

* store: a write never overwrites what its author has not seen; a job that is
  over stays as it is;
* backend: whatever fails, a mutation is in the database as a whole or not at
  all, and what was committed can be read back;
* queue and scheduler: the queue is the store's QUEUED jobs in submit order;
  nobody is overtaken who could have started; placements are respected;
* supervision: a job's process holds the lease of its GPU for as long as it
  runs, through every failure, crash and recovery; it is always watched; its
  exit is reported once, truthfully, and recorded; a cancel ends in SIGKILL if
  it must; no event is slept over;
* logs: the frames a follower gets follow on each other, and it is let go;
* requests: what a client is told is true, is meant for it, and its command is
  started as it was given.

The hazards list of `PROJECT.json` ties each of these to the line where it
could go wrong.

## Modules

| Module | Models | Source |
|---|---|---|
| `Job` | states, transitions | `job.hpp`, `job.cpp` |
| `MutationCore` | what a mutation may do: every check of `apply_mutation` and the maps it returns | `mutation_core.cpp`, `state_store.cpp` |
| `StateStore` | the contract: clients that load, compose a mutation from their snapshot and apply it | `state_store.hpp`, `in_memory_state_store.cpp`, `serial_state_store.cpp` |
| `SqliteStateStore` | the backend, one row per step | `sqlite_state_store.cpp` |
| `JobQueue` | queue operations as operators on a sequence | `job_queue.cpp` |
| `FifoScheduler` | `run_once`'s decision (divergence, scan window, placement, affinity) and its evaluation | `scheduler.cpp` |
| `StoreWrites` | the mutations the callers build, and recovery's decisions | `job_manager.cpp`, `job_recovery.cpp` |
| `Scheduling` | queue + scheduler + store + stop, recovery and start, with processes abstracted to their outcome | the above |
| `JobManager` | the daemon: worker loop, channels, threads, processes, crash and recovery | `job_manager.cpp`, `job_recovery.cpp`, and what it sees of the exit monitor, the supervisor, the pump, the streamer and the sampler |
| `JobBoard` | what the daemon promises: a board of jobs that wait, run on a GPU of their own, and end once | abstract |
| `Supervision` | job manager against exit monitor and supervisor, step by step: bounded channels, acknowledgement timeouts, adopted processes, reused pids, refused timers | `process_exit_monitor.cpp`, `process_supervisor.cpp`, `grace_escalation.cpp`, `job_manager.cpp` |
| `GpuManager` | the sampler: overlapping ticks, publication, change and streak events, start and stop, and its consumer | `gpu_manager.cpp`, `job_manager.cpp` |
| `LogSink`, `LogStreamer` | one log file with rotation and drops; one stream's window and replay plan | `log_sink.cpp`, `log_streamer.cpp` |
| `LogFollow` | process, pump, sink, streamer, follow worker and clients together | `log_pump.cpp`, `log_streamer.cpp`, `log_follow_service.cpp` |
| `Wire` | Writer and Reader over a layout of fields | `ipc_protocol.cpp` |
| `IpcProtocol` | every message in four versions, encoder and decoder written separately as in the code | `ipc_protocol.cpp` |
| `IpcExchange` | client, server and follow service over a socket that delivers in pieces | `uds_client.cpp`, `uds_io.cpp`, `ipc_server.cpp`, `log_follow_service.cpp` |
| `Launch` | environment capture, program resolution, validation of specification and plan, the four layers of the environment | `environment_capture.cpp`, `launch_adapter.cpp`, `job.cpp` |
| `IpcService` | the eight handlers as functions of what they read | `ipc_service.cpp` |
| `YoriCli` | the client from its arguments to the request and the exit code | `apps/yori/main.cpp` |
| `Requests` | client, IPC service, job manager, scheduler and launch plan together, with acknowledgements and time limits | the above |
| `MC*` | constants for TLC | |

The proofs are in eight modules: `StoreProofs`, `SchedulingProofs`,
`GpuManagerProofs` and `SupervisionProofs` for one component each, and
`BoardProofs`, `ProcessProofs`, `WatchProofs` and `JobManagerProofs` for the job
manager. `StoreView` and `JobManagerInv` hold the definitions of the last four
(see *Proofs*).

`JobManager`, `Scheduling` and `Requests` extend `StoreWrites`, which extends the
queue, the scheduler and the mutation core, so all of them use one definition of
a write: `Applied(store, m, ok)` is the store after `m`, unchanged when the
backend fails (`ok` is FALSE) or when `MutationCore!Accepts` refuses `m`.

### How state and actions correspond

*Store.* `jobs` and `leases` are the maps of the code, `revision` its counter.
A job record keeps the specification, the state, its own revision, the process
identity, start and end time and the exit status. Log path and failure reason
follow the end time and are left out. The four entry lists of a mutation are
functions and a set: one mutation names a job or GPU at most once per list, as
every caller does.

*SQLite.* The variables of `StateStore` are what is committed; `tx` is the open
transaction with the rows still to write and the tables as it sees them.
`Begin` decodes and checks, `WriteRow` is one statement, `CommitTx`, `Rollback`
and `Crash` end it. `apply` decides on the in-memory result of `apply_mutation`
but writes rows; that both agree is the refinement, not a definition.

*Queue and scheduler.* `queue` is the sequence `entries_`. `lower_bound` and
`position` are the two searches of `admit` and `remove`. `Decision` is
`run_once` up to its write, with the divergence check, the scan window, the
placement modes and the soft protection of GPUs that a waiting REQUIRED job
names. `serving` says whether the daemon is up. `Stop` loses the queue;
`RecoverChunk` is one write of `JobRecovery::recover`, after which the daemon may
go down again; `Start` is the end of a recovery that has nothing left to write:
`restore` and the way to serving. A refused chunk or a refused restore changes
nothing, so the daemon just stays down.

*Job manager.* `pc` is the control point of the worker: waiting, each of the four
channels it drains, the nested `post_wake`, and the two points inside a launch
where another thread or a crash matters (before `spawn`, and between `spawn` and
the RUNNING write). `supervised`, `by_pid`, `registry`, `commands`, `exits`,
`done`, `streams` are the containers of the same purpose in the code; `proc` is
the kernel's process table, where a pid that is free may be taken again by any
later job. A handler is one action with all it writes; parameters choose whether
a store operation of it fails (`ok`), whether the executor takes the grace timer
(`timer`), what the clock reads (`now`) and what a sample reports (`obs`: NVML
lists a process only once it has a compute context, so a busy GPU may be seen
free and a free one busy). The task runners of store and scheduler are part of
these steps: the worker hands them one task and waits for it. Three variables
record history: `misled`, the jobs that were ended by the exit of an earlier
owner of their pid; `skipped`, the survivors whose record the start could not
load; and `due`, that something has happened since the last scheduling run that
calls for one. A graceful stop leaves processes alone and drops memory exactly as a crash at the same
point does, so `Crash` stands for both. After it `Plan`, `RecoverChunk`,
`RestoreQueue` and `Adopt` are the start sequence, and each can be the last step
before another crash.

*Supervision.* The part of the job manager that meets the exit monitor, in
smaller steps than in `JobManager`: `manager` is inside one launch, adoption or
exit, `monitor` inside one pass over its commands and its registry; `commands`
and `events` are the two bounded channels, `proc` the kernel's view, with zombies
and pids that are taken again after they were freed.

*GPU manager.* `tick[t]` is where thread `t` stands in `sample_once`: past the
stop check (`entered`), holding the lock, with an observation, after the
publication. The owner's first sample inside `start()` is a tick as well.
`published` is the snapshot slot, `baseline` the device states the sampler
compares with, `events` the bounded channel and `dropped` its pending mark.
`reported` and `seen` belong to the consumer: the states of the last change event
it received and those its last scheduling run loaded. In `JobManager` all of this
is one wake of the worker.

*Logs.* A byte is its offset. `sink` is the file with its rotation point and its
drop marker, `entry` the streamer's record of the job, `sub` a subscription that
drops, `session` what the follow worker knows of a client, `conn` what the client
got. `worker` walks through the cycle of the follow worker: poll and admit,
advance the replay of each session, then flush each (live chunks, then the end).

*IPC and requests.* `Wire` puts fields on the wire as digits of a small radix, so
that length limits, truncation and the reading of one layout as another happen as
in the code. `IpcProtocol` writes each encoder and decoder separately. In
`Requests` the answers travel as values; `server` is the IPC worker with the
command it waits for, `manager` the job manager's worker, `runs` the clients'
requests, and `plans` what a job was in the end started with.

## Runs

| Run | Instance | Properties |
|---|---|---|
| `sqlite` | 2 clients, 2 jobs, 2 GPUs, edits that include wrong and stale ones, row by row, failure or crash between any two rows | `Readable`, `NoConstraintFailure`, `NoLostUpdate`, `TerminalFrozen`, `ImplementsStateStore` |
| `scheduling` | 3 jobs of 4 placements, 2 GPUs, queue of 2, scan window of 2, mutations of at most 3 entries | `DivergesOnlyWhenFull`, `NoOvertaking`, `PlacementRespected`, `RestartRestoresQueue` |
| `manager_crash` | 2 jobs, 1 GPU, channel of 1, 1 cancel, 1 store failure, 1 launch failure, 1 crash, 2 pids that are used again, a clock that may be set back | `ProcessHoldsLease`, `WatchedWhileUp`, `ExitIsRecordable`, `EofIsFinal`, `NoTriggerLost`, `ImplementsJobBoard` |
| `manager_live` | 2 jobs, 1 GPU, channel of 1, 1 cancel, 1 launch failure | `EofFollows` |
| `gpu_manager` | 1 GPU, the owner and 2 timer threads, 4 observations, 2 device changes, 2 faults, channel of 2 | `StaleOnlyAfterRevert`, `PublishedInOrder` |
| `log_follow` | 2 followers of one stream, file of 2 bytes, marker of 1, backlog 2, reads of 1, subscription of 1, 2 sessions per job, 3 writes, 2 connections, 1 fault | `OffsetsAgree`, `SlotsReturned`, `FramesFollowOn`, `FollowersEnd` |
| `supervision` | a recovered process and 2 children, both channels of 1, 1 cancel, 1 fault | `ExitTracked`, `ExitsTrue`, `NoOrphans`, `ExitsHandled`, `CancelledEnds` |
| `ipc_exchange` | 2 clients, radix 14, strings up to 3, payload up to 125, all versions, foreign frames | `MessagesIntact`, `StreamIntact`, `OnlyWhole` |
| `requests` | 2 users and an administrator, 2 GPUs of which either may vanish, queue of 1, channel of 2, 3 requests, 1 observation, 1 fault | `SubmitHonest`, `CancelConfirmed`, `CancelAuthorised`, `PrivacyKept`, `ContextFaithful`, `WaitReasonsCurrent`, `RequestsServed` |
| `launch_failure` | 2 jobs, 1 GPU, channel of 2, 1 launch failure | `NoIdleGpuAtRest`, violated (see *Findings*) |
| `log_eof` | as `log_follow` | `EofDetectsLoss`, violated (see *Findings*) |
| `log_seam` | as `log_follow` | `BackpressureOnlyWhenSlow`, violated (see *Findings*) |

Each property is stated in words above its definition. A mutant for every one
(`mutants` in `PROJECT.json`) shows a plausible slip in the code that breaks it.

**Bounds.** `MaxRevision` is larger than the number of writes the other bounds
allow in the job manager runs, so the revision limit never hides a step there; in
`sqlite` it is reached on purpose. Two jobs compete for one GPU in
`manager_crash`: the second can only start over the first's lease, exit, failure
or orphan, which is where lease and process could part. Two pids for two jobs
are enough for a job to get the pid of the other while an exit of that one is
still queued. The clock reads 0 or 1 and jobs are submitted at 1, so a reading of
0 is a clock set back behind the submission. One crash can happen at every
control point, and a store failure can send the start after it back to the
beginning; a second crash is left to the theorems, which allow any number.
Channels of capacity one make every posted wake compete with a client's command,
and every exit with the one before. The queue of two with three jobs makes
admission fail, and the lost rollback then exceeds the queue at restart; with at
most three entries in a mutation the recovery of two lost jobs takes two chunks,
between which the daemon may stop or find other identities. A file of two bytes
rotates at the second write, and a subscription of one chunk overflows at once.
The three requests of `requests` are a submission that needs GPU 0; then one that
needs the same GPU, one of an older client that prefers the other, a cancel by
the owner or by another user, or a lookup by the owner or another user; then a
cancel by the administrator.

**Fairness.** Every thread is a task of its own in the executor, none holds a
lock while it waits, and every wake is a byte in a pipe that is polled.

* `manager_live`: worker, reaper and timers take a step when they have one. The
  sampler need not: a GPU may keep its state for ever. The pump is fair only for
  a job whose process is gone, since its pipes are closed then. Processes are not
  fair: one may run for ever, and ignore SIGTERM. The worker's fairness is written with `Asleep`, whose negation is
  exactly `ENABLED WorkerStep`.
* `log_follow`: the follow worker, whose poll has a tick of 100 ms and whose
  writes have a deadline. Neither the pump nor the clients are fair.
* `supervision`: the manager when it was woken, the monitor with its periodic
  wake, and the grace timer.
* `requests`: the IPC worker moves whenever it does not wait (`Waits`), and its
  wait for an acknowledgement ends in the time limit. The job manager is not
  fair: the answer comes without it.

## Findings

* `launch_failure`: `fail_launch` releases the lease and triggers nothing; the
  design says that the scheduler runs again after FAILED. A waiting job stays
  queued beside a free GPU until something else happens.
* `log_eof`: the design promises that a follower gets the EOF after the rest of the
  log, and the plan of M6 that the EOF reveals a rejected chunk. `advance_live`
  sends the EOF it receives without a look at the offset or at the replay: a
  chunk that the full subscription rejected just before the end, or the rest of
  a replay that takes more than a cycle, is missing, and the client reports
  success.
* `log_seam`: `advance_replay` does not move `delivered`, so the first live chunk
  after a replay that was not empty lies beyond it, and a follower that lost
  nothing is cut off with BACKPRESSURE. This is also why `FramesFollowOn` speaks of
  the replay and of the live chunks, and never of the passage between the two.

## Observations

What modelling showed beside that. No run checks these; they are for whoever
changes the lines in question.

*Job manager and supervision.*

* A crash between `spawn` and the RUNNING write leaves an orphan. Recovery gives
  its GPU back, and until the orphan opens a compute context NVML
  (`nvml_gpu_provider.cpp:95`) shows the GPU as free: the next job is started
  beside it. The plan of M4 relies on the observation here
  (`m4-persistence-recovery.md:89-92`, "不会导致双重分配"). `ProcessHoldsLease`
  names the orphan as its exception.
* When the exit monitor refuses an adopted process, the local supervisor is
  destroyed and its destructor kills the process (`job_manager.cpp:316`,
  `process_supervisor.cpp:525`), where the comment says that the process goes on.
* A survivor whose record cannot be loaded at the start is passed over
  (`job_manager.cpp:294`): its process runs on with its lease, and nobody watches
  it before the next restart.
* One run of the scheduler starts one job. When two GPUs become free and their
  events are merged into one trigger, the second waiting job stays queued until
  the next event.
* Launch failures after `register_job` unregister the stream first
  (`job_manager.cpp:827`), so the EOF that `fail_launch` publishes reaches nobody.
* A clock that stepped back makes the LOST record of recovery invalid
  (`job_recovery.cpp:170`); the start fails instead of settling the job.
* Exit events are matched by pid alone (`job_manager.cpp:908`). The exit of a
  process can still be queued when its pid goes to the job the worker launches
  next, which is then recorded as ended while its process runs. These are the jobs
  in `misled`.
* Cancelling again does not arm a grace timer that was refused the first time
  (`job_manager.cpp:673`).
* A launch fails with an acknowledgement timeout while the monitor waits for
  room in its event channel.
* `launch_scheduled` uses index 0 for a GPU that left the observation meanwhile
  (`job_manager.cpp:742`).
* A submission refused by the queue whose rollback also fails stays QUEUED in
  the store and is restored after a restart.
* After an evaluation that selected a job, the jobs behind it have no wait reason
  until the next trigger.

*GPU manager.* `sample_once` reads `stopping` before it takes the tick lock
(`gpu_manager.cpp:249`). A tick that passed the check is not waited for by
`stop()` and samples, publishes and reports after it; `gpu_manager.hpp:114` says
that no tick is in flight then. The daemon stops the executor before it destroys
the provider, so nothing comes of it there.

*Log following.*

* The flush loop ranges over `sessions_` while `flush_session` may erase from it.
* A BACKPRESSURE frame carries the beginning of the chunk behind the hole.
* A topic that closes between an empty `try_receive` and `is_closed` ends the
  session without the chunks and the EOF that arrived in between; so does one
  that is closed before the replay of a session took more than a cycle.
* After a failed rotation the sink loses bytes without a marker.
* A slow client's write blocks for up to 2 s, in which other subscriptions
  overflow.

*IPC and client.*

* `take_flag` (`apps/yori/main.cpp:142`) searches all arguments, those behind `--`
  included: a flag of the command that has the name of one of the client's own is
  removed from the command and applied to the submission. `YoriCli` takes the
  flags in the same way.
* `call_daemon` treats a truncated list as a failure, so long answers of `ps` and
  `queue` show nothing.
* Lists are bounded by count, not by bytes; one too long becomes INTERNAL.
* A rejected frame, and an answer that cannot be encoded, get a response in the
  newest version, whatever the client's; the design has every response repeat the
  version of its request. `AnswerIntact` says so of these two cases.
* The limits of specification and plan differ for an empty later argument.

## Proofs

The theorems hold for every value of the constants that satisfies the named
`ASSUME`s: any number of jobs, GPUs, clients, threads, faults and crashes, any
channel and queue capacities. The assumptions say that null values are outside
their sets, that bounds, ids, GPU indices and submit times are naturals, that
there is an id for every job the store may hold (`JobIdsAssumption`), and what an
observation and a process identity consist of. TLC evaluates each of them.

**Store** (`StoreProofs`). The inductive invariant of `StateStore` is
`TypeOK /\ SnapshotCurrent`: a snapshot's revision is never larger than the
store's, and a snapshot with the store's revision is the store. An accepted
mutation has the store's revision, hence was composed from the store as it is
(`NoLostUpdate`), and the lease matrix holds because `apply_mutation` checks it
on the result. `TerminalFrozen` needs the update check against the current
record and the type of the records. For the backend the invariant is
`TypeOK /\ TxView`: the transaction's tables are the committed ones overlaid with
exactly the rows written so far, statements are written in rank order, nothing
committed changes while a transaction is open, and the mutation is still one the
core accepts. With no rows left, the overlay is the core's `next_jobs` and
`next_leases`, so the commit is a `StateStore` step; every other step stutters or
drops a snapshot. From the same invariant follow that no acquire row finds its
GPU or job still leased (releases come first), and that committed states decode.

**Scheduling** (`SchedulingProofs`). `SchedInv` says that the store is sound (a
record is QUEUED exactly at revision 0, leases belong to active jobs) and that
the queue is a sorted listing whose entries are those of the QUEUED jobs they
name. Sortedness under a strict order makes the entries distinct, so the length
of the queue is the number of its ids, and the code's divergence check, which
compares sizes and then looks up each entry, fails exactly when a QUEUED job is
missing. Three facts carry the steps: `lower_bound` returns an insertion point
that keeps the order; `erase` keeps it and takes out one id; and `restore` lists
the entries by rank, which is a bijection onto `0 .. n - 1`. With that, a run that
selects a job has all QUEUED jobs before it, and selects the first of its window
that finds a GPU, which is `NoOvertaking`. `PlacementRespected` uses that the
place of an entry in a complete queue is its rank among the QUEUED jobs, so the
devices protected by the scheduler are those the property calls `Wanted`.

**GPU manager** (`GpuManagerProofs`). `OneSampler` says that a tick between the
lock and its end is alone there, and that what it observed is newer than what is
published. `BaselineIsTold` says that the baseline is the content of the newest
change event in the channel or, with none there, of the last one received. It is
inductive because a rejected event leaves the baseline alone, so the next sample
finds the same difference again. A change that is undone before that sample is
never reported; the scheduler may then have used an outdated observation, and
`StaleOnlyAfterRevert` allows exactly that.

**Supervision** (`SupervisionProofs`). `SupInv` follows one process. Before its
REGISTER command is sent the monitor knows nothing of it; while the command is
queued nobody else touches it; once it is applied the exit is tracked at one
place, even if the manager has not read the acknowledgement. A manager that gives
up waiting leaves a stale command behind, which does no harm because no process
is started twice. A child the manager wants is reaped by the monitor only, so its
status is known. The argument includes pids that are used again.

**Job manager.** Five inductive invariants, each with its steps in a module
stated over what the steps of the others guarantee (`StoreEffects`, `LeasesKept`,
`Effects`, `ProcFacts` in `JobManagerInv`); `JobManagerProofs` puts them together
and states the theorems.

* `BoardInv` (`BoardProofs`): the store's lease matrix, and that what the worker
  remembers of a job between two steps (the flag `cancelling`, the launch under
  way, the recovery plan) agrees with the store on which jobs are STOPPING. The
  first makes a job leave its GPU in the write that ends it; the second makes the
  exit of a stopping job CANCELLED and never FINISHED. Every write of
  `StoreWrites` is followed from its mutation to the step of `JobBoard` it is:
  the RUNNING write is not seen there, a chunk of recovery ends several jobs at
  once.
* `ProcInv` (`ProcessProofs`): no job has two processes. A pid in the stored
  identity, in `by_pid` or in the registry is that of the job's only process, if
  the job still has one; a queued exit belongs to a job whose process is gone.
  What it does not say is that the pid of a queued exit still belongs to that job:
  the kernel may have used it again. A live process holds the lease of its GPU, or
  its job was given up by recovery without a stored identity, or is in `misled`.
  A job enters `misled` in the one step in which `process_exit` finds it under the
  pid of another job's event, so nothing is assumed about pids.
* `WatchInv` (`WatchProofs`): while the daemon is up, a live process that is no
  orphan, not misled and not skipped is supervised, registered, and has asked for
  its timer once it is being stopped, or its launch is under way; during a start
  it is in the recovery plan. It is inductive because `begin_cancellation` asks
  for the timer in the handler that writes STOPPING, because recovery keeps
  exactly the processes whose identity is stored, and because the registry loses
  dead processes only.
* `EofInv` (`WatchProofs`): the state stored for a supervised job agrees with the
  exit the worker remembers or is not terminal, and a job whose stream is closed
  is neither supervised nor pumped.
* `WakeInv` (`JobManagerProofs`): whatever is in a queue is announced in the wake
  pipe or lies ahead of the worker in its round, and a scheduling run that is due
  is about to be posted, or a command or a GPU event that leads to it is queued.
  When the command channel is full, `post_wake` drops its command; the run is then
  made for the command that fills it, since every command either is a WAKE or
  ends in a `post_wake` of its own. `NoTriggerLost` is what is left of it when the
  worker sleeps. Of the other four it needs only `BoardInv`, for the places the
  worker returns to.

**Only model-checked.** `ExitIsRecordable`, which depends on the clock readings
in all records before; log following, whose frames are built with folds and
`SelectSeq` over sequences of any length, which would take induction over data;
the IPC messages and the requests, whose decoders are recursive; and all
liveness, since fairness and ENABLED are out of the prover's reach.

## Not modelled

Schema migrations and the text of columns; reading a device through NVML; what the
task runners of store and scheduler remember of a task nobody has consumed (their
only caller waits for each task); `yorid`'s main program; the failure of a component that starts
after the job manager; the permissions of the socket; what log files contain and
what rotated ones are called; the probe of the Python interpreter. `PROJECT.json` lists the parts
with the reasons.
