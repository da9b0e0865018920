----------------------------- MODULE JobManager -----------------------------
(***************************************************************************)
(* The supervision daemon: JobManager's single worker thread               *)
(* (src/runtime/job_manager.cpp) with the threads it exchanges events with *)
(* (ProcessExitMonitor, LogPump, GpuManager, the grace timers), the store, *)
(* the queue, the scheduler, the log streamer's EOF, the job processes     *)
(* themselves and a daemon that may crash and recover at any point.        *)
(*                                                                         *)
(* The worker's control points are the places where another thread, a      *)
(* process or a crash can make a difference.  A graceful stop leaves the   *)
(* processes alone (RULE-10) and drops the volatile state, as a crash at   *)
(* the same point does, so Crash stands for both.                          *)
(***************************************************************************)
EXTENDS StoreWrites

CONSTANTS
  Pid,               \* process ids, which the kernel uses again
  Clock,             \* the readings of the system clock
  CommandCapacity,   \* JobManagerConfig::command_capacity
  MaxCancels,        \* bound: cancel requests
  MaxStoreFaults,    \* bound: store operations that fail
  MaxLaunchFaults,   \* bound: launches, registrations, attaches and timers that fail
  MaxCrashes         \* bound: daemon stops and crashes

(* A job's process is started once, so the job stands for its start ticks.  *)
ASSUME IdentityAssumption == Identity = [pid : Pid, ticks : JobId]

ASSUME CommandAssumption == CommandCapacity \in Nat \ {0}

VARIABLES
  store,        \* the persistent state [jobs, leases, revision]
  queue,        \* GlobalJobQueue's entries
  pc,           \* the control point of the worker
  ret,          \* where the worker continues after a nested step
  launch,       \* the launch in progress: job, gpu and pid
  plan,         \* the recovery in progress: decision and the jobs to write
  commands,     \* the command channel
  wake,         \* the wake pipe is readable
  supervised,   \* supervised_: the jobs under supervision
  by_pid,       \* by_pid_: pid to job
  registry,     \* the exit monitor's registry: pid to [ticks, adopted]
  exits,        \* the exit event channel
  pumping,      \* the jobs attached to the log pump
  done,         \* the log pump's done events
  streams,      \* LogStreamer's jobs: "OPEN" or the state published as EOF
  observed,     \* the last published GPU observation
  gpu_event,    \* a GPU state change event is queued
  proc,         \* the operating system's processes, by pid
  budget,       \* the bounds still available
  misled,       \* history: the jobs ended by the exit of an earlier owner of their pid
  skipped,      \* history: the jobs the last start found running and could not load
  due           \* history: no scheduling run yet since the last event that calls for one

persistent == <<store, proc, budget>>
channels   == <<commands, wake, exits, done, gpu_event>>
monitors   == <<registry, pumping, observed>>
memory     == <<queue, supervised, by_pid, streams>>
control    == <<pc, ret, launch, plan>>
history    == <<misled, skipped, due>>
vars == <<persistent, channels, monitors, memory, control, history>>

WAKE == [kind |-> "WAKE"]

NoLaunch == [job |-> 0, gpu |-> NoGpu, pid |-> 0]
NoPlan   == [decision |-> EmptyMap, todo |-> {}, now |-> NoTime]

(* The daemon's threads run.                                                *)
Up == pc \notin {"down", "recover", "adopt"}

Set(f, x, v) == Overlay(f, [y \in {x} |-> v])

(* Whether a store operation, or a launch step, may fail now, and the       *)
(* budget after it did or did not.                                          *)
StoreOutcome  == IF budget.store > 0 THEN BOOLEAN ELSE {TRUE}
TimerOutcome  == IF budget.launch > 0 THEN {"ARMED", "REFUSED"} ELSE {"ARMED"}
Spent(b, field, ok) == IF ok THEN b ELSE [b EXCEPT ![field] = @ - 1]

(* What a sample can report.  A GPU is busy while NVML lists a compute      *)
(* process for it: of somebody outside, or of a job, once that uses CUDA.   *)
(* For the scheduler an UNAVAILABLE GPU is as good as a busy one.           *)
Observations == [GpuUuid -> {"FREE", "EXTERNAL_BUSY"}]

Init ==
  /\ store = EmptyStore
  /\ queue = <<>>
  /\ pc = "wait" /\ ret = "wait" /\ launch = NoLaunch /\ plan = NoPlan
  /\ commands = <<WAKE>> /\ wake = TRUE
  /\ supervised = EmptyMap /\ by_pid = EmptyMap
  /\ registry = EmptyMap /\ exits = <<>>
  /\ pumping = {} /\ done = {}
  /\ streams = EmptyMap
  /\ proc = EmptyMap
  /\ observed \in Observations /\ gpu_event = FALSE
  /\ budget = [cancel |-> MaxCancels, store |-> MaxStoreFaults,
               launch |-> MaxLaunchFaults, crash |-> MaxCrashes]
  /\ misled = {} /\ skipped = {} /\ due = TRUE

-----------------------------------------------------------------------------
(* Processes and signals.                                                   *)

(* The supervisor's destructor: SIGKILL to whatever process has the pid,    *)
(* which is reaped when it is a child.  The mutated one leaves it alone.    *)
Killed_Spared(ps, p) == ps

Killed(ps, p) == Without(ps, {p})

(* A process ends.  Only the daemon's own child is left as a zombie.        *)
ProcessExit(p, status) ==
  /\ proc[p].alive
  /\ proc' = IF proc[p].child
             THEN [proc EXCEPT ![p].alive = FALSE, ![p].status = status]
             ELSE Without(proc, {p})
  /\ UNCHANGED <<store, budget, channels, monitors, memory, control, history>>

(* request_cancel: SIGTERM once, to whatever has the pid; a failed signal   *)
(* leaves the phase, and a supervisor already terminating does nothing.     *)
Requested(job, ps) ==
  IF job.phase = "RUNNING" /\ job.pid \in DOMAIN ps
  THEN [job EXCEPT !.phase = "TERMINATING"] ELSE job

(* A mutated begin_cancellation that gives up when the signal fails.        *)
begin_cancellation_GivesUp(job, ps, from_recovery, outcome) ==
  LET asked == Requested(job, ps) IN
  IF asked.phase # "TERMINATING" THEN asked
  ELSE [asked EXCEPT !.cancelling = TRUE,
                     !.timer = IF ~job.cancelling \/ from_recovery THEN outcome ELSE @]

(* begin_cancellation: the job is cancelling from now on, also when the     *)
(* signal failed; the grace timer is armed once and needs a terminating     *)
(* supervisor.  When the executor refuses the timer (outcome), nobody asks  *)
(* again.                                                                   *)
begin_cancellation(job, ps, from_recovery, outcome) ==
  LET asked == Requested(job, ps) IN
  [asked EXCEPT
     !.cancelling = TRUE,
     !.timer = IF (~job.cancelling \/ from_recovery) /\ asked.phase = "TERMINATING"
               THEN outcome ELSE @]

(* The grace timer fires: SIGKILL to whatever has the pid.                  *)
Escalate(j) ==
  /\ supervised[j].timer = "ARMED"
  /\ supervised' = [supervised EXCEPT ![j].timer = "OFF"]
  /\ LET p == supervised[j].pid IN
       proc' = IF p \notin DOMAIN proc THEN proc
               ELSE IF proc[p].child
                    THEN [proc EXCEPT ![p].alive = FALSE,
                            ![p].status = IF proc[p].alive THEN "FAILURE" ELSE @]
                    ELSE Without(proc, {p})
  /\ UNCHANGED <<store, budget, channels, monitors, queue, by_pid, streams, control, history>>

-----------------------------------------------------------------------------
(* The exit monitor's reaper thread.                                        *)

Event(p, verified, status) ==
  [pid |-> p, ticks |-> registry[p].ticks, verified |-> verified, status |-> status]

(* scan_one finds the registered process ended: its pid is gone or belongs  *)
(* to another process, or it is a zombie child, which is reaped.  The entry *)
(* is erased and the event delivered.                                       *)
Reaped(p) ==
  LET same == p \in DOMAIN proc /\ proc[p].job = registry[p].ticks IN
  /\ Up
  /\ same => ~registry[p].adopted /\ ~proc[p].alive
  /\ exits' = Append(exits, IF same THEN Event(p, TRUE, proc[p].status)
                                    ELSE Event(p, FALSE, "FAILURE"))
  /\ proc' = IF same THEN Without(proc, {p}) ELSE proc
  /\ registry' = Without(registry, {p})
  /\ UNCHANGED <<store, budget, commands, done, gpu_event, pumping, observed, memory, control,
                 history>>

Scan(p) == Reaped(p) /\ wake' = TRUE

(* The log pump has drained a job's pipes: both ends closed, which may be   *)
(* before or after the process exits.                                       *)
Drained(j) ==
  /\ Up
  /\ j \in pumping
  /\ pumping' = pumping \ {j}
  /\ done' = done \cup {j}
  /\ UNCHANGED <<persistent, commands, exits, gpu_event, registry, observed, memory, control,
                 history>>

(* A mutated completion that does not wake the worker.                      *)
PumpDone_NoKick(j) == Drained(j) /\ UNCHANGED wake

PumpDone(j) == Drained(j) /\ wake' = TRUE

(* The GPU manager samples: a changed state is published, then the event.   *)
Sample(obs) ==
  /\ Up
  /\ obs # observed
  /\ observed' = obs
  /\ gpu_event' = TRUE
  /\ wake' = TRUE
  /\ due' = TRUE
  /\ UNCHANGED <<persistent, commands, exits, done, registry, pumping, memory, control, misled,
                 skipped>>

-----------------------------------------------------------------------------
(* Clients: submit_job and cancel_job.  A full channel refuses the command. *)

Send(command) ==
  /\ Up
  /\ Len(commands) < CommandCapacity
  /\ commands' = Append(commands, command)
  /\ wake' = TRUE
  /\ UNCHANGED <<store, proc, exits, done, gpu_event, monitors, memory, control, history>>

Submits == Cardinality({i \in DOMAIN commands : commands[i].kind = "SUBMIT"})

SubmitJob(spec) ==
  /\ next_job_id(store.jobs) + Submits \in JobId
  /\ Send([kind |-> "SUBMIT", spec |-> spec])
  /\ UNCHANGED budget

CancelJob(j) ==
  /\ budget.cancel > 0
  /\ budget' = [budget EXCEPT !.cancel = @ - 1]
  /\ Send([kind |-> "CANCEL", job |-> j])

-----------------------------------------------------------------------------
(* The worker loop.                                                         *)

Goto(here, there) == pc = here /\ pc' = there

(* wait_for_wakeup and drain_wake_pipe.                                     *)
WaitForWakeup ==
  /\ Goto("wait", "commands")
  /\ wake
  /\ wake' = FALSE
  /\ UNCHANGED <<persistent, commands, exits, done, gpu_event, monitors, memory, ret, launch, plan,
                 history>>

(* One channel is empty: the worker goes on to the next.                    *)
ChannelDrained ==
  /\ \/ Goto("commands", "exits") /\ commands = <<>>
     \/ Goto("exits", "pumps") /\ exits = <<>>
     \/ Goto("pumps", "gpu") /\ done = {}
     \/ Goto("gpu", "wait") /\ ~gpu_event
  /\ UNCHANGED <<persistent, channels, monitors, memory, ret, launch, plan, history>>

Receive(kind) ==
  /\ pc = "commands"
  /\ commands # <<>>
  /\ Head(commands).kind = kind
  /\ commands' = Tail(commands)

(* The nested post_wake: the command is dropped when the channel is full,   *)
(* the wake pipe is written in any case.                                    *)
PostWake ==
  /\ Goto("post", ret)
  /\ commands' = IF Len(commands) < CommandCapacity THEN Append(commands, WAKE) ELSE commands
  /\ wake' = TRUE
  /\ UNCHANGED <<persistent, exits, done, gpu_event, monitors, memory, ret, launch, plan, history>>

(* A mutated handler end that triggers no scheduling run.                   *)
Post_Silent(there) ==
  /\ pc' = there
  /\ due' = TRUE
  /\ UNCHANGED <<ret, launch, plan, skipped>>

Post(there) ==
  /\ pc' = "post" /\ ret' = there
  /\ due' = TRUE
  /\ UNCHANGED <<launch, plan, skipped>>

(* process_submit: create, admit, and CANCELLED as the rollback of a        *)
(* refused admission.                                                       *)
process_submit(created_ok, rollback_ok) ==
  LET spec    == Head(commands).spec
      j       == next_job_id(store.jobs)
      create  == CreateMutation(store, j, spec)
      created == Applied(store, create, created_ok)
      record  == created.jobs[j]
  IN  /\ Receive("SUBMIT")
      /\ IF ~Written(store, create, created_ok)
         THEN UNCHANGED <<store, queue>>
         ELSE IF AdmitAccepted(queue, j, record)
         THEN store' = created /\ queue' = Admitted(queue, Entry(j, record))
         ELSE /\ store' = Applied(created, MoveMutation(created, j, "CANCELLED"), rollback_ok)
              /\ UNCHANGED queue
      /\ budget' = Spent(Spent(budget, "store", created_ok), "store", rollback_ok)
      /\ budget'.store >= 0
      /\ Post("commands")
      /\ UNCHANGED <<proc, wake, exits, done, gpu_event, monitors, supervised, by_pid, streams,
                     misled>>

(* process_cancel: a queued job is CANCELLED and leaves the queue; an       *)
(* active one is STOPPING before it is signalled; a STOPPING one is asked   *)
(* again; anything else is only answered.                                   *)
process_cancel(ok, timer) ==
  LET j     == Head(commands).job
      state == store.jobs[j].state
      m     == MoveMutation(store, j, IF state = "QUEUED" THEN "CANCELLED" ELSE "STOPPING")
      wrote == state \in {"QUEUED", "STARTING", "RUNNING"} /\ Written(store, m, ok)
  IN  /\ Receive("CANCEL")
      /\ store' = IF wrote THEN Applied(store, m, ok) ELSE store
      /\ queue' = IF wrote /\ state = "QUEUED" THEN Removed(queue, j) ELSE queue
      /\ supervised' =
           IF /\ j \in DOMAIN supervised
              /\ \/ ok /\ state = "STOPPING"
                 \/ wrote /\ state # "QUEUED"
           THEN [supervised EXCEPT ![j] = begin_cancellation(@, proc, FALSE, timer)]
           ELSE supervised
      /\ budget' = Spent(Spent(budget, "store", ok), "launch", timer = "ARMED")
      /\ Post("commands")
      /\ UNCHANGED <<proc, wake, exits, done, gpu_event, monitors, by_pid, streams, misled>>

(* schedule_now: one run_once.  A job that got its lease is launched next;  *)
(* a failed write puts it back into the queue, and nothing retries.         *)
schedule_now(there, ok) ==
  LET d == Decision(queue, store.jobs, store.leases, observed)
      m == StartMutation(store.jobs, store.revision, d.job, d.gpu)
  IN  /\ IF d.code # "SELECTED"
         THEN pc' = there /\ UNCHANGED <<store, queue, ret, launch>>
         ELSE IF Written(store, m, ok)
         THEN /\ store' = Applied(store, m, ok)
              /\ queue' = Removed(queue, d.job)
              /\ launch' = [job |-> d.job, gpu |-> d.gpu, pid |-> 0]
              /\ pc' = "spawn" /\ ret' = there
         ELSE /\ queue' = Admitted(Removed(queue, d.job), Entry(d.job, store.jobs[d.job]))
              /\ pc' = there
              /\ UNCHANGED <<store, ret, launch>>
      /\ budget' = Spent(budget, "store", ok)
      /\ due' = FALSE
      /\ UNCHANGED <<proc, exits, done, wake, monitors, supervised, by_pid, streams, plan, misled,
                     skipped>>

ScheduleOnWake(ok) ==
  /\ Receive("WAKE")
  /\ schedule_now("commands", ok)
  /\ UNCHANGED gpu_event

(* drain_gpu_events: any number of queued changes gives one run.            *)
ScheduleOnGpuEvent(ok) ==
  /\ pc = "gpu"
  /\ gpu_event
  /\ gpu_event' = FALSE
  /\ schedule_now("wait", ok)
  /\ UNCHANGED commands

-----------------------------------------------------------------------------
(* launch_scheduled.                                                        *)

unregister_job(ss, j) == Without(ss, {j})

(* finish_job publishes the EOF of a registered, unfinished stream.         *)
finish_job(ss, j, state) ==
  IF j \in DOMAIN ss /\ ss[j] = "OPEN" THEN [ss EXCEPT ![j] = state] ELSE ss

(* fail_launch: FAILED and the lease given back in one write, then the EOF. *)
(* No scheduling is triggered.                                              *)
fail_launch(s, ss, ok, now) ==
  /\ store' = Applied(s, EndMutation(s, launch.job, launch.gpu, "FAILED", NoExit, now), ok)
  /\ streams' = finish_job(ss, launch.job, "FAILED")

Return == pc' = ret /\ launch' = NoLaunch /\ UNCHANGED <<ret, plan>>

(* The load at the head of launch_scheduled fails: the job stays STARTING.  *)
LaunchLoadFails ==
  /\ pc = "spawn"
  /\ budget.store > 0
  /\ budget' = [budget EXCEPT !.store = @ - 1]
  /\ Return
  /\ UNCHANGED <<store, proc, channels, monitors, memory, history>>

(* Identity, profile, plan, log directory, log sink or spawn fails; a       *)
(* stream registered for it is unregistered again.                          *)
SpawnFails(ok, now) ==
  /\ pc = "spawn"
  /\ budget.launch > 0
  /\ budget' = Spent([budget EXCEPT !.launch = @ - 1], "store", ok)
  /\ fail_launch(store, unregister_job(streams, launch.job), ok, now)
  /\ Return
  /\ UNCHANGED <<proc, channels, monitors, queue, supervised, by_pid, history>>

(* The log stream is registered and the process started, under any pid that *)
(* is free.                                                                 *)
Spawn(p) ==
  /\ Goto("spawn", "persist")
  /\ p \notin DOMAIN proc
  /\ proc' = Set(proc, p, [job |-> launch.job, gpu |-> launch.gpu, child |-> TRUE,
                          alive |-> TRUE, status |-> "SUCCESS"])
  /\ launch' = [launch EXCEPT !.pid = p]
  /\ streams' = Set(streams, launch.job, "OPEN")
  /\ UNCHANGED <<store, budget, channels, monitors, queue, supervised, by_pid, ret, plan, history>>

RunningMutation(now) ==
  RewriteMutation(store, launch.job,
    Running(store.jobs[launch.job], [pid |-> launch.pid, ticks |-> launch.job], now), {})

(* apply_register on behalf of the waiting worker: a duplicate pid is       *)
(* refused; a child that already exited is reaped and its event delivered.  *)
register_process ==
  IF proc[launch.pid].alive
  THEN /\ registry' = Set(registry, launch.pid, [ticks |-> launch.job, adopted |-> FALSE])
       /\ UNCHANGED <<exits, wake, proc>>
  ELSE /\ exits' = Append(exits, [pid |-> launch.pid, ticks |-> launch.job,
                                 verified |-> TRUE, status |-> proc[launch.pid].status])
       /\ wake' = TRUE
       /\ proc' = Without(proc, {launch.pid})
       /\ UNCHANGED registry

Duplicate == launch.pid \in DOMAIN registry

(* The RUNNING write, the registration with the exit monitor or the attach  *)
(* to the log pump fails: the supervisor's destructor kills the process and *)
(* the job is FAILED.  An exit the monitor had already reaped stays queued. *)
PersistFails(fault, ok, started, now) ==
  LET m       == RunningMutation(started)
      running == Applied(store, m, fault # "persist")
  IN  /\ pc = "persist"
      /\ \/ fault = "persist" /\ budget.store > 0
         \/ fault = "refused" /\ ~Written(store, m, TRUE)
         \/ fault = "register" /\ Written(store, m, TRUE) /\ (budget.launch > 0 \/ Duplicate)
         \/ fault = "attach" /\ Written(store, m, TRUE) /\ ~Duplicate /\ budget.launch > 0
      /\ budget' = Spent([budget EXCEPT
                           !.store = IF fault = "persist" THEN @ - 1 ELSE @,
                           !.launch = IF fault = "attach" \/ (fault = "register" /\ ~Duplicate)
                                      THEN @ - 1 ELSE @],
                         "store", ok)
      /\ budget'.store >= 0
      /\ IF fault = "attach" /\ ~proc[launch.pid].alive
         THEN /\ exits' = Append(exits, [pid |-> launch.pid, ticks |-> launch.job,
                                         verified |-> TRUE, status |-> proc[launch.pid].status])
              /\ wake' = TRUE
         ELSE UNCHANGED <<exits, wake>>
      /\ proc' = Killed(proc, launch.pid)
      /\ fail_launch(running, unregister_job(streams, launch.job), ok, now)
      /\ Return
      /\ UNCHANGED <<commands, done, gpu_event, monitors, queue, supervised, by_pid, history>>

(* RUNNING is persisted with the identity, the process registered, the pump *)
(* attached and the job supervised.                                         *)
Supervise(now) ==
  LET m == RunningMutation(now) IN
  /\ pc = "persist"
  /\ ~Duplicate
  /\ Written(store, m, TRUE)
  /\ store' = Applied(store, m, TRUE)
  /\ register_process
  /\ pumping' = pumping \cup {launch.job}
  /\ supervised' = Set(supervised, launch.job,
       [gpu |-> launch.gpu, pid |-> launch.pid, phase |-> "RUNNING", timer |-> "OFF",
        cancelling |-> FALSE, adopted |-> FALSE, exited |-> FALSE, pump_done |-> FALSE,
        terminal |-> "FAILED"])
  /\ by_pid' = Set(by_pid, launch.pid, launch.job)
  /\ Return
  /\ UNCHANGED <<budget, commands, done, gpu_event, observed, queue, streams, history>>

-----------------------------------------------------------------------------
(* Exit and pump events.                                                    *)

(* The job leaves supervision with its EOF; the supervisor's destructor     *)
(* kills whatever is left under the pid.                                    *)
Release(j, state) ==
  /\ streams' = finish_job(streams, j, state)
  /\ supervised' = Without(supervised, {j})
  /\ proc' = Killed(proc, supervised[j].pid)

TerminalOf(job, event) ==
  CASE job.cancelling -> "CANCELLED"
    [] ~job.cancelling /\ event.verified /\ event.status = "SUCCESS" -> "FINISHED"
    [] ~job.cancelling /\ ~(event.verified /\ event.status = "SUCCESS") -> "FAILED"

ExitMutation(s, j, event, now) ==
  EndMutation(s, j, supervised[j].gpu, TerminalOf(supervised[j], event),
              IF event.verified THEN event.status ELSE NoExit, now)

(* A mutated process_exit that publishes the EOF without waiting for the    *)
(* pump.                                                                    *)
ReadyForEof_Always(job) == TRUE

ReadyForEof(job) == job.adopted \/ job.pump_done

(* process_exit of an event for a supervised pid.  Whose exit it is, is     *)
(* told by the pid alone.                                                   *)
process_exit(ok, now) ==
  LET event == Head(exits)
      j     == by_pid[event.pid]
      state == TerminalOf(supervised[j], event)
  IN  /\ pc = "exits"
      /\ exits # <<>>
      /\ event.pid \in DOMAIN by_pid /\ j \in DOMAIN supervised
      /\ exits' = Tail(exits)
      /\ store' = Applied(store, ExitMutation(store, j, event, now), ok)
      /\ IF ReadyForEof(supervised[j])
         THEN Release(j, state)
         ELSE /\ supervised' = [supervised EXCEPT ![j].exited = TRUE, ![j].timer = "OFF",
                                                   ![j].terminal = state]
              /\ UNCHANGED <<streams, proc>>
      /\ by_pid' = Without(by_pid, {event.pid})
      /\ budget' = Spent(budget, "store", ok)
      /\ misled' = IF event.ticks = j THEN misled ELSE misled \cup {j}
      /\ Post("exits")
      /\ UNCHANGED <<commands, wake, done, gpu_event, monitors, queue>>

(* An event for a pid nobody supervises is dropped.                         *)
DropExit ==
  /\ pc = "exits"
  /\ exits # <<>>
  /\ LET p == Head(exits).pid IN
       /\ p \in DOMAIN by_pid => by_pid[p] \notin DOMAIN supervised
       /\ by_pid' = Without(by_pid, {p})
  /\ exits' = Tail(exits)
  /\ UNCHANGED <<persistent, commands, wake, done, gpu_event, monitors, queue, supervised,
                streams, control, history>>

(* drain_pump_done: the EOF follows once the exit has been handled too.     *)
drain_pump_done(j) ==
  /\ pc = "pumps"
  /\ j \in done
  /\ done' = done \ {j}
  /\ IF j \in DOMAIN supervised /\ supervised[j].exited
     THEN Release(j, supervised[j].terminal)
     ELSE /\ supervised' = IF j \in DOMAIN supervised
                           THEN [supervised EXCEPT ![j].pump_done = TRUE] ELSE supervised
          /\ UNCHANGED <<streams, proc>>
  /\ UNCHANGED <<store, budget, commands, wake, exits, gpu_event, monitors, queue, by_pid, control,
                 history>>

-----------------------------------------------------------------------------
(* Stop, crash and recovery.                                                *)

(* The daemon goes away: its memory and threads with it.  Its children      *)
(* live on, its zombies are reaped by init.                                 *)
Crash ==
  /\ pc # "down"
  /\ budget.crash > 0
  /\ budget' = [budget EXCEPT !.crash = @ - 1]
  /\ proc' = [p \in {q \in DOMAIN proc : proc[q].alive} |-> [proc[p] EXCEPT !.child = FALSE]]
  /\ pc' = "down" /\ ret' = "wait" /\ launch' = NoLaunch /\ plan' = NoPlan
  /\ queue' = <<>> /\ supervised' = EmptyMap /\ by_pid' = EmptyMap /\ streams' = EmptyMap
  /\ commands' = <<>> /\ wake' = FALSE /\ exits' = <<>> /\ done' = {} /\ gpu_event' = FALSE
  /\ registry' = EmptyMap /\ pumping' = {}
  /\ skipped' = {} /\ due' = FALSE
  /\ UNCHANGED <<store, observed, misled>>

(* verify_identity_via_proc.                                                *)
verify_identity_via_proc(identity) ==
  CASE identity = NoIdentity -> "MISMATCH"
    [] identity # NoIdentity /\ identity.pid \notin DOMAIN proc -> "GONE"
    [] identity # NoIdentity /\ identity.pid \in DOMAIN proc ->
         IF proc[identity.pid].job = identity.ticks THEN "VERIFIED" ELSE "MISMATCH"

(* recover(): load and plan, with one reading of the clock for all jobs.    *)
Plan(now) ==
  LET decision == [j \in DOMAIN store.jobs |->
        RecoveryDecision(store.jobs[j], verify_identity_via_proc(store.jobs[j].identity))]
  IN  /\ Goto("down", "recover")
      /\ plan' = [decision |-> decision, todo |-> NeedsWrite(store.jobs, decision), now |-> now]
      /\ UNCHANGED <<persistent, channels, monitors, memory, ret, launch, history>>

(* recover(): one chunk of the plan.  A refused chunk fails the start.      *)
RecoverChunk(ok) ==
  LET chunk == NextChunk(store.leases, plan.todo, plan.decision)
      m     == RecoveryMutation(store, chunk, plan.decision, plan.now)
  IN  /\ pc = "recover"
      /\ plan.todo # {}
      /\ store' = Applied(store, m, ok)
      /\ IF Written(store, m, ok)
         THEN plan' = [plan EXCEPT !.todo = @ \ chunk] /\ UNCHANGED pc
         ELSE plan' = NoPlan /\ pc' = "down"
      /\ budget' = Spent(budget, "store", ok)
      /\ UNCHANGED <<proc, channels, monitors, memory, ret, launch, history>>

(* recover(): the queue is rebuilt, and the GPU manager takes its first,    *)
(* silent observation.  A refused restore fails the start.                  *)
RestoreQueue(obs) ==
  /\ pc = "recover"
  /\ plan.todo = {}
  /\ IF RestoreAccepted(store.jobs, store.leases, store.revision)
     THEN pc' = "adopt" /\ queue' = Restored(store.jobs) /\ UNCHANGED plan
     ELSE pc' = "down" /\ plan' = NoPlan /\ UNCHANGED queue
  /\ observed' = obs
  /\ UNCHANGED <<persistent, channels, registry, pumping, supervised, by_pid, streams, ret, launch,
                 history>>

(* A mutated adoption that forgets the jobs being cancelled.                *)
Survivors_NotStopping ==
  {j \in DOMAIN plan.decision : plan.decision[j] \in {"ADOPTED", "PROMOTED"}}

Survivors ==
  {j \in DOMAIN plan.decision : plan.decision[j] \in {"ADOPTED", "PROMOTED", "RECANCEL"}}

Adoptable ==
  {j \in Survivors : verify_identity_via_proc(store.jobs[j].identity) = "VERIFIED"}

pid_of(j) == store.jobs[j].identity.pid

AdoptedJob(j, outcome) ==
  LET job == [gpu |-> CHOOSE g \in leases_of(store.leases, j) : TRUE, pid |-> pid_of(j),
              phase |-> "RUNNING", timer |-> "OFF",
              cancelling |-> plan.decision[j] = "RECANCEL", adopted |-> TRUE,
              exited |-> FALSE, pump_done |-> FALSE, terminal |-> "FAILED"]
  IN  IF plan.decision[j] = "RECANCEL" THEN begin_cancellation(job, proc, TRUE, outcome) ELSE job

(* arm_recovery and the rest of start(): the verified survivors are         *)
(* supervised and watched again; one whose process went away meanwhile      *)
(* stays as it is, and so does one whose record cannot be loaded.  When the *)
(* registration fails, the supervisor that adopted the process is           *)
(* destroyed, and its destructor kills the process.  The timers of the      *)
(* refused are not armed.                                                   *)
Adopt(unloaded, unregistered, refused) ==
  LET adopted == Adoptable \ (unloaded \cup unregistered) IN
  /\ Goto("adopt", "wait")
  /\ unloaded \subseteq Adoptable
  /\ unregistered \subseteq Adoptable \ unloaded
  /\ refused \subseteq {j \in adopted : plan.decision[j] = "RECANCEL"}
  /\ Cardinality(unloaded) <= budget.store
  /\ Cardinality(unregistered) + Cardinality(refused) <= budget.launch
  /\ budget' = [budget EXCEPT !.store = @ - Cardinality(unloaded),
                              !.launch = @ - Cardinality(unregistered) - Cardinality(refused)]
  /\ supervised' = [j \in adopted |-> AdoptedJob(j, IF j \in refused THEN "REFUSED" ELSE "ARMED")]
  /\ by_pid' = [p \in {pid_of(j) : j \in adopted} |-> CHOOSE j \in adopted : pid_of(j) = p]
  /\ registry' = [p \in {pid_of(j) : j \in adopted} |->
                   [ticks |-> CHOOSE j \in adopted : pid_of(j) = p, adopted |-> TRUE]]
  /\ proc' = Without(proc, {pid_of(j) : j \in unregistered})
  /\ plan' = NoPlan
  /\ commands' = <<WAKE>> /\ wake' = TRUE
  /\ skipped' = unloaded /\ due' = TRUE
  /\ UNCHANGED <<store, exits, done, gpu_event, pumping, observed, queue, streams, ret, launch,
                 misled>>

-----------------------------------------------------------------------------

WorkerStep ==
  \/ WaitForWakeup
  \/ ChannelDrained
  \/ PostWake
  \/ \E created_ok, rollback_ok \in StoreOutcome : process_submit(created_ok, rollback_ok)
  \/ \E ok \in StoreOutcome, timer \in TimerOutcome : process_cancel(ok, timer)
  \/ \E ok \in StoreOutcome : ScheduleOnWake(ok)
  \/ \E ok \in StoreOutcome : ScheduleOnGpuEvent(ok)
  \/ LaunchLoadFails
  \/ \E ok \in StoreOutcome, now \in Clock : SpawnFails(ok, now)
  \/ \E p \in Pid : Spawn(p)
  \/ \E fault \in {"persist", "refused", "register", "attach"}, ok \in StoreOutcome,
       started, now \in Clock : PersistFails(fault, ok, started, now)
  \/ \E now \in Clock : Supervise(now)
  \/ \E ok \in StoreOutcome, now \in Clock : process_exit(ok, now)
  \/ DropExit
  \/ \E j \in done : drain_pump_done(j)

StartStep ==
  \/ \E now \in Clock : Plan(now)
  \/ \E ok \in StoreOutcome : RecoverChunk(ok)
  \/ \E obs \in Observations : RestoreQueue(obs)
  \/ \E unloaded, unregistered, refused \in SUBSET JobId : Adopt(unloaded, unregistered, refused)

EnvironmentStep ==
  \/ \E spec \in JobSpec : SubmitJob(spec)
  \/ \E j \in DOMAIN store.jobs : CancelJob(j)
  \/ \E p \in DOMAIN proc, status \in ExitStatus : ProcessExit(p, status)
  \/ \E j \in DOMAIN supervised : Escalate(j)
  \/ \E p \in DOMAIN registry : Scan(p)
  \/ \E j \in pumping : PumpDone(j)
  \/ \E obs \in Observations : Sample(obs)
  \/ Crash

Next == WorkerStep \/ StartStep \/ EnvironmentStep

Spec == Init /\ [][Next]_vars

(* The worker has nothing to do; anywhere else it can take a step, so       *)
(* ~Asleep is ENABLED WorkerStep.                                           *)
Asleep == ~Up \/ (pc = "wait" /\ ~wake)

(* Every thread that has something to do gets to do it: the worker, the     *)
(* reaper, the log pump (whose pipes close once the process is gone) and    *)
(* the grace timers.  A process need not end by itself, nor a GPU change.   *)
Fairness ==
  /\ []<>Asleep \/ []<><<WorkerStep>>_vars
  /\ WF_vars(\E p \in DOMAIN registry : Scan(p))
  /\ WF_vars(\E j \in pumping :
       (\A p \in DOMAIN proc : proc[p].job # j \/ ~proc[p].alive) /\ PumpDone(j))
  /\ WF_vars(\E j \in DOMAIN supervised : Escalate(j))

FairSpec == Spec /\ Fairness

-----------------------------------------------------------------------------
(* Properties.                                                              *)

Alive == {p \in DOMAIN proc : proc[p].alive}

(* The process of a launch whose identity was never stored: the daemon      *)
(* crashed between spawn and the RUNNING write, and recovery gave the job   *)
(* up as LOST without knowing the process (design 6.2).                     *)
Orphan(p) ==
  LET record == store.jobs[proc[p].job] IN record.state = "LOST" /\ ~has_identity(record)

(* Every running job process holds the lease of the GPU it runs on, through *)
(* launches, failures at every step, cancels, crashes and recoveries, and   *)
(* whatever pids the kernel uses again.  The exceptions are the orphan of   *)
(* the crash window and a job that was ended by the exit of another process *)
(* that had its pid before (job_manager.cpp:908 looks at nothing else).     *)
ProcessHoldsLease ==
  \A p \in Alive :
    \/ proc[p].gpu \in DOMAIN store.leases /\ store.leases[proc[p].gpu] = proc[p].job
    \/ Orphan(p)
    \/ proc[p].job \in misled

Since(record, time) ==
  /\ record.spec.submit_time <= time
  /\ record.start_time # NoTime => record.start_time <= time

(* The exit of a supervised job can always be recorded: whatever was        *)
(* cancelled, adopted or retried before, the terminal state process_exit    *)
(* would choose is one the store accepts, as long as the system clock has   *)
(* not been set back behind the job's submission or start.                  *)
ExitIsRecordable ==
  \A j \in DOMAIN supervised : ~supervised[j].exited =>
    \A verified \in BOOLEAN, status \in ExitStatus,
       now \in {t \in Clock : Since(store.jobs[j], t)} :
      Written(store, ExitMutation(store, j,
        [pid |-> supervised[j].pid, ticks |-> j, verified |-> verified, status |-> status], now),
        store.revision < MaxRevision)
      \/ store.revision = MaxRevision

(* The EOF a follower sees never contradicts the store: if the store holds  *)
(* a terminal state at all, it is the one published; and the EOF is not     *)
(* published before the log pump has drained the job's pipes.               *)
EofIsFinal ==
  \A j \in DOMAIN streams : streams[j] # "OPEN" =>
    /\ is_terminal(store.jobs[j].state) => streams[j] = store.jobs[j].state
    /\ j \notin pumping

(* While the daemon is up, every live job process is supervised and watched *)
(* for its exit, the one just being launched, the orphans, the misled and   *)
(* the ones the start could not load apart: nothing else slips through a    *)
(* launch, a cancel or an adoption.  Once its job is being cancelled its    *)
(* SIGKILL is ahead, also after a restart, which loses the grace timer,     *)
(* unless the executor refused the timer.                                   *)
WatchedWhileUp ==
  Up => \A p \in Alive :
    LET j == proc[p].job IN
    \/ Orphan(p)
    \/ launch.pid = p
    \/ j \in misled \cup skipped
    \/ /\ p \in DOMAIN by_pid /\ by_pid[p] = j
       /\ p \in DOMAIN registry /\ registry[p].ticks = j
       /\ store.jobs[j].state = "STOPPING" => supervised[j].timer # "OFF"

Board == INSTANCE JobBoard WITH
  Job <- JobId, Gpu <- GpuUuid, holder <- store.leases,
  board <- [j \in DOMAIN store.jobs |-> Standing(store.jobs[j].state)]

(* Through every interleaving, failure, crash and recovery the daemon is a  *)
(* board of jobs: a job waits, runs on a GPU of its own and ends once, the  *)
(* GPU is free in the step in which the job ends, and a job being stopped   *)
(* ends as CANCELLED or LOST, whatever status its process ends with.        *)
ImplementsJobBoard == Board!Spec

(* The worker never goes to sleep over work: whatever order submissions,    *)
(* exits, pump completions and GPU events arrive in, however many of their  *)
(* wakes are merged and however small the command channel that drops the    *)
(* triggers, when it waits with an empty pipe every queue is empty and a    *)
(* scheduling run has been made since the last event that calls for one.    *)
NoTriggerLost ==
  pc = "wait" /\ ~wake =>
    commands = <<>> /\ exits = <<>> /\ done = {} /\ ~gpu_event /\ ~due

(* Nothing is under way: the worker sleeps, no event is queued or due.      *)
AtRest ==
  /\ pc = "wait" /\ ~wake
  /\ \A p \in DOMAIN proc : proc[p].alive
  /\ \A p \in DOMAIN registry : p \in DOMAIN proc
  /\ commands = <<>> /\ exits = <<>> /\ done = {} /\ ~gpu_event

(* At rest the queued job that could be started is started: a launch that   *)
(* fails leaves the GPU to the next one.                                    *)
NoIdleGpuAtRest ==
  AtRest => Decision(queue, store.jobs, store.leases, observed).code # "SELECTED"

Stored(j) == j \in DOMAIN store.jobs

Over(j) == Stored(j) /\ is_terminal(store.jobs[j].state)

(* The log stream of a job that is over and whose process is gone gets its  *)
(* EOF, in whatever order the exit event and the pump's completion arrive.  *)
EofFollows ==
  \A j \in JobId :
    (Over(j) /\ j \in DOMAIN streams /\ \A p \in Alive : proc[p].job # j)
      ~> (j \in DOMAIN streams /\ streams[j] # "OPEN")

=============================================================================
