---------------------------- MODULE JobManagerInv ----------------------------
EXTENDS JobManager, StoreView
(***************************************************************************)
(* The inductive invariants of the job manager:                            *)
(*   BoardInv   the store and what the worker remembers of it,             *)
(*   ProcInv    the processes and everything that names one by its pid,    *)
(*   WatchInv   who waits for each process that is alive,                  *)
(*   EofInv     the log streams and their ends,                            *)
(*   WakeInv    what the worker still has to do before it sleeps.          *)
(* Each rests on the ones before it, and on what the steps do to the store *)
(* (StoreEffects, proved in BoardProofs) and to the processes (Effects,    *)
(* proved in ProcessProofs): the proofs of one invariant know the others'  *)
(* actions only through these.                                             *)
(***************************************************************************)

-----------------------------------------------------------------------------
(* The inductive invariant of the board.                                    *)

(* A supervised job is stored, and cancelling if it is being stopped: its   *)
(* exit is then written as CANCELLED.                                       *)
SupervisedOK(jobs, sup) ==
  \A j \in DOMAIN sup :
    /\ j \in DOMAIN jobs
    /\ "cancelling" \in DOMAIN sup[j] /\ sup[j].cancelling \in BOOLEAN
    /\ jobs[j].state = "STOPPING" => sup[j].cancelling

(* The job being launched holds its lease and has not been started.         *)
LaunchOK ==
  pc \in {"spawn", "persist"} =>
    /\ "job" \in DOMAIN launch
    /\ launch.job \in DOMAIN store.jobs /\ store.jobs[launch.job].state = "STARTING"

(* A job found STOPPING will be cancelled again.                            *)
PlanOK ==
  pc \in {"recover", "adopt"} =>
    /\ {"decision", "todo"} \subseteq DOMAIN plan
    /\ \A j \in DOMAIN plan.decision :
         /\ j \in DOMAIN store.jobs
         /\ store.jobs[j].state = "STOPPING" => plan.decision[j] \notin {"ADOPTED", "PROMOTED"}
    /\ \A j \in plan.todo : plan.decision[j] \in {"LOST", "PROMOTED"}

(* What every step keeps, and what makes every step one of the board.       *)
BoardInv ==
  /\ StoreOK(store)
  /\ SupervisedOK(store.jobs, supervised)
  /\ LaunchOK
  /\ PlanOK
  /\ ret \in {"wait", "commands", "exits"}
  /\ DOMAIN observed = GpuUuid

-----------------------------------------------------------------------------
(* What the steps do to the store, action by action.                        *)

(* A cancel that reaches the supervisor finds or leaves the job STOPPING.   *)
CancelStore ==
  LET j == Head(commands).job IN
  /\ Cancelled(store, store', j)
  /\ supervised' # supervised => store'.jobs[j].state = "STOPPING"

(* The worker goes back to the loop, or launches a job it has just started. *)
ScheduleStore ==
  \/ store' = store /\ pc' \notin {"spawn", "persist"}
  \/ /\ pc' = "spawn" /\ DOMAIN launch' = {"job", "gpu", "pid"}
     /\ Started(store, store', launch'.job, launch'.gpu)

LaunchedIdentity == [pid |-> launch.pid, ticks |-> launch.job]

(* A launch that fails may have got as far as RUNNING.                      *)
PersistStore ==
  \E s : /\ Wrote(store, s, launch.job, "RUNNING", LaunchedIdentity)
         /\ Wrote(s, store', launch.job, "FAILED", s.jobs[launch.job].identity)

ExitStore ==
  LET j == by_pid[Head(exits).pid] IN
  /\ j \in DOMAIN store.jobs
  /\ Wrote(store, store', j, TerminalOf(supervised[j], Head(exits)), store.jobs[j].identity)

RecoverStore ==
  \/ store' = store /\ pc' = "down"
  \/ \E chunk \in SUBSET plan.todo :
       /\ Chunked(store, store', chunk, plan.decision)
       /\ pc' = pc /\ plan' = [plan EXCEPT !.todo = @ \ chunk]

StoreEffects ==
  /\ \A created_ok, rollback_ok : process_submit(created_ok, rollback_ok) => Submitted(store, store')
  /\ \A ok, timer : process_cancel(ok, timer) => CancelStore
  /\ \A ok : ScheduleOnWake(ok) \/ ScheduleOnGpuEvent(ok) => ScheduleStore
  /\ \A ok, now : SpawnFails(ok, now) =>
       Wrote(store, store', launch.job, "FAILED", store.jobs[launch.job].identity)
  /\ \A fault, ok, started, now : PersistFails(fault, ok, started, now) => PersistStore
  /\ \A now : Supervise(now) => Wrote(store, store', launch.job, "RUNNING", LaunchedIdentity)
  /\ \A ok, now : process_exit(ok, now) => ExitStore
  /\ \A ok : RecoverChunk(ok) => RecoverStore

-----------------------------------------------------------------------------
(* The inductive invariant of the processes.                                *)

Status == ExitStatus \cup {"SUCCESS", "FAILURE"}

Process == [job : JobId, gpu : GpuUuid, child : BOOLEAN, alive : BOOLEAN, status : Status]

ExitEvent == [pid : Pid, ticks : JobId, verified : BOOLEAN, status : Status]

(* The jobs that have left the queue and are not being launched.            *)
Begun ==
  {j \in DOMAIN store.jobs :
     store.jobs[j].state # "QUEUED" /\ ~(pc \in {"spawn", "persist"} /\ j = launch.job)}

(* Recovery gave the job up without knowing its process.                    *)
GivenUp(s, j) == s.jobs[j].state = "LOST" /\ ~has_identity(s.jobs[j])

(* A stored identity is that of the job's own process.                      *)
RecordsOK(s) ==
  \A j \in DOMAIN s.jobs :
    /\ s.jobs[j].state = "QUEUED" => ~has_identity(s.jobs[j])
    /\ has_identity(s.jobs[j]) => s.jobs[j].identity.ticks = j

(* Each process belongs to a job of the store, which knows its pid or none, *)
(* and holds the lease of its GPU if it is alive and nobody misled the      *)
(* worker about it.                                                         *)
ProcOK(s, ps, M) ==
  \A p \in DOMAIN ps :
    /\ p \in Pid /\ ps[p] \in Process
    /\ ps[p].job \in DOMAIN s.jobs /\ s.jobs[ps[p].job].state # "QUEUED"
    /\ s.jobs[ps[p].job].identity \in {NoIdentity, [pid |-> p, ticks |-> ps[p].job]}
    /\ ps[p].alive =>
         Holds(s, ps[p].gpu, ps[p].job) \/ GivenUp(s, ps[p].job) \/ ps[p].job \in M

(* If the job j has a process at all, it has the pid p.                     *)
OnlyAt(j, p, ps) == \A q \in DOMAIN ps : ps[q].job = j => q = p

(* No two processes are of one job.                                         *)
Apart(ps) == \A p \in DOMAIN ps : OnlyAt(ps[p].job, p, ps)

(* The exit monitor watches processes of the jobs B by their own pids, ...  *)
RegistryOK(reg, B, ps) ==
  \A p \in DOMAIN reg : p \in Pid /\ reg[p].ticks \in B /\ OnlyAt(reg[p].ticks, p, ps)

(* ... reports only exits of processes that are gone, ...                   *)
EventsOK(es, B, ps) ==
  /\ es \in Seq(ExitEvent)
  /\ \A i \in 1 .. Len(es) : es[i].ticks \in B /\ \A q \in DOMAIN ps : ps[q].job # es[i].ticks

(* ... and the worker looks up a job whose only process has the pid.        *)
PidsOK(by, B, ps) == \A p \in DOMAIN by : by[p] \in B /\ OnlyAt(by[p], p, ps)

(* The launch has its lease, and its process once it has spawned.           *)
LaunchProc ==
  pc \in {"spawn", "persist"} =>
    /\ DOMAIN launch = {"job", "gpu", "pid"}
    /\ Holds(store, launch.gpu, launch.job)
    /\ ~has_identity(store.jobs[launch.job])
    /\ pc = "persist" => /\ launch.pid \in DOMAIN proc
                         /\ proc[launch.pid].job = launch.job /\ proc[launch.pid].child

(* A job is given up only if its process is gone or not known.              *)
PlanProc ==
  pc = "recover" =>
    \A j \in DOMAIN store.jobs, p \in DOMAIN proc :
      plan.decision[j] = "LOST" /\ has_identity(store.jobs[j]) => proc[p].job # j

ProcInv ==
  /\ RecordsOK(store)
  /\ ProcOK(store, proc, misled) /\ Apart(proc)
  /\ \A p \in DOMAIN proc : proc[p].job \in Begun \/ (pc = "persist" /\ p = launch.pid)
  /\ RegistryOK(registry, Begun, proc)
  /\ EventsOK(exits, Begun, proc)
  /\ PidsOK(by_pid, Begun, proc)
  /\ LaunchProc /\ PlanProc

-----------------------------------------------------------------------------
(* What the steps do to the records and the processes.                      *)

(* Processes only go away, but for a spawn.                                 *)
Fewer(ps, qs) ==
  /\ DOMAIN qs \subseteq DOMAIN ps
  /\ \A p \in DOMAIN qs :
       /\ qs[p] \in Process
       /\ qs[p].job = ps[p].job /\ qs[p].gpu = ps[p].gpu
       /\ qs[p].alive => ps[p].alive

(* Every record of s is the same in t.                                      *)
Grown(s, t) == \A k \in DOMAIN s.jobs : k \in DOMAIN t.jobs /\ t.jobs[k] = s.jobs[k]

(* The worker goes back to the loop, or launches a job it has just started. *)
Scheduled ==
  \/ store' = store /\ pc' \notin {"spawn", "persist"}
  \/ pc' = "spawn" /\ launch'.job \notin Begun /\ OnlyOf(store, store', launch'.job)

(* The job j has ended as the exit asks for, unless the write failed, and   *)
(* has no process unless the exit was not its own.                          *)
EndedByExit(j) ==
  /\ j \in Begun /\ OnlyOf(store, store', j)
  /\ j \in misled' \/ \A q \in DOMAIN proc : proc[q].job # j
  /\ store' = store \/ store'.jobs[j].state = TerminalOf(supervised[j], Head(exits))

(* What one step does, action by action.                                    *)
Effects ==
  /\ \A created_ok, rollback_ok : process_submit(created_ok, rollback_ok) => Grown(store, store')
  /\ \A ok, timer : process_cancel(ok, timer) => CancelStore
  /\ \A ok : ScheduleOnWake(ok) \/ ScheduleOnGpuEvent(ok) => Scheduled
  /\ \A ok, now : SpawnFails(ok, now) => OnlyOf(store, store', launch.job)
  /\ \A fault, ok, started, now : PersistFails(fault, ok, started, now) =>
       OnlyOf(store, store', launch.job)
  /\ \A ok, now : process_exit(ok, now) => EndedByExit(by_pid[Head(exits).pid])
  /\ \A p \in DOMAIN proc, status \in ExitStatus : ProcessExit(p, status) => Fewer(proc, proc')
  /\ \A j \in DOMAIN supervised : Escalate(j) =>
       /\ Fewer(proc, proc')
       /\ \A p \in DOMAIN proc' : p = supervised[j].pid => ~proc'[p].alive
  /\ \A p \in DOMAIN registry : Scan(p) => Fewer(proc, proc')

(* What the other proofs use of ProcInv.                                    *)
ProcFacts ==
  /\ Fewer(proc, proc) /\ \A S : Fewer(proc, Without(proc, S))
  /\ pc \in {"spawn", "persist"} =>
       \A p \in DOMAIN proc : proc[p].job = launch.job => pc = "persist" /\ p = launch.pid
  /\ pc = "adopt" =>
       \A j \in Adoptable : j \in Begun /\ pid_of(j) \in DOMAIN proc /\ proc[pid_of(j)].job = j

Fields ==
  {"gpu", "pid", "phase", "timer", "cancelling", "adopted", "exited", "pump_done", "terminal"}

JobsOK(jobs) ==
  \A j \in DOMAIN jobs : DOMAIN jobs[j] = Fields /\ jobs[j].phase \in {"RUNNING", "TERMINATING"}

-----------------------------------------------------------------------------
(* The inductive invariant of the watch.                                    *)

(* The worker and the exit monitor know the process p as that of its job,   *)
(* the worker stops it only if the store says so, and a job the store says  *)
(* is being stopped has been given its grace timer.                         *)
Watched(p) ==
  LET j == proc[p].job IN
  /\ p \in DOMAIN by_pid /\ by_pid[p] = j
  /\ p \in DOMAIN registry /\ registry[p].ticks = j
  /\ j \in DOMAIN supervised /\ supervised[j].pid = p
  /\ supervised[j].cancelling => store.jobs[j].state = "STOPPING"
  /\ store.jobs[j].state = "STOPPING" => supervised[j].timer # "OFF"

Attended(p) ==
  \/ GivenUp(store, proc[p].job)
  \/ proc[p].job \in misled \cup skipped
  \/ pc = "persist" /\ launch.pid = p
  \/ Watched(p)

(* During the start: recovery is going to adopt p or to give its job up.    *)
Planned(p) ==
  LET j == proc[p].job IN
  \/ GivenUp(store, j)
  \/ j \in misled
  \/ j \in Survivors /\ store.jobs[j].identity = [pid |-> p, ticks |-> j]
  \/ pc = "recover" /\ j \in plan.todo /\ plan.decision[j] = "LOST"

WatchInv ==
  /\ JobsOK(supervised)
  /\ Up => \A p \in DOMAIN proc : proc[p].alive => Attended(p)
  /\ ~Up => supervised = EmptyMap
  /\ pc \in {"recover", "adopt"} =>
       /\ DOMAIN plan.decision = DOMAIN store.jobs
       /\ \A j \in Survivors :
            /\ leaseable(store.jobs[j].state)
            /\ plan.decision[j] = "RECANCEL" => store.jobs[j].state = "STOPPING"
       /\ \A p \in DOMAIN proc : proc[p].alive => Planned(p)

-----------------------------------------------------------------------------
(* The inductive invariant of the log streams.                              *)

(* A supervised job ends in the store as its exit said, or not at all.      *)
Ending(j) ==
  /\ ~supervised[j].exited => ~is_terminal(store.jobs[j].state)
  /\ supervised[j].exited =>
       /\ is_terminal(store.jobs[j].state) => store.jobs[j].state = supervised[j].terminal
       /\ \A p \in DOMAIN by_pid : by_pid[p] # j
  /\ supervised[j].adopted \/ supervised[j].pump_done => j \notin pumping

(* The stream of j has had its EOF: nobody works on the job any more.       *)
Closed(j) ==
  /\ j \notin DOMAIN supervised /\ j \notin pumping
  /\ is_terminal(store.jobs[j].state) => streams[j] = store.jobs[j].state

EofInv ==
  /\ DOMAIN supervised \cup pumping \cup done \subseteq Begun
  /\ pumping \cap done = {}
  /\ \A p, q \in DOMAIN by_pid : by_pid[p] = by_pid[q] => p = q
  /\ \A j \in DOMAIN supervised : Ending(j)
  /\ \A j \in DOMAIN streams : /\ j \in Begun \/ (pc = "persist" /\ j = launch.job)
                               /\ streams[j] # "OPEN" => Closed(j)
  /\ pc = "persist" => launch.job \in DOMAIN streams /\ streams[launch.job] = "OPEN"
  /\ ~Up => DOMAIN streams = {} /\ pumping = {} /\ done = {}

-----------------------------------------------------------------------------
(* The inductive invariant of the wakes.                                    *)

(* The worker's round comes by one of these control points again.           *)
Ahead(points) == pc \in points \/ (pc \in {"post", "spawn", "persist"} /\ ret \in points)

Command ==
  {WAKE} \cup [kind : {"SUBMIT"}, spec : JobSpec] \cup [kind : {"CANCEL"}, job : JobId]

(* What is in a queue is announced in the wake pipe or ahead in this round, *)
(* and a run that is due is about to be posted or has its trigger queued.   *)
WakeInv ==
  /\ commands \in Seq(Command)
  /\ Up =>
       /\ commands # <<>> => wake \/ Ahead({"commands"})
       /\ exits # <<>> => wake \/ Ahead({"commands", "exits"})
       /\ done # {} => wake \/ Ahead({"commands", "exits", "pumps"})
       /\ gpu_event => wake \/ Ahead({"commands", "exits", "pumps", "gpu"})
       /\ due => pc = "post" \/ commands # <<>> \/ gpu_event

=============================================================================
