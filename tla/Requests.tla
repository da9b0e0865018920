------------------------------ MODULE Requests ------------------------------
(***************************************************************************)
(* The life of a request: runs of the command line client, the single IPC  *)
(* worker that answers them (IpcService::handle behind IpcServer), and the *)
(* job manager, the only writer, to which SUBMIT and CANCEL are delegated  *)
(* through a bounded channel with a time limit on the answer               *)
(* (JobManager::submit_job and cancel_job).                                *)
(*                                                                         *)
(* The transport is IpcExchange's, processes and their supervision are     *)
(* JobManager's and Supervision's: here a client gets its response or      *)
(* gives up, and a launched job ends when it ends.  Restarts are left to   *)
(* Scheduling and JobManager.                                              *)
(***************************************************************************)
EXTENDS IpcService, YoriCli

CONSTANTS
  Invocations,       \* the command lines that may come n-th, as [uid, line]
  OtherRequests,     \* the requests of other clients that may, as [uid, request]
  Environ,           \* the environment of each user's shell
  Cwd,               \* the working directory of each user's shell
  Clock,             \* the readings of the system clock
  Observation,       \* the GPU observations that may be published
  CommandCapacity,   \* the capacity of the command channel
  MaxRuns,           \* bound: requests made
  MaxObservations,   \* bound: observations published
  MaxFaults          \* bound: store operations and launches that fail

ASSUME RequestsAssumption == {CommandCapacity, MaxRuns, MaxObservations, MaxFaults} \subseteq Nat

VARIABLES
  store,        \* the persistent state
  queue,        \* GlobalJobQueue's entries
  observed,     \* the latest GPU observation
  gpu_event,    \* a change of a GPU's state waits for the manager
  evaluation,   \* the evaluation mailbox
  commands,     \* the manager's command channel
  manager,      \* the manager's worker: where it is, and with which job
  server,       \* the IPC worker: where it is, with which run, what it read
  runs,         \* the requests made, in the order of their arrival
  made,         \* history: the run each job was created for
  plans,        \* history: what each launched job was started with, and whether its
                \* GPU was observed then (seen)
  budget        \* what is left of the bounds

daemon == <<store, queue, evaluation, manager, made, plans>>
vars == <<daemon, observed, gpu_event, commands, server, runs, budget>>

Nothing == Response("NONE", "NONE")
Idle == [at |-> "idle", job |-> 0, gpu |-> NoGpu, run |-> 0]

Init ==
  /\ store = EmptyStore /\ queue = <<>>
  /\ observed \in Observation \cup {NoObservation}
  /\ gpu_event = FALSE
  /\ evaluation = {}
  /\ commands = <<>>
  /\ manager = Idle
  /\ server = [at |-> "idle", run |-> 0, held |-> {}]
  /\ runs = <<>>
  /\ made = EmptyMap /\ plans = EmptyMap
  /\ budget = [observe |-> MaxObservations, fault |-> MaxFaults]

Spend(what) == budget[what] > 0 /\ budget' = [budget EXCEPT ![what] = @ - 1]

(* ok: the step's store operation succeeds; a failure is paid for.          *)
Outcome(ok) == IF ok THEN UNCHANGED budget ELSE Spend("fault")

-----------------------------------------------------------------------------
(* The clients.                                                             *)

Run(uid, line, request, code) ==
  [uid |-> uid, line |-> line, request |-> request,
   at |-> IF request.kind = "NONE" THEN "done" ELSE "waiting",
   code |-> code, response |-> Nothing, ack |-> <<>>]

(* The requests the IPC worker has yet to read; one at a time is enough,    *)
(* since only the order in which they arrive matters.                       *)
Unread == {r \in server.run + 1 .. Len(runs) : runs[r].request.kind # "NONE"}

(* `yori` is run; a line that is no request ends here.                      *)
Invoke(i) ==
  LET command == Command(i.line, Environ[i.uid], Cwd[i.uid]) IN
  /\ runs' = Append(runs, Run(i.uid, i.line, command.request, command.code))
  /\ UNCHANGED <<daemon, observed, gpu_event, commands, server, budget>>

Connect(i) ==
  /\ runs' = Append(runs, Run(i.uid, <<>>, i.request, kExitOk))
  /\ UNCHANGED <<daemon, observed, gpu_event, commands, server, budget>>

(* The client's own limit (kCallTimeoutMs) passes first, or it is killed.   *)
(* The request is in the socket and will be served all the same, so that it *)
(* makes no difference whether this happens before the service begins.      *)
GiveUp(r) ==
  /\ runs[r].at = "waiting" /\ server.run = r
  /\ runs' = [runs EXCEPT ![r].at = "done", ![r].code = kExitTransport]
  /\ UNCHANGED <<daemon, observed, gpu_event, commands, server, budget>>

(* command_logs_follow: the stream ends in BACKPRESSURE, in EOF, which the  *)
(* daemon sends for a job that has ended, or with the connection.           *)
FollowEnds(r) ==
  LET state == store.jobs[runs[r].response.job].state
      codes == {kExitBackpressure, kExitTransport}
                 \cup CASE state = "FINISHED" -> {kExitOk}
                        [] is_terminal(state) /\ state # "FINISHED" -> {kExitRequestFailed}
                        [] ~is_terminal(state) -> {}
  IN  /\ runs[r].at = "following"
      /\ \E code \in codes : runs' = [runs EXCEPT ![r].at = "done", ![r].code = code]
      /\ UNCHANGED <<daemon, observed, gpu_event, commands, server, budget>>

-----------------------------------------------------------------------------
(* The IPC worker: one request after the other.                             *)

(* The response reaches the client, unless that has given up.               *)
Respond(r, response) ==
  /\ server' = [at |-> "idle", run |-> r, held |-> {}]
  /\ runs' = IF runs[r].at # "waiting" THEN runs
             ELSE IF response.kind = "LOGS_FOLLOW" /\ response.error = "NONE"
             THEN [runs EXCEPT ![r].at = "following", ![r].response = response]
             ELSE [runs EXCEPT ![r].at = "done", ![r].response = response,
                               ![r].code = Report(response).code]

Hold(r, value) ==
  /\ server' = [at |-> "read", run |-> r, held |-> value]
  /\ UNCHANGED runs

(* submit_job and cancel_job: a full channel is reported at once.           *)
Delegate(r, command) ==
  IF Len(commands) < CommandCapacity
  THEN /\ commands' = Append(commands, command)
       /\ server' = [at |-> "ack", run |-> r, held |-> {}]
       /\ UNCHANGED runs
  ELSE Respond(r, Response(runs[r].request.kind, "NOT_AVAILABLE")) /\ UNCHANGED commands

(* The run r is the next one whose request the worker reads.                *)
IsNext(r) ==
  /\ server.at = "idle"
  /\ r \in Unread /\ \A k \in Unread : r <= k

HandleSubmit(r, now) ==
  LET h == handle_submit(runs[r].uid, runs[r].request, observed, now) IN
  /\ IsNext(r) /\ runs[r].request.kind = "SUBMIT"
  /\ IF h.error = "NONE"
     THEN Delegate(r, [kind |-> "SUBMIT", run |-> r, spec |-> h.spec, job |-> 0])
     ELSE Respond(r, Response("SUBMIT", h.error)) /\ UNCHANGED commands
  /\ UNCHANGED <<daemon, observed, gpu_event, budget>>

HandleCancel(r) ==
  LET j        == runs[r].request.job
      response == handle_cancel(runs[r].uid, store.jobs, j)
  IN  /\ IsNext(r) /\ runs[r].request.kind = "CANCEL"
      /\ IF response.error = "DELEGATE"
         THEN Delegate(r, [kind |-> "CANCEL", run |-> r, spec |-> {}, job |-> j])
         ELSE Respond(r, response) /\ UNCHANGED commands
      /\ UNCHANGED <<daemon, observed, gpu_event, budget>>

(* The handlers that answer from one snapshot of the store.                 *)
HandleLookup(r, readable) ==
  LET uid == runs[r].uid
      q   == runs[r].request
  IN  /\ IsNext(r) /\ q.kind \in {"LOGS", "LOGS_FOLLOW", "TENSORBOARD"}
      /\ q.kind # "LOGS" => readable
      /\ Respond(r, IF q.kind = "TENSORBOARD" THEN handle_tensorboard(uid, store.jobs, q.job)
                    ELSE handle_logs(q.kind, uid, store.jobs, q.job, readable))
      /\ UNCHANGED <<daemon, observed, gpu_event, commands, budget>>

(* The first reading of the handlers that read twice.                       *)
ReadFirst(r) ==
  LET kind == runs[r].request.kind IN
  /\ IsNext(r)
  /\ \/ kind \in {"PS", "QUEUE"} /\ Hold(r, store.jobs)
     \/ /\ kind = "GPU"
        /\ IF observed = NoObservation THEN Respond(r, Response("GPU", "NOT_AVAILABLE"))
                                       ELSE Hold(r, observed)
     \/ kind = "INSPECT" /\ Hold(r, store)
  /\ UNCHANGED <<daemon, observed, gpu_event, commands, budget>>

(* The second reading, and the answer.                                      *)
ReadSecond ==
  LET r == server.run
      q == runs[r].request
  IN  /\ server.at = "read"
      /\ Respond(r,
           CASE q.kind = "PS"      -> handle_ps(runs[r].uid, server.held, evaluation)
             [] q.kind = "QUEUE"   -> handle_queue(runs[r].uid, server.held, evaluation)
             [] q.kind = "GPU"     -> handle_gpu(server.held, store.leases)
             [] q.kind = "INSPECT" -> handle_inspect(runs[r].uid, server.held, q.job, observed))
      /\ UNCHANGED <<daemon, observed, gpu_event, commands, budget>>

(* Every handler but SUBMIT's answers a failed load with STORE_FAILED.      *)
LoadFails(r) ==
  /\ IsNext(r) /\ runs[r].request.kind # "SUBMIT"
  /\ Spend("fault")
  /\ Respond(r, Response(runs[r].request.kind, "STORE_FAILED"))
  /\ UNCHANGED <<daemon, observed, gpu_event, commands>>

(* The manager's answer arrives.                                            *)
Acknowledged ==
  LET r   == server.run
      ack == runs[r].ack[1]
  IN  /\ server.at = "ack" /\ runs[r].ack # <<>>
      /\ Respond(r, [Response(runs[r].request.kind, ack.error) EXCEPT
                       !.job = ack.job, !.state = ack.state])
      /\ UNCHANGED <<daemon, observed, gpu_event, commands, budget>>

(* A mutated wait without a limit.                                          *)
AckTimesOut_Never == FALSE /\ UNCHANGED vars

(* ack_timeout passes first; the command stays in the channel.              *)
AckTimesOut ==
  /\ server.at = "ack" /\ runs[server.run].ack = <<>>
  /\ Respond(server.run, Response(runs[server.run].request.kind, "NOT_AVAILABLE"))
  /\ UNCHANGED <<daemon, observed, gpu_event, commands, budget>>

-----------------------------------------------------------------------------
(* The job manager.                                                         *)

Ack(error, job, state) == [error |-> error, job |-> job, state |-> state]

(* A mutated acknowledgement through one slot shared by all commands: it    *)
(* answers whatever the IPC worker waits for now.                           *)
set_value_Shared(r, ack) ==
  IF server.at = "ack" THEN runs' = [runs EXCEPT ![server.run].ack = <<ack>>]
                       ELSE UNCHANGED runs

(* Every command carries its own promise; an abandoned one is set in vain.  *)
set_value(r, ack) == runs' = [runs EXCEPT ![r].ack = <<ack>>]

Command1(kind) == manager.at = "idle" /\ commands # <<>> /\ Head(commands).kind = kind

Go(at, job, gpu, run) == manager' = [at |-> at, job |-> job, gpu |-> gpu, run |-> run]

(* process_submit up to the admission.                                      *)
process_submit(ok) ==
  LET c       == Head(commands)
      j       == next_job_id(store.jobs)
      create  == CreateMutation(store, j, c.spec)
      created == Applied(store, create, ok)
  IN  /\ Command1("SUBMIT")
      /\ commands' = Tail(commands)
      /\ IF ~Written(store, create, ok)
         THEN /\ set_value(c.run, Ack("STORE_FAILED", 0, "NONE"))
              /\ Go("wake", 0, NoGpu, 0)
              /\ UNCHANGED <<store, queue, made>>
         ELSE /\ store' = created
              /\ made' = Overlay(made, [k \in {j} |-> c.run])
              /\ IF AdmitAccepted(queue, j, created.jobs[j])
                 THEN /\ queue' = Admitted(queue, Entry(j, created.jobs[j]))
                      /\ set_value(c.run, Ack("NONE", j, "NONE"))
                      /\ Go("wake", 0, NoGpu, 0)
                 ELSE /\ Go("rollback", j, NoGpu, c.run)
                      /\ UNCHANGED <<queue, runs>>
      /\ Outcome(ok)
      /\ UNCHANGED <<evaluation, plans, observed, gpu_event, server>>

(* The rest of process_submit for a job the queue refused.                  *)
RollBack(ok) ==
  /\ manager.at = "rollback"
  /\ store' = Applied(store, MoveMutation(store, manager.job, "CANCELLED"), ok)
  /\ set_value(manager.run, Ack("QUEUE_REJECTED", 0, "NONE"))
  /\ Go("wake", 0, NoGpu, 0)
  /\ Outcome(ok)
  /\ UNCHANGED <<queue, evaluation, made, plans, observed, gpu_event, commands, server>>

(* A mutated process_cancel that reports success before it has written.     *)
CancelAck_Early(state, wrote) ==
  CASE state = "QUEUED" -> Ack("NONE", 0, "CANCELLED")
    [] state \in {"STARTING", "RUNNING", "STOPPING"} -> Ack("NONE", 0, "STOPPING")
    [] state = "CANCELLED" -> Ack("NONE", 0, "CANCELLED")
    [] state \in Terminal \ {"CANCELLED"} -> Ack("INVALID_STATE", 0, state)

(* What process_cancel answers, given the state it found.                   *)
CancelAck(state, wrote) ==
  CASE state \in {"QUEUED", "STARTING", "RUNNING"} /\ ~wrote -> Ack("STORE_FAILED", 0, "NONE")
    [] state = "QUEUED" /\ wrote -> Ack("NONE", 0, "CANCELLED")
    [] state \in {"STARTING", "RUNNING"} /\ wrote -> Ack("NONE", 0, "STOPPING")
    [] state = "STOPPING" -> Ack("NONE", 0, "STOPPING")
    [] state = "CANCELLED" -> Ack("NONE", 0, "CANCELLED")
    [] state \in Terminal \ {"CANCELLED"} -> Ack("INVALID_STATE", 0, state)

process_cancel(ok) ==
  LET c     == Head(commands)
      state == store.jobs[c.job].state
      to    == IF state = "QUEUED" THEN "CANCELLED" ELSE "STOPPING"
      m     == MoveMutation(store, c.job, to)
      moves == state \in {"QUEUED", "STARTING", "RUNNING"}
      wrote == moves /\ Written(store, m, ok)
  IN  /\ Command1("CANCEL")
      /\ ~ok => moves
      /\ commands' = Tail(commands)
      /\ store' = IF wrote THEN Applied(store, m, TRUE) ELSE store
      /\ queue' = IF wrote /\ state = "QUEUED" THEN Removed(queue, c.job) ELSE queue
      /\ set_value(c.run, CancelAck(state, wrote))
      /\ Go("wake", 0, NoGpu, 0)
      /\ Outcome(ok)
      /\ UNCHANGED <<evaluation, made, plans, observed, gpu_event, server>>

(* post_wake: dropped when producers have filled the channel meanwhile.     *)
post_wake ==
  /\ manager.at = "wake"
  /\ commands' = IF Len(commands) < CommandCapacity
                 THEN Append(commands, [kind |-> "WAKE", run |-> 0, spec |-> {}, job |-> 0])
                 ELSE commands
  /\ manager' = Idle
  /\ UNCHANGED <<store, queue, evaluation, made, plans, observed, gpu_event, server, runs, budget>>

(* schedule_now up to the launch: the evaluation is published when a job    *)
(* was started or none could be.                                            *)
schedule_now(ok) ==
  LET d == Decision(queue, store.jobs, store.leases, observed)
      m == StartMutation(store.jobs, store.revision, d.job, d.gpu)
      e == Evaluation(queue, store.jobs, store.leases, observed)
      stays == /\ UNCHANGED <<store, queue, manager>>
               /\ ok /\ UNCHANGED budget
  IN  CASE observed = NoObservation -> stays /\ UNCHANGED evaluation
        [] observed # NoObservation /\ (queue = <<>> \/ d.code = "DIVERGED") ->
             stays /\ UNCHANGED evaluation
        [] observed # NoObservation /\ queue # <<>> /\ d.code = "NO_CANDIDATE" ->
             stays /\ evaluation' = e
        [] observed # NoObservation /\ queue # <<>> /\ d.code = "SELECTED" ->
             /\ store' = Applied(store, m, ok)
             /\ IF Written(store, m, ok)
                THEN /\ queue' = Removed(queue, d.job)
                     /\ evaluation' = e
                     /\ Go("launch", d.job, d.gpu, 0)
                ELSE /\ queue' = Admitted(Removed(queue, d.job), Entry(d.job, store.jobs[d.job]))
                     /\ UNCHANGED <<evaluation, manager>>
             /\ Outcome(ok)

Wake(ok) ==
  /\ Command1("WAKE")
  /\ commands' = Tail(commands)
  /\ schedule_now(ok)
  /\ UNCHANGED <<made, plans, observed, gpu_event, server, runs>>

drain_gpu_events(ok) ==
  /\ manager.at = "idle" /\ gpu_event
  /\ gpu_event' = FALSE
  /\ schedule_now(ok)
  /\ UNCHANGED <<made, plans, observed, commands, server, runs>>

IsObserved(g) == observed # NoObservation /\ g \in DOMAIN observed

(* launch_scheduled reads the observation again for the physical index; a   *)
(* GPU that has left the observation since it was leased gets index 0.      *)
PhysicalIndex(g) == IF IsObserved(g) THEN GpuIndex[g] ELSE 0

launch_scheduled(ok, identity, now) ==
  LET j        == manager.job
      g        == manager.gpu
      spec     == store.jobs[j].spec
      prepared == /\ Resolvable(spec.owner)
                  /\ Preparable(j, spec, g, PhysicalIndex(g))
      running  == RewriteMutation(store, j, Running(store.jobs[j], identity, now), {})
  IN  /\ manager.at = "launch"
      /\ IF prepared /\ ok
         THEN /\ store' = Applied(store, running, TRUE)
              /\ plans' = Overlay(plans, [k \in {j} |->
                   Plan(j, spec, g, PhysicalIndex(g)) @@ [seen |-> IsObserved(g)]])
         ELSE /\ store' = Applied(store, EndMutation(store, j, g, "FAILED", NoExit, now), TRUE)
              /\ UNCHANGED plans
      /\ prepared => Outcome(ok)
      /\ ~prepared => ok /\ UNCHANGED budget
      /\ manager' = Idle
      /\ UNCHANGED <<queue, evaluation, made, observed, gpu_event, commands, server, runs>>

(* A mutated process_exit that leaves the next evaluation to somebody else. *)
WakeAfterExit_Never == Go("idle", 0, NoGpu, 0)

WakeAfterExit == Go("wake", 0, NoGpu, 0)

(* process_exit: a job being cancelled ends as CANCELLED.                   *)
process_exit(j, exit, now) ==
  LET state == store.jobs[j].state
      end   == CASE state = "STOPPING" -> "CANCELLED"
                 [] state # "STOPPING" /\ exit = "SUCCESS" -> "FINISHED"
                 [] state # "STOPPING" /\ exit # "SUCCESS" -> "FAILED"
  IN  /\ manager.at = "idle"
      /\ state \in {"RUNNING", "STOPPING"}
      /\ \E g \in leases_of(store.leases, j) :
           store' = Applied(store, EndMutation(store, j, g, end, exit, now), TRUE)
      /\ WakeAfterExit
      /\ UNCHANGED <<queue, evaluation, made, plans, observed, gpu_event, commands, server, runs,
                     budget>>

(* The GPU manager publishes another observation.                           *)
Observe(obs) ==
  /\ obs # observed
  /\ Spend("observe")
  /\ observed' = obs
  /\ gpu_event' = TRUE
  /\ UNCHANGED <<daemon, commands, server, runs>>

ServerStep ==
  \/ \E r \in DOMAIN runs :
       \/ \E now \in Clock : HandleSubmit(r, now)
       \/ HandleCancel(r)
       \/ \E readable \in BOOLEAN : HandleLookup(r, readable)
       \/ ReadFirst(r)
       \/ LoadFails(r)
  \/ ReadSecond \/ Acknowledged \/ AckTimesOut

ManagerStep ==
  \/ \E ok \in BOOLEAN :
       \/ process_submit(ok) \/ RollBack(ok) \/ process_cancel(ok)
       \/ Wake(ok) \/ drain_gpu_events(ok)
       \/ \E identity \in Identity, now \in Clock : launch_scheduled(ok, identity, now)
  \/ post_wake
  \/ \E j \in DOMAIN store.jobs, exit \in ExitStatus, now \in Clock :
       process_exit(j, exit, now)

Next ==
  \/ /\ Len(runs) < MaxRuns /\ Unread = {}
     /\ \/ \E i \in Invocations[Len(runs) + 1] : Invoke(i)
        \/ \E i \in OtherRequests[Len(runs) + 1] : Connect(i)
  \/ \E r \in DOMAIN runs : GiveUp(r) \/ FollowEnds(r)
  \/ ServerStep
  \/ ManagerStep
  \/ \E obs \in Observation : Observe(obs)

Spec == Init /\ [][Next]_vars

(* The IPC worker has no request to serve, or waits for the manager; at any *)
(* other point it can take a step.                                          *)
Waits == \/ server.at = "idle" /\ Unread = {}
         \/ server.at = "ack" /\ runs[server.run].ack = <<>>

(* The IPC worker gets to run (its steps are the ones that move `server`),  *)
(* and its wait for the manager is timed.                                   *)
FairSpec ==
  /\ Spec
  /\ []<>Waits \/ []<><<server' # server>>_server
  /\ WF_vars(AckTimesOut)
-----------------------------------------------------------------------------
(* Properties.                                                              *)

Asked(r, kind) == runs[r].at = "done" /\ runs[r].request.kind = kind
JobsOf(r) == {j \in DOMAIN made : made[j] = r}

(* What `yori submit` reports is true, whichever answers are late, lost or  *)
(* overtaken: a job id it prints is that of a job with the command this     *)
(* user gave; a refusal by the queue or the store leaves no job that could  *)
(* start before the next restart; and no request, answered or not, ever     *)
(* makes two jobs.  A refused job whose rollback was lost stays QUEUED in   *)
(* the store; a restart, which is not part of this module, puts it into the *)
(* queue, and then it can start.                                            *)
SubmitHonest ==
  \A r \in DOMAIN runs :
    /\ Cardinality(JobsOf(r)) <= 1
    /\ Asked(r, "SUBMIT") /\ runs[r].code = kExitOk =>
         /\ JobsOf(r) = {runs[r].response.job}
         /\ LET spec == store.jobs[runs[r].response.job].spec IN
              spec.owner = runs[r].uid /\ spec.argv = runs[r].request.argv
    /\ Asked(r, "SUBMIT") /\ runs[r].response.error \notin {"NONE", "NOT_AVAILABLE"} =>
         \A j \in JobsOf(r) : store.jobs[j].state \in {"QUEUED", "CANCELLED"} /\ ~contains(queue, j)

(* When `yori cancel` reports success the job does not run on undisturbed:  *)
(* it is stopping or has ended, and a queued job is out of the queue.       *)
CancelConfirmed ==
  \A r \in DOMAIN runs :
    Asked(r, "CANCEL") /\ runs[r].code = kExitOk =>
      /\ store.jobs[runs[r].request.job].state \in {"STOPPING"} \cup Terminal
      /\ ~contains(queue, runs[r].request.job)

(* Nobody but its owner or an administrator stops a job: one that is being  *)
(* stopped or was cancelled had such a request, or the queue refused it.    *)
CancelAuthorised ==
  \A j \in DOMAIN store.jobs :
    store.jobs[j].state \in {"STOPPING", "CANCELLED"} =>
      \/ \E r \in DOMAIN runs :
           /\ runs[r].request.kind = "CANCEL" /\ runs[r].request.job = j
           /\ runs[r].uid = store.jobs[j].spec.owner \/ runs[r].uid \in Admins
      \/ /\ runs[made[j]].ack # <<>>
         /\ runs[made[j]].ack[1].error = "QUEUE_REJECTED"

(* No answer shows a user the command, the directories, the environment,    *)
(* the placement or the log of somebody else's job, unless the user is an   *)
(* administrator: not a listing with its masked columns, and not a request  *)
(* about the job itself.                                                    *)
PrivacyKept ==
  \A r \in DOMAIN runs :
    LET answer == runs[r].response
        Foreign(j) == store.jobs[j].spec.owner # runs[r].uid /\ runs[r].uid \notin Admins
    IN  /\ answer.kind \in {"LOGS", "LOGS_FOLLOW"} /\ answer.error = "NONE" => ~Foreign(answer.job)
        /\ answer.kind # "GPU" => \A row \in answer.rows : Foreign(row.job) =>
             /\ "argv" \in DOMAIN row => row.argv = <<>>
             /\ \A field \in {"cwd", "logdir"} \cap DOMAIN row : row[field] = ""
             /\ {"env", "executable", "devices"} \cap DOMAIN row = {}
             /\ "wait" \in DOMAIN row => row.wait.target = NoGpu

(* The variables a command line sets itself.                                *)
Overridden(line) ==
  {KeyValue[line[i]][1] : i \in {k \in DOMAIN line : line[k] \in DOMAIN KeyValue}}

(* A job runs in the context it was submitted from, whatever the daemon's   *)
(* environment and the observation do meanwhile: the request's variables    *)
(* reach the process, and each variable `yori` takes over from the user's   *)
(* shell has the value it had there unless the line sets it; the identity   *)
(* variables are those of the owner's account; and the job is told the      *)
(* uuid of the GPU it holds and the index of that GPU, provided that the    *)
(* GPU was still observed at the launch.                                    *)
ContextFaithful ==
  \A j \in DOMAIN plans :
    LET plan  == plans[j]
        shell == Environ[plan.uid]
        line  == runs[made[j]].line
        asked == runs[made[j]].request
        gpu   == plan.env["YORI_GPU_UUID"]
    IN  /\ plan.uid = runs[made[j]].uid /\ plan.executable = asked.executable
        /\ \A n \in DOMAIN asked.env : plan.env[n] = asked.env[n]
        /\ line # <<>> =>
             \A n \in (DefaultKeys \cap DOMAIN shell) \ Overridden(line) :
               n \in DOMAIN plan.env /\ plan.env[n] = shell[n]
        /\ plan.env["HOME"] = Passwd[plan.uid].home /\ plan.env["USER"] = Passwd[plan.uid].name
        /\ store.jobs[j].state \in {"RUNNING", "STOPPING"} => store.leases[gpu] = j
        /\ plan.seen =>
             ToString(GpuIndex[gpu]) = IF asked.launch_profile = ""
                                       THEN plan.env["CUDA_VISIBLE_DEVICES"]
                                       ELSE plan.argv[Len(plan.argv)]

(* Nothing is left for the manager to do.                                   *)
AtRest == manager.at = "idle" /\ commands = <<>> /\ ~gpu_event

(* At rest, and while no store operation has failed, a wait reason that     *)
(* `yori ps` and `yori queue` would show is the reason the job has to wait  *)
(* now, not one of an earlier moment: whatever changes a reason is followed *)
(* by another evaluation.                                                   *)
WaitReasonsCurrent ==
  AtRest /\ observed # NoObservation /\ budget.fault = MaxFaults =>
    \A skip \in evaluation :
      store.jobs[skip.job].state = "QUEUED" =>
        skip = Skip(skip.job, store.jobs[skip.job].spec, store.leases, observed)

(* Every request is answered or given up, also while the manager is stuck:  *)
(* one delegated request holds the IPC worker no longer than its time limit.*)
RequestsServed ==
  LET Waiting == {r \in DOMAIN runs : runs[r].at = "waiting"} IN Waiting # {} ~> Waiting = {}

=============================================================================
