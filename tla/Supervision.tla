---------------------------- MODULE Supervision ----------------------------
(***************************************************************************)
(* How the daemon watches its processes: the spawn pipeline and the        *)
(* phases of ProcessSupervisor, the grace timer of GraceEscalation, and    *)
(* ProcessExitMonitor's thread with its two bounded channels, against the  *)
(* job manager's worker, which registers what it starts, waits for the     *)
(* acknowledgement, and is the only one to drain the exit events.          *)
(*                                                                         *)
(* JobManager.tla takes registration and delivery as single steps; here    *)
(* the two threads really wait for each other: a delivery that finds the   *)
(* event channel full blocks the monitor, and the worker that would drain  *)
(* the channel may be waiting for the monitor to acknowledge.              *)
(***************************************************************************)
EXTENDS Integers, FiniteSets, Sequences

CONSTANTS
  Proc,             \* the processes, each started at most once
  NoProc,           \* stands for no process
  Adopted,          \* those that run already when the daemon starts
  EventCapacity,    \* capacity of the exit event channel
  CommandCapacity,  \* capacity of the command channel
  MaxCancels,       \* bound: processes that are cancelled
  MaxFaults         \* bound: failures of pipes, pump, executor

ASSUME SupervisionAssumption ==
  /\ Adopted \subseteq Proc /\ NoProc \notin Proc
  /\ EventCapacity \in Nat \ {0}
  /\ CommandCapacity \in Nat \ {0}
  /\ MaxCancels \in Nat /\ MaxFaults \in Nat

VARIABLES
  proc,        \* the operating system's view of each process
  phase,       \* ProcessSupervisor::phase
  cancelling,  \* SupervisedJob::cancelling
  grace,       \* GraceEscalation: "OFF", "ARMED", or "FIRED" and not consumed
  by_pid,      \* by_pid_: the processes whose exit the manager will act on
  manager,     \* the job manager's worker
  kick,        \* its wake pipe is readable
  adoptable,   \* the recovered processes start() has still to adopt
  handled,     \* what process_exit recorded: "NO", "VERIFIED" or "UNKNOWN"
  monitor,     \* the exit monitor's worker
  registry,    \* registry_: "NONE", "CHILD" or "ADOPTED"
  timer,       \* timer_active
  wake,        \* the monitor's wake pipe is readable
  commands,    \* the command channel
  ack,         \* the completion the manager waits for
  events,      \* the exit event channel
  faults       \* failures that may still happen

supervisors == <<phase, cancelling, grace>>
jobs        == <<by_pid, adoptable, handled>>
reaper      == <<monitor, registry, timer>>
vars == <<proc, supervisors, jobs, manager, kick, reaper, wake, commands, ack, events, faults>>

Event == [p : Proc, verified : BOOLEAN]

Command == [kind : {"REGISTER", "UNREGISTER"}, p : Proc]

(* FAILED is a child that died before exec and left a report.               *)
ProcState == {"NONE", "FORKED", "FAILED", "UP", "ZOMBIE", "GONE", "REUSED"}

Manager == [at : {"ADOPT", "IDLE", "COMMANDS", "CONFIRM", "REGISTER", "REGISTERING", "ATTACH",
                  "UNREGISTER", "UNREGISTERING", "DRAIN", "STOPPED"},
            p : Proc \cup {NoProc}]

(* The monitor delivers the event of p and goes on with ret afterwards.     *)
Monitor == [at : {"WAIT", "APPLY", "SCAN", "DELIVER", "STOPPED"}, p : Proc \cup {NoProc},
            verified : BOOLEAN, ret : {"APPLY", "SCAN"}]

Init ==
  /\ proc = [p \in Proc |-> IF p \in Adopted THEN "UP" ELSE "NONE"]
  /\ phase = [p \in Proc |-> "IDLE"]
  /\ cancelling = [p \in Proc |-> FALSE]
  /\ grace = [p \in Proc |-> "OFF"]
  /\ by_pid = {} /\ adoptable = Adopted
  /\ handled = [p \in Proc |-> "NO"]
  /\ manager = [at |-> "ADOPT", p |-> NoProc] /\ kick = FALSE
  /\ monitor = [at |-> "WAIT", p |-> NoProc, verified |-> FALSE, ret |-> "APPLY"]
  /\ registry = [p \in Proc |-> "NONE"]
  /\ timer = FALSE /\ wake = FALSE
  /\ commands = <<>> /\ ack = "NONE" /\ events = <<>>
  /\ faults = MaxFaults

Fault == faults > 0 /\ faults' = faults - 1

-----------------------------------------------------------------------------
(* Processes.                                                               *)

(* What the end of process p leaves: a zombie, and SIGCHLD, only when it is *)
(* a child of this daemon.                                                  *)
Dead(p) == IF p \in Adopted THEN "GONE" ELSE "ZOMBIE"

SigChld(p) == wake' = (wake \/ (p \notin Adopted /\ monitor.at # "STOPPED"))

Others == <<supervisors, jobs, manager, kick, reaper, commands, ack, events, faults>>

(* After the daemon has stopped nothing depends on its processes any more.  *)
Alive == manager.at # "STOPPED"

(* run_child reaches exec, or a stage before it fails and is reported.      *)
run_child(p) ==
  /\ Alive /\ proc[p] = "FORKED"
  /\ \/ proc' = [proc EXCEPT ![p] = "UP"] /\ UNCHANGED wake
     \/ proc' = [proc EXCEPT ![p] = "FAILED"] /\ SigChld(p)
  /\ UNCHANGED Others

ProcessExits(p) ==
  /\ Alive /\ proc[p] = "UP"
  /\ proc' = [proc EXCEPT ![p] = Dead(p)]
  /\ SigChld(p)
  /\ UNCHANGED Others

(* The kernel gives the pid of a process that is gone to a foreign one,     *)
(* which the monitor can meet only while it has an entry for the pid.       *)
PidReused(p) ==
  /\ Alive /\ proc[p] = "GONE" /\ registry[p] # "NONE"
  /\ proc' = [proc EXCEPT ![p] = "REUSED"]
  /\ UNCHANGED <<Others, wake>>

-----------------------------------------------------------------------------
(* The supervisor and its grace timer.                                      *)

(* The mutated destructor only lets go of the process.                      *)
Destroyed_Spares(p) ==
  /\ UNCHANGED <<proc, wake>>
  /\ phase' = [phase EXCEPT ![p] = "IDLE"]

(* ~ProcessSupervisor, and the failure paths of spawn: SIGKILL and a        *)
(* blocking waitpid, so that no child is left.                              *)
Destroyed(p) ==
  /\ proc' = [proc EXCEPT ![p] = IF @ = "REUSED" THEN @ ELSE "GONE"]
  /\ SigChld(p)
  /\ phase' = [phase EXCEPT ![p] = "IDLE"]

(* read_process_start_ticks finds the process itself.                       *)
SameTicks(p) == proc[p] \in {"UP", "ZOMBIE"}

(* request_cancel: SIGTERM reaches whatever has the pid; without one the    *)
(* phase stays.                                                             *)
request_cancel(p) ==
  IF phase[p] = "RUNNING" /\ proc[p] # "GONE" THEN "TERMINATING" ELSE phase[p]

(* begin_cancellation for a supervised job: the first one arms the timer,   *)
(* whatever arm answers is ignored, and no later one arms it again.         *)
begin_cancellation(p) ==
  /\ manager.at = "COMMANDS"
  /\ p \in by_pid
  /\ Cardinality({q \in Proc \ {p} : cancelling[q]}) < MaxCancels
  /\ phase' = [phase EXCEPT ![p] = request_cancel(p)]
  /\ cancelling' = [cancelling EXCEPT ![p] = TRUE]
  /\ IF ~cancelling[p] /\ phase'[p] = "TERMINATING"
     THEN \/ grace' = [grace EXCEPT ![p] = "ARMED"] /\ UNCHANGED faults
          \/ Fault /\ UNCHANGED grace
     ELSE UNCHANGED <<grace, faults>>
  /\ UNCHANGED <<proc, jobs, manager, kick, reaper, wake, commands, ack, events>>

(* The mutated escalation insists on a supervisor that is still running.    *)
escalate_OnlyRunning(p) ==
  /\ grace[p] = "ARMED"
  /\ grace' = [grace EXCEPT ![p] = "FIRED"]
  /\ IF phase[p] = "RUNNING" /\ proc[p] = "UP"
     THEN proc' = [proc EXCEPT ![p] = Dead(p)] /\ SigChld(p)
     ELSE UNCHANGED <<proc, wake>>
  /\ UNCHANGED <<phase, cancelling, jobs, manager, kick, reaper, commands, ack, events, faults>>

(* The timer fires: SIGKILL to the process group of a terminating process.  *)
escalate(p) ==
  /\ grace[p] = "ARMED"
  /\ grace' = [grace EXCEPT ![p] = "FIRED"]
  /\ IF phase[p] = "TERMINATING" /\ proc[p] = "UP"
     THEN proc' = [proc EXCEPT ![p] = Dead(p)] /\ SigChld(p)
     ELSE UNCHANGED <<proc, wake>>
  /\ UNCHANGED <<phase, cancelling, jobs, manager, kick, reaper, commands, ack, events, faults>>

-----------------------------------------------------------------------------
(* The job manager's worker: adoption at start, launches, exits.            *)

At(point) == manager.at = point

Go(point, p) == manager' = [at |-> point, p |-> p]

(* Where the worker continues after the launch or adoption of p.            *)
Back(p) == Go(IF p \in Adopted THEN "ADOPT" ELSE "COMMANDS", NoProc)

(* adopt: the identity is verified before the process is registered; one    *)
(* that does not verify is left to the next recovery.                       *)
adopt(p) ==
  /\ At("ADOPT")
  /\ p \in adoptable
  /\ adoptable' = adoptable \ {p}
  /\ IF SameTicks(p)
     THEN phase' = [phase EXCEPT ![p] = "RUNNING"] /\ Go("REGISTER", p)
     ELSE UNCHANGED <<phase, manager>>
  /\ UNCHANGED <<proc, cancelling, grace, by_pid, handled, kick, reaper, wake, commands, ack,
                 events, faults>>

(* start has posted the first wake-up.                                      *)
Started ==
  /\ At("ADOPT") /\ adoptable = {}
  /\ Go("IDLE", NoProc)
  /\ kick' = TRUE
  /\ UNCHANGED <<proc, supervisors, jobs, reaper, wake, commands, ack, events, faults>>

(* The worker leaves poll; other sources than an exit also wake it.         *)
WaitForWakeup ==
  /\ At("IDLE")
  /\ Go("COMMANDS", NoProc)
  /\ kick' = FALSE
  /\ UNCHANGED <<proc, supervisors, jobs, reaper, wake, commands, ack, events, faults>>

CommandsDrained ==
  /\ At("COMMANDS")
  /\ Go("DRAIN", NoProc)
  /\ UNCHANGED <<proc, supervisors, jobs, kick, reaper, wake, commands, ack, events, faults>>

(* spawn up to fork; without pipes or a child the launch has failed.        *)
spawn(p) ==
  /\ At("COMMANDS")
  /\ proc[p] = "NONE"
  /\ \/ /\ proc' = [proc EXCEPT ![p] = "FORKED"]
        /\ Go("CONFIRM", p)
        /\ UNCHANGED faults
     \/ proc' = [proc EXCEPT ![p] = "GONE"] /\ Fault /\ UNCHANGED manager
  /\ UNCHANGED <<supervisors, jobs, kick, reaper, wake, commands, ack, events>>

(* wait_for_exec_confirmation read the end of the report pipe.              *)
Confirmed(p) == proc[p] \in {"UP", "ZOMBIE"}

(* The rest of spawn.  A report, or no confirmation in time, ends the child.*)
Confirm ==
  /\ At("CONFIRM")
  /\ \/ /\ Confirmed(manager.p)
        /\ phase' = [phase EXCEPT ![manager.p] = "RUNNING"]
        /\ Go("REGISTER", manager.p)
        /\ UNCHANGED <<proc, wake>>
     \/ /\ proc[manager.p] \in {"FORKED", "FAILED"}
        /\ Destroyed(manager.p)
        /\ Back(manager.p)
  /\ UNCHANGED <<cancelling, grace, jobs, kick, reaper, commands, ack, events, faults>>

(* A command is sent when there is room within a second.                    *)
Send(kind, there) ==
  /\ Len(commands) < CommandCapacity
  /\ commands' = Append(commands, [kind |-> kind, p |-> manager.p])
  /\ ack' = "NONE"
  /\ wake' = TRUE
  /\ Go(there, manager.p)
  /\ UNCHANGED <<proc, supervisors, jobs, kick, reaper, events, faults>>

(* The launch or adoption fails: the supervisor is destroyed.               *)
fail_launch ==
  /\ Destroyed(manager.p)
  /\ Back(manager.p)
  /\ ack' = "NONE"
  /\ UNCHANGED <<cancelling, grace, jobs, kick, reaper, commands, events, faults>>

(* register_process: sent, or the channel stays full.                       *)
register_process ==
  /\ At("REGISTER")
  /\ \/ Send("REGISTER", "REGISTERING")
     \/ Len(commands) = CommandCapacity /\ fail_launch

(* The completion is awaited for two seconds.  A recovered process has no   *)
(* output to attach and is supervised at once.                              *)
AwaitRegistered ==
  /\ At("REGISTERING")
  /\ \/ /\ ack = "REGISTERED"
        /\ ack' = "NONE"
        /\ IF manager.p \in Adopted
           THEN Back(manager.p) /\ by_pid' = by_pid \cup {manager.p}
           ELSE Go("ATTACH", manager.p) /\ UNCHANGED by_pid
        /\ UNCHANGED <<proc, supervisors, adoptable, handled, kick, reaper, wake, commands,
                       events, faults>>
     \/ ack # "REGISTERED" /\ fail_launch

(* The log pump takes the pipes and the job is supervised, or it does not   *)
(* and the registration is taken back.                                      *)
attach ==
  /\ At("ATTACH")
  /\ \/ by_pid' = by_pid \cup {manager.p} /\ Back(manager.p) /\ UNCHANGED faults
     \/ Fault /\ Go("UNREGISTER", manager.p) /\ UNCHANGED by_pid
  /\ UNCHANGED <<proc, supervisors, adoptable, handled, kick, reaper, wake, commands, ack,
                 events>>

(* unregister_process: its result is ignored.  The channel has room: the    *)
(* worker is its only sender, and its registration has just been applied.   *)
unregister_process ==
  \/ At("UNREGISTER") /\ Send("UNREGISTER", "UNREGISTERING")
  \/ At("UNREGISTERING") /\ fail_launch

(* process_exit: a pid nobody supervises is ignored; otherwise the grace    *)
(* timer is disarmed, the end recorded and the supervisor destroyed.        *)
process_exit(e) ==
  IF e.p \in by_pid
  THEN /\ grace' = [grace EXCEPT ![e.p] = "OFF"]
       /\ handled' = [handled EXCEPT ![e.p] = IF e.verified THEN "VERIFIED" ELSE "UNKNOWN"]
       /\ by_pid' = by_pid \ {e.p}
       /\ Destroyed(e.p)
  ELSE UNCHANGED <<grace, handled, by_pid, proc, wake, phase>>

drain_exit_events ==
  /\ At("DRAIN")
  /\ \/ /\ events # <<>>
        /\ events' = Tail(events)
        /\ process_exit(Head(events))
        /\ UNCHANGED manager
     \/ /\ events = <<>>
        /\ Go("IDLE", NoProc)
        /\ UNCHANGED <<events, grace, handled, by_pid, proc, wake, phase>>
  /\ UNCHANGED <<cancelling, adoptable, kick, reaper, commands, ack, faults>>

(* stop: once the worker has ended every process is abandoned without a     *)
(* signal, the timers are disarmed, and the exit monitor stops, giving up a *)
(* delivery under way.  The registry and the channels go with the objects.  *)
Stop ==
  /\ manager.at \in {"IDLE", "COMMANDS", "DRAIN"}
  /\ Go("STOPPED", NoProc)
  /\ phase' = [p \in Proc |-> "IDLE"]
  /\ cancelling' = [p \in Proc |-> FALSE]
  /\ grace' = [p \in Proc |-> "OFF"]
  /\ by_pid' = {}
  /\ monitor' = [at |-> "STOPPED", p |-> NoProc, verified |-> FALSE, ret |-> "APPLY"]
  /\ registry' = [p \in Proc |-> "NONE"]
  /\ timer' = FALSE /\ wake' = FALSE /\ kick' = FALSE
  /\ commands' = <<>> /\ events' = <<>>
  /\ UNCHANGED <<proc, adoptable, handled, ack, faults>>

-----------------------------------------------------------------------------
(* The exit monitor's worker.                                               *)

(* sync_adopted_timer, after the registry became r.  A submission that      *)
(* fails is tried again at the next change only.                            *)
AnyAdopted(r) == \E p \in Proc : r[p] = "ADOPTED"

SyncTimer(on, r, submitted) == AnyAdopted(r) /\ (on \/ submitted)

(* Whether the executor takes the periodic task; it can refuse only one     *)
(* that is submitted.                                                       *)
Submitted(r, submitted) ==
  IF submitted THEN UNCHANGED faults ELSE AnyAdopted(r) /\ ~timer /\ Fault

(* The delivery of p's exit begins: the entry is erased first.              *)
BeginDelivery(p, verified, ret) ==
  monitor' = [monitor EXCEPT !.at = "DELIVER", !.p = p, !.verified = verified, !.ret = ret]

Registered == {p \in Proc : registry[p] # "NONE"}

Erased(r, p) == [r EXCEPT ![p] = "NONE"]

(* The completion reaches the manager unless it has given up.               *)
Complete(kind, p, code) ==
  ack' = IF manager = [at |-> kind, p |-> p] THEN code ELSE ack

(* waitpid with WNOHANG: the process has no such child, reaps it, or it     *)
(* still runs.                                                              *)
waitpid(p) ==
  IF p \in Adopted \/ proc[p] \in {"GONE", "REUSED"} THEN "ECHILD"
  ELSE IF proc[p] = "ZOMBIE" THEN "REAPED" ELSE "RUNNING"

wait_for_wakeup ==
  /\ monitor.at = "WAIT" /\ wake
  /\ monitor' = [monitor EXCEPT !.at = "APPLY"]
  /\ wake' = FALSE
  /\ UNCHANGED <<proc, supervisors, jobs, manager, kick, registry, timer, commands, ack, events,
                 faults>>

(* The mutated probe takes every process for a child.                       *)
Classified_Child(p) == "CHILD"

Classified(p) == IF waitpid(p) = "ECHILD" THEN "ADOPTED" ELSE "CHILD"

(* Whether the registered process is found dead at once, and then whether   *)
(* its status is known: the probe reaped it, or /proc has it no more.       *)
Probed(p) ==
  IF waitpid(p) = "REAPED" THEN {TRUE} ELSE IF SameTicks(p) THEN {} ELSE {FALSE}

(* apply_register: classify by a waitpid probe, enter, acknowledge, and     *)
(* deliver what the probe or the scan of this pid found.  A process is      *)
(* registered once, so that its pid has no entry yet.                       *)
apply_register(p, submitted) ==
  LET entered == [registry EXCEPT ![p] = Classified(p)]
      on      == SyncTimer(timer, entered, submitted)
  IN  /\ Submitted(entered, submitted)
      /\ Complete("REGISTERING", p, "REGISTERED")
      /\ proc' = [proc EXCEPT ![p] = IF waitpid(p) = "REAPED" THEN "GONE" ELSE @]
      /\ IF Probed(p) = {}
         THEN registry' = entered /\ timer' = on /\ UNCHANGED monitor
         ELSE /\ registry' = registry
              /\ timer' = SyncTimer(on, registry, submitted)
              /\ \E verified \in Probed(p) : BeginDelivery(p, verified, "APPLY")

(* apply_unregister.                                                        *)
apply_unregister(p, submitted) ==
  /\ Submitted(Erased(registry, p), submitted)
  /\ Complete("UNREGISTERING", p, IF registry[p] = "NONE" THEN "NOT_FOUND" ELSE "UNREGISTERED")
  /\ registry' = Erased(registry, p)
  /\ timer' = IF registry[p] = "NONE" THEN timer
              ELSE SyncTimer(timer, Erased(registry, p), submitted)
  /\ UNCHANGED <<proc, monitor>>

(* apply_commands: one command, or none is left and the scan begins.        *)
apply_commands ==
  /\ monitor.at = "APPLY"
  /\ \/ /\ commands # <<>>
        /\ commands' = Tail(commands)
        /\ \E submitted \in BOOLEAN :
             LET c == Head(commands) IN
                  IF c.kind = "REGISTER" THEN apply_register(c.p, submitted)
                                         ELSE apply_unregister(c.p, submitted)
     \/ /\ commands = <<>>
        /\ monitor' = [monitor EXCEPT !.at = "SCAN"]
        /\ UNCHANGED <<proc, registry, timer, commands, ack, faults>>
  /\ UNCHANGED <<supervisors, jobs, manager, kick, wake, events>>

(* scan_one: /proc first, then waitpid for a child.  The status is known    *)
(* when the child is reaped here.                                           *)
scan_one(p) ==
  IF ~SameTicks(p) THEN {FALSE}
  ELSE IF registry[p] = "ADOPTED" \/ waitpid(p) = "RUNNING" THEN {}
  ELSE {waitpid(p) = "REAPED"}

(* scan_registered: an entry whose process still runs is passed over, which *)
(* leaves no trace, so one step goes to the next entry found dead, or ends  *)
(* the scan when there is none.                                             *)
scan_registered ==
  /\ monitor.at = "SCAN"
  /\ \/ \E p \in Registered : \E verified \in scan_one(p), submitted \in BOOLEAN :
          /\ Submitted(Erased(registry, p), submitted)
          /\ proc' = [proc EXCEPT ![p] = IF verified THEN "GONE" ELSE @]
          /\ registry' = Erased(registry, p)
          /\ timer' = SyncTimer(timer, Erased(registry, p), submitted)
          /\ BeginDelivery(p, verified, "SCAN")
     \/ /\ \A p \in Registered : scan_one(p) = {}
        /\ monitor' = [monitor EXCEPT !.at = "WAIT"]
        /\ UNCHANGED <<proc, registry, timer, faults>>
  /\ UNCHANGED <<supervisors, jobs, manager, kick, wake, commands, ack, events>>

Delivered ==
  [monitor EXCEPT !.at = monitor.ret, !.p = NoProc, !.verified = FALSE, !.ret = "APPLY"]

(* Mutated deliveries: one gives up when the channel is full, one does not  *)
(* wake the manager.                                                        *)
deliver_OrDrop ==
  /\ monitor.at = "DELIVER"
  /\ events' = IF Len(events) < EventCapacity
               THEN Append(events, [p |-> monitor.p, verified |-> monitor.verified]) ELSE events
  /\ kick' = TRUE
  /\ monitor' = Delivered
  /\ UNCHANGED <<proc, supervisors, jobs, manager, registry, timer, wake, commands, ack, faults>>

deliver_Silent ==
  /\ monitor.at = "DELIVER"
  /\ Len(events) < EventCapacity
  /\ events' = Append(events, [p |-> monitor.p, verified |-> monitor.verified])
  /\ monitor' = Delivered
  /\ UNCHANGED <<proc, supervisors, jobs, manager, kick, registry, timer, wake, commands, ack,
                 faults>>

(* deliver: retried for as long as the channel is full, then the manager is *)
(* woken.                                                                   *)
deliver ==
  /\ monitor.at = "DELIVER"
  /\ Len(events) < EventCapacity
  /\ events' = Append(events, [p |-> monitor.p, verified |-> monitor.verified])
  /\ kick' = TRUE
  /\ monitor' = Delivered
  /\ UNCHANGED <<proc, supervisors, jobs, manager, registry, timer, wake, commands, ack, faults>>

(* The periodic task writes a wake byte.                                    *)
TimerTick ==
  /\ timer
  /\ wake' = TRUE
  /\ UNCHANGED <<proc, supervisors, jobs, manager, kick, reaper, commands, ack, events, faults>>

-----------------------------------------------------------------------------
ManagerStep ==
  \/ \E p \in Proc : adopt(p) \/ spawn(p) \/ begin_cancellation(p)
  \/ Started \/ CommandsDrained \/ Confirm
  \/ register_process \/ AwaitRegistered \/ attach \/ unregister_process
  \/ drain_exit_events

MonitorStep == wait_for_wakeup \/ apply_commands \/ scan_registered \/ deliver

Next ==
  \/ \E p \in Proc : run_child(p) \/ ProcessExits(p) \/ PidReused(p) \/ escalate(p)
  \/ WaitForWakeup \/ ManagerStep \/ Stop \/ MonitorStep \/ TimerTick

Spec == Init /\ [][Next]_vars

(* Both workers run while they have something to do: the manager is woken   *)
(* by its pipe, the monitor by its own, to which the periodic task writes;  *)
(* a grace timer fires.                                                     *)
FairSpec ==
  /\ Spec
  /\ WF_vars((kick /\ WaitForWakeup) \/ ManagerStep)
  /\ WF_vars(MonitorStep \/ TimerTick)
  /\ WF_vars(\E p \in Proc : escalate(p))

-----------------------------------------------------------------------------
(* Properties.                                                              *)

(* Every variable has its type; the channels keep their capacities.         *)
TypeOK ==
  /\ proc \in [Proc -> ProcState]
  /\ phase \in [Proc -> {"IDLE", "RUNNING", "TERMINATING"}]
  /\ cancelling \in [Proc -> BOOLEAN]
  /\ grace \in [Proc -> {"OFF", "ARMED", "FIRED"}]
  /\ by_pid \subseteq Proc
  /\ adoptable \subseteq Adopted
  /\ handled \in [Proc -> {"NO", "VERIFIED", "UNKNOWN"}]
  /\ manager \in Manager
  /\ monitor \in Monitor
  /\ registry \in [Proc -> {"NONE", "CHILD", "ADOPTED"}]
  /\ kick \in BOOLEAN /\ timer \in BOOLEAN /\ wake \in BOOLEAN
  /\ commands \in Seq(Command) /\ Len(commands) <= CommandCapacity
  /\ ack \in {"NONE", "REGISTERED", "UNREGISTERED", "NOT_FOUND"}
  /\ events \in Seq(Event) /\ Len(events) <= EventCapacity
  /\ faults \in 0..MaxFaults

Queued(p)     == {i \in DOMAIN events : events[i].p = p}
Delivering(p) == monitor.at = "DELIVER" /\ monitor.p = p

(* The exit of a supervised process is never lost and never reported        *)
(* twice: the process is registered, or its one event is being delivered,   *)
(* or the event is in the channel.  A full channel and a worker that gave   *)
(* up waiting for its acknowledgement do not change that.                   *)
ExitTracked ==
  \A p \in by_pid :
    \/ registry[p] # "NONE" /\ ~Delivering(p) /\ Queued(p) = {}
    \/ registry[p] = "NONE" /\ Delivering(p) /\ Queued(p) = {}
    \/ registry[p] = "NONE" /\ ~Delivering(p) /\ \E i \in DOMAIN events : Queued(p) = {i}

(* What the monitor reports is true: an exit is reported only for a process *)
(* that has ended, also of a recovered process, which waitpid does not      *)
(* know; and the exit of a child the manager supervises comes with its      *)
(* status, also when the child ended before it was registered.              *)
ExitsTrue ==
  /\ \A p \in Proc : Delivering(p) \/ Queued(p) # {} => proc[p] \in {"GONE", "REUSED"}
  /\ \A p \in by_pid \ Adopted :
       /\ Delivering(p) => monitor.verified
       /\ \A i \in Queued(p) : events[i].verified

(* A launch that failed, at whatever point, leaves no process and no zombie *)
(* behind: between two commands every child is supervised or gone.          *)
NoOrphans ==
  manager.at \in {"IDLE", "COMMANDS", "DRAIN"} =>
    \A p \in Proc \ (Adopted \cup by_pid) : proc[p] \in {"NONE", "GONE", "REUSED"}

(* The exit of a supervised process is acted on eventually, even with a     *)
(* full event channel while the manager waits for an acknowledgement; for a *)
(* recovered process, provided the periodic scan could be submitted.        *)
ExitHandled(p) ==
  (/\ p \in by_pid
   /\ proc[p] \in {"ZOMBIE", "GONE", "REUSED"}
   /\ p \in Adopted => timer) ~> (handled[p] # "NO" \/ ~Alive)

(* A cancelled child whose grace timer was accepted by the executor ends,   *)
(* and its end is recorded, whether or not it reacts to SIGTERM.            *)
CancelEnds(p) == grace[p] = "ARMED" ~> (handled[p] # "NO" \/ ~Alive)

=============================================================================
