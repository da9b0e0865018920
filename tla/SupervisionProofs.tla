------------------------- MODULE SupervisionProofs -------------------------
(***************************************************************************)
(* Proofs about Supervision.  Whatever the number of processes and the     *)
(* capacities of the two channels, the exit of a supervised process is     *)
(* tracked at exactly one place, what the monitor reports is true, and a   *)
(* launch that fails leaves no process behind.                             *)
(*                                                                         *)
(* The argument follows one process.  Before its REGISTER command is sent  *)
(* the monitor knows nothing of it; while the command is queued nobody     *)
(* else touches it; when the command is applied the exit is tracked, also  *)
(* if the manager has not yet seen the acknowledgement.  A manager that    *)
(* gives up waiting leaves a stale command behind, which is harmless       *)
(* because no process is started twice.                                    *)
(***************************************************************************)
EXTENDS Supervision, TLAPS

(* A process that came to exec, and one that is over.                       *)
Past == {"UP", "ZOMBIE", "GONE", "REUSED"}
Over == {"GONE", "REUSED"}

(* A sequence of commands or events has one, or exactly one, for p.         *)
Has(s, p) == \E i \in DOMAIN s : s[i].p = p
One(s, p) == \E i \in DOMAIN s : s[i].p = p /\ \A k \in DOMAIN s : s[k].p = p => k = i

(* The monitor has been asked about p, has reported p, knows of p.          *)
Asked(p)    == Has(commands, p)
Reported(p) == Delivering(p) \/ Has(events, p)
Known(p)    == Asked(p) \/ registry[p] # "NONE" \/ Reported(p)

Tracked(p) ==
  \/ registry[p] # "NONE" /\ ~Delivering(p) /\ ~Has(events, p)
  \/ registry[p] = "NONE" /\ Delivering(p) /\ ~Has(events, p)
  \/ registry[p] = "NONE" /\ ~Delivering(p) /\ One(events, p)

(* The exit of a child is found by reaping it.                              *)
Reapable(p) ==
  p \notin Adopted =>
    /\ registry[p] # "NONE" => registry[p] = "CHILD" /\ proc[p] \in {"UP", "ZOMBIE"}
    /\ Delivering(p) => monitor.verified
    /\ \A i \in DOMAIN events : events[i].p = p => events[i].verified

(* Its exit matters to the manager, or will as soon as it reads the         *)
(* acknowledgement.                                                         *)
Wanted(p) ==
  \/ p \in by_pid
  \/ p = manager.p /\ (At("ATTACH") \/ (At("REGISTERING") /\ ack = "REGISTERED"))

(* The registration of p has been sent and not been applied.                *)
Pending(p) ==
  /\ One(commands, p)
  /\ \A i \in DOMAIN commands : commands[i].p = p => commands[i].kind = "REGISTER"
  /\ registry[p] = "NONE" /\ ~Reported(p)

Launching == manager.at \in {"CONFIRM", "REGISTER", "REGISTERING", "ATTACH", "UNREGISTER",
                             "UNREGISTERING"}

(* What the manager knows of the process it is launching or adopting.       *)
LaunchOK ==
  /\ manager.p \in Proc /\ manager.p \notin by_pid /\ manager.p \notin adoptable
  /\ manager.at \in {"CONFIRM", "ATTACH", "UNREGISTER", "UNREGISTERING"} => manager.p \notin Adopted
  /\ At("CONFIRM") => proc[manager.p] \in {"FORKED", "FAILED", "UP", "ZOMBIE"}
  /\ ~At("CONFIRM") => proc[manager.p] \in Past
  /\ (At("REGISTER") \/ (At("REGISTERING") /\ ack # "REGISTERED")) /\ manager.p \notin Adopted =>
       proc[manager.p] \in {"UP", "ZOMBIE"}
  /\ manager.at \in {"CONFIRM", "REGISTER"} => ~Known(manager.p)
  /\ At("REGISTERING") /\ ack # "REGISTERED" => Pending(manager.p)

(* What is known of every process.                                          *)
ProcOK(p) ==
  /\ Known(p) => proc[p] \in Past /\ p \notin adoptable
  /\ Reported(p) => proc[p] \in Over
  /\ registry[p] = "CHILD" => p \notin Adopted
  /\ p \in Adopted => proc[p] \in {"UP", "GONE", "REUSED"}
  /\ Wanted(p) => Tracked(p) /\ Reapable(p) /\ ~Asked(p)
  /\ Alive /\ p \notin Adopted /\ p \notin by_pid /\ ~(Launching /\ p = manager.p) =>
       proc[p] \in {"NONE", "GONE", "REUSED"}

SupInv ==
  /\ TypeOK
  /\ \A p \in Proc : ProcOK(p)
  /\ Launching => LaunchOK
  /\ monitor.at = "DELIVER" => monitor.p \in Proc

-----------------------------------------------------------------------------
(* Types.                                                                   *)

(* The steps of the environment, of the timers and of the worker's loop.    *)
LEMMA TypeProcesses ==
  ASSUME TypeOK, NEW p \in Proc,
         \/ run_child(p) \/ ProcessExits(p) \/ PidReused(p) \/ escalate(p)
         \/ Started \/ WaitForWakeup \/ CommandsDrained \/ TimerTick \/ wait_for_wakeup
  PROVE  TypeOK'
<1>1. CASE run_child(p)
  BY <1>1, Zenon DEF TypeOK, run_child, SigChld, Others, supervisors, jobs, reaper, ProcState
<1>2. CASE ProcessExits(p)
  BY <1>2 DEF TypeOK, ProcessExits, Dead, SigChld, Others, supervisors, jobs, reaper, ProcState
<1>3. CASE PidReused(p)
  BY <1>3 DEF TypeOK, PidReused, Others, supervisors, jobs, reaper, ProcState
<1>4. CASE escalate(p)
  BY <1>4, Zenon DEF TypeOK, escalate, Dead, SigChld, jobs, reaper, ProcState
<1>5. CASE Started
  BY <1>5 DEF TypeOK, Started, Go, Manager, supervisors, jobs, reaper
<1>6. CASE WaitForWakeup
  BY <1>6, Zenon DEF TypeOK, WaitForWakeup, Go, Manager, supervisors, jobs, reaper
<1>7. CASE CommandsDrained
  BY <1>7 DEF TypeOK, CommandsDrained, Go, Manager, supervisors, jobs, reaper
<1>8. CASE TimerTick
  BY <1>8 DEF TypeOK, TimerTick, supervisors, jobs, reaper
<1>9. CASE wait_for_wakeup
  BY <1>9, Zenon DEF TypeOK, wait_for_wakeup, Monitor, supervisors, jobs
<1> QED BY <1>1, <1>2, <1>3, <1>4, <1>5, <1>6, <1>7, <1>8, <1>9

(* The destructor of a supervisor.                                          *)
LEMMA TypeDestroyed ==
  ASSUME TypeOK, NEW p \in Proc, Destroyed(p)
  PROVE  /\ proc' \in [Proc -> ProcState] /\ wake' \in BOOLEAN
         /\ phase' \in [Proc -> {"IDLE", "RUNNING", "TERMINATING"}]
BY DEF TypeOK, Destroyed, SigChld, ProcState

(* A launch that fails.                                                     *)
LEMMA TypeFailLaunch ==
  ASSUME TypeOK, manager.p \in Proc, fail_launch
  PROVE  TypeOK'
<1>1. /\ proc' \in [Proc -> ProcState] /\ wake' \in BOOLEAN
      /\ phase' \in [Proc -> {"IDLE", "RUNNING", "TERMINATING"}]
  BY TypeDestroyed DEF fail_launch
<1>2. manager' \in Manager
  BY DEF fail_launch, Back, Go, Manager
<1> QED BY <1>1, <1>2 DEF TypeOK, fail_launch, jobs, reaper

(* A command that is sent.                                                  *)
LEMMA TypeSend ==
  ASSUME TypeOK, manager.p \in Proc, NEW kind \in {"REGISTER", "UNREGISTER"},
         NEW there \in {"REGISTERING", "UNREGISTERING"}, Send(kind, there)
  PROVE  TypeOK'
<1>1. PICK c : c = [kind |-> kind, p |-> manager.p]
  BY Zenon
<1>2. c \in Command /\ commands' = Append(commands, c)
  BY <1>1 DEF Command, Send
<1>3. commands' \in Seq(Command) /\ Len(commands') <= CommandCapacity
  BY <1>2, SupervisionAssumption DEF TypeOK, Send
<1>4. manager' \in Manager
  BY DEF Send, Go, Manager
<1> QED BY <1>3, <1>4 DEF TypeOK, Send, supervisors, jobs, reaper

(* A failure uses up one of those that may happen.                          *)
LEMMA TypeFault ==
  ASSUME faults \in 0..MaxFaults, Fault \/ UNCHANGED faults
  PROVE  faults' \in 0..MaxFaults
BY SupervisionAssumption DEF Fault

(* The worker's launches and adoptions.                                     *)
LEMMA TypeLaunch ==
  ASSUME TypeOK, Launching => manager.p \in Proc, NEW p \in Proc,
         \/ adopt(p) \/ spawn(p) \/ begin_cancellation(p) \/ Confirm
         \/ register_process \/ AwaitRegistered \/ attach \/ unregister_process
  PROVE  TypeOK'
<1>1. CASE adopt(p)
  BY <1>1 DEF TypeOK, adopt, Go, Manager, reaper
<1>2. CASE spawn(p)
  <2>1. faults' \in 0..MaxFaults
    BY <1>2, TypeFault DEF spawn, TypeOK
  <2>2. proc' \in [Proc -> ProcState] /\ manager' \in Manager
    BY <1>2, SMTT(30) DEF TypeOK, spawn, Go, Manager, ProcState
  <2> QED BY <1>2, <2>1, <2>2 DEF TypeOK, spawn, supervisors, jobs, reaper
<1>3. CASE begin_cancellation(p)
  <2>1. faults' \in 0..MaxFaults
    BY <1>3, TypeFault DEF begin_cancellation, TypeOK
  <2>2. phase' \in [Proc -> {"IDLE", "RUNNING", "TERMINATING"}]
    BY <1>3 DEF begin_cancellation, request_cancel, TypeOK
  <2> QED BY <1>3, <2>1, <2>2 DEF TypeOK, begin_cancellation, jobs, reaper
<1>4. CASE Confirm
  <2>1. manager.p \in Proc
    BY <1>4 DEF Confirm, At, Launching
  <2>2. manager' \in Manager
    BY <1>4, <2>1 DEF Confirm, Back, Go, Manager
  <2>3. CASE Destroyed(manager.p)
    <3>1. /\ proc' \in [Proc -> ProcState] /\ wake' \in BOOLEAN
          /\ phase' \in [Proc -> {"IDLE", "RUNNING", "TERMINATING"}]
      BY <2>1, <2>3, TypeDestroyed
    <3> QED BY <1>4, <2>2, <3>1 DEF TypeOK, Confirm, jobs, reaper
  <2>4. CASE phase' = [phase EXCEPT ![manager.p] = "RUNNING"] /\ UNCHANGED <<proc, wake>>
    BY <1>4, <2>1, <2>2, <2>4 DEF TypeOK, Confirm, jobs, reaper
  <2> QED BY <1>4, <2>3, <2>4 DEF Confirm
<1>5. CASE register_process
  <2>1. manager.p \in Proc
    BY <1>5 DEF register_process, At, Launching
  <2> QED BY <1>5, <2>1, TypeSend, TypeFailLaunch DEF register_process
<1>6. CASE AwaitRegistered
  <2>1. manager.p \in Proc
    BY <1>6 DEF AwaitRegistered, At, Launching
  <2>2. CASE fail_launch
    BY <2>1, <2>2, TypeFailLaunch
  <2>3. CASE ~fail_launch
    BY <1>6, <2>1, <2>3 DEF AwaitRegistered, TypeOK, Back, Go, Manager, supervisors, reaper
  <2> QED BY <2>2, <2>3
<1>7. CASE attach
  <2>1. manager.p \in Proc
    BY <1>7 DEF attach, At, Launching
  <2>2. faults' \in 0..MaxFaults
    BY <1>7, TypeFault DEF attach, TypeOK
  <2> QED BY <1>7, <2>1, <2>2 DEF attach, TypeOK, Back, Go, Manager, supervisors, reaper
<1>8. CASE unregister_process
  <2>1. manager.p \in Proc
    BY <1>8 DEF unregister_process, At, Launching
  <2> QED BY <1>8, <2>1, TypeSend, TypeFailLaunch DEF unregister_process
<1> QED BY <1>1, <1>2, <1>3, <1>4, <1>5, <1>6, <1>7, <1>8

(* The worker handles an exit, or stops.                                    *)
LEMMA TypeDrain ==
  ASSUME TypeOK, drain_exit_events \/ Stop
  PROVE  TypeOK'
<1>1. CASE drain_exit_events /\ events # <<>>
  <2>1. PICK e : e = Head(events)
    OBVIOUS
  <2>2. e \in Event /\ events' = Tail(events) /\ events' \in Seq(Event) /\ Len(events') <= EventCapacity
    <3>1. events \in Seq(Event) /\ events # <<>> /\ Len(events) <= EventCapacity /\ events' = Tail(events)
      BY <1>1 DEF TypeOK, drain_exit_events
    <3> QED BY <2>1, <3>1, SupervisionAssumption
  <2>3. process_exit(e) /\ UNCHANGED <<cancelling, adoptable, kick, reaper, commands, ack, faults, manager>>
    BY <1>1, <2>1 DEF drain_exit_events
  <2>4. CASE e.p \in by_pid
    <3>1. e.p \in Proc /\ Destroyed(e.p)
      BY <2>2, <2>3, <2>4 DEF Event, process_exit
    <3>2. /\ proc' \in [Proc -> ProcState] /\ wake' \in BOOLEAN
          /\ phase' \in [Proc -> {"IDLE", "RUNNING", "TERMINATING"}]
      BY <3>1, TypeDestroyed
    <3> QED BY <2>2, <2>3, <2>4, <3>1, <3>2, Zenon DEF TypeOK, process_exit, reaper
  <2>5. CASE e.p \notin by_pid
    BY <2>2, <2>3, <2>5 DEF TypeOK, process_exit, reaper
  <2> QED BY <2>4, <2>5
<1>2. CASE drain_exit_events /\ events = <<>>
  BY <1>2 DEF drain_exit_events, TypeOK, Go, Manager, reaper
<1>3. CASE Stop
  <2>1. commands' \in Seq(Command) /\ Len(commands') <= CommandCapacity
    BY <1>3, SupervisionAssumption DEF Stop
  <2>2. events' \in Seq(Event) /\ Len(events') <= EventCapacity
    BY <1>3, SupervisionAssumption DEF Stop
  <2> QED BY <1>3, <2>1, <2>2, Zenon DEF Stop, TypeOK, Go, Manager, Monitor
<1> QED BY <1>1, <1>2, <1>3

(* What the monitor found out of the executor.                              *)
LEMMA TypeSubmitted ==
  ASSUME TypeOK, NEW r, NEW submitted \in BOOLEAN, Submitted(r, submitted)
  PROVE  faults' \in 0..MaxFaults
BY TypeFault DEF TypeOK, Submitted

(* The monitor applies a command.                                           *)
LEMMA TypeApply ==
  ASSUME TypeOK, apply_commands
  PROVE  TypeOK'
<1>1. CASE commands = <<>>
  BY <1>1 DEF apply_commands, TypeOK, Monitor, supervisors, jobs
<1>2. CASE commands # <<>>
  <2>1. PICK c : c = Head(commands)
    OBVIOUS
  <2>2. PICK submitted \in BOOLEAN :
             IF c.kind = "REGISTER" THEN apply_register(c.p, submitted)
                                  ELSE apply_unregister(c.p, submitted)
    BY <1>2, <2>1 DEF apply_commands
  <2>3. /\ commands \in Seq(Command) /\ Len(commands) <= CommandCapacity /\ commands' = Tail(commands)
        /\ UNCHANGED <<supervisors, jobs, manager, kick, wake, events>>
    BY <1>2 DEF apply_commands, TypeOK
  <2>4. c \in Command /\ commands' \in Seq(Command) /\ Len(commands') <= CommandCapacity
    BY <1>2, <2>1, <2>3, SupervisionAssumption
  <2>5. PICK p \in Proc : p = c.p
    BY <2>4 DEF Command
  <2>6. CASE apply_register(p, submitted)
    <3>1. faults' \in 0..MaxFaults
      BY <2>6, TypeSubmitted DEF apply_register
    <3>2. proc' \in [Proc -> ProcState]
      BY <2>6 DEF apply_register, TypeOK, ProcState
    <3>3. ack' \in {"NONE", "REGISTERED", "UNREGISTERED", "NOT_FOUND"}
      BY <2>6 DEF apply_register, Complete, TypeOK
    <3>4. registry' \in [Proc -> {"NONE", "CHILD", "ADOPTED"}]
      BY <2>6 DEF apply_register, Classified, TypeOK
    <3>5. timer' \in BOOLEAN
      BY <2>6, Zenon DEF apply_register, SyncTimer, AnyAdopted, TypeOK
    <3>6. monitor' \in Monitor
      <4>1. ASSUME NEW verified \in Probed(p) PROVE verified \in BOOLEAN
        BY Zenon DEF Probed
      <4>2. CASE Probed(p) = {}
        BY <2>6, <4>2 DEF apply_register, TypeOK
      <4>3. CASE Probed(p) # {}
        <5>1. PICK verified \in Probed(p) : BeginDelivery(p, verified, "APPLY")
          BY <2>6, <4>3 DEF apply_register
        <5> QED BY <4>1, <5>1, Zenon DEF BeginDelivery, Monitor, TypeOK
      <4> QED BY <4>2, <4>3
    <3> QED BY <2>3, <2>4, <3>1, <3>2, <3>3, <3>4, <3>5, <3>6 DEF TypeOK, supervisors, jobs
  <2>7. CASE apply_unregister(p, submitted)
    <3>1. faults' \in 0..MaxFaults
      BY <2>7, TypeSubmitted DEF apply_unregister
    <3>2. ack' \in {"NONE", "REGISTERED", "UNREGISTERED", "NOT_FOUND"}
      BY <2>7 DEF apply_unregister, Complete, TypeOK
    <3>3. registry' \in [Proc -> {"NONE", "CHILD", "ADOPTED"}]
      BY <2>7 DEF apply_unregister, Erased, TypeOK
    <3>4. timer' \in BOOLEAN
      BY <2>7, Zenon DEF apply_unregister, SyncTimer, AnyAdopted, TypeOK
    <3> QED BY <2>3, <2>4, <2>7, <3>1, <3>2, <3>3, <3>4 DEF TypeOK, apply_unregister, supervisors, jobs
  <2> QED BY <2>2, <2>5, <2>6, <2>7
<1> QED BY <1>1, <1>2

(* The scan found p dead and delivers its exit.                             *)
Found(p, verified, submitted) ==
  /\ Submitted(Erased(registry, p), submitted)
  /\ proc' = [proc EXCEPT ![p] = IF verified THEN "GONE" ELSE @]
  /\ registry' = Erased(registry, p)
  /\ timer' = SyncTimer(timer, Erased(registry, p), submitted)
  /\ BeginDelivery(p, verified, "SCAN")

(* The monitor finds a process dead, or delivers its exit.                  *)
LEMMA TypeScan ==
  ASSUME TypeOK, scan_registered \/ deliver, monitor.at = "DELIVER" => monitor.p \in Proc
  PROVE  TypeOK'
<1>1. ASSUME scan_registered, NEW p \in Registered, NEW verified \in scan_one(p),
             NEW submitted \in BOOLEAN, Found(p, verified, submitted)
      PROVE  TypeOK'
  <2>1. p \in Proc /\ verified \in BOOLEAN
    BY Zenon DEF Registered, scan_one
  <2>2. faults' \in 0..MaxFaults
    BY <1>1, TypeSubmitted DEF Found
  <2>3. proc' \in [Proc -> ProcState] /\ registry' \in [Proc -> {"NONE", "CHILD", "ADOPTED"}]
    BY <1>1, <2>1 DEF Found, Erased, TypeOK, ProcState
  <2>4. timer' \in BOOLEAN
    BY <1>1 DEF Found, SyncTimer, AnyAdopted, TypeOK
  <2>5. monitor' \in Monitor
    BY <1>1, <2>1, Zenon DEF Found, BeginDelivery, Monitor, TypeOK
  <2> QED BY <1>1, <2>2, <2>3, <2>4, <2>5 DEF scan_registered, TypeOK, supervisors, jobs
<1>2. ASSUME scan_registered, monitor' = [monitor EXCEPT !.at = "WAIT"],
             UNCHANGED <<proc, registry, timer, faults>>
      PROVE  TypeOK'
  BY <1>2, Zenon DEF scan_registered, TypeOK, Monitor, supervisors, jobs
<1>3. CASE scan_registered
  BY <1>1, <1>2, <1>3 DEF scan_registered, Found
<1>4. CASE deliver
  <2>1. PICK e : e = [p |-> monitor.p, verified |-> monitor.verified]
    BY Zenon
  <2>2. e \in Event
    BY <1>4, <2>1 DEF deliver, Event, Monitor, TypeOK
  <2>3. events' = Append(events, e) /\ Len(events) < EventCapacity /\ events \in Seq(Event)
    BY <1>4, <2>1 DEF deliver, TypeOK
  <2>4. events' \in Seq(Event) /\ Len(events') <= EventCapacity
    BY <2>2, <2>3, SupervisionAssumption
  <2>5. monitor' \in Monitor
    BY <1>4, Zenon DEF deliver, Delivered, Monitor, TypeOK
  <2> QED BY <1>4, <2>4, <2>5 DEF deliver, TypeOK, supervisors, jobs
<1> QED BY <1>3, <1>4

(* The types of the maps.                                                   *)
LEMMA MapTypes ==
  ASSUME SupInv
  PROVE  proc \in [Proc -> ProcState] /\ registry \in [Proc -> {"NONE", "CHILD", "ADOPTED"}]
BY DEF SupInv, TypeOK

-----------------------------------------------------------------------------
(* Steps the monitor has no part in.                                        *)

(* What a step that is not that of a process or of its manager may do.      *)
Evolves(p, s, t) ==
  /\ s \in Past => t \in Past
  /\ s \in Over => t \in Over
  /\ s \in {"NONE", "GONE", "REUSED"} => t \in {"NONE", "GONE", "REUSED"}
  /\ s \in {"FORKED", "FAILED", "UP", "ZOMBIE"} /\ p \notin Adopted =>
       t \in {"FORKED", "FAILED", "UP", "ZOMBIE"}
  /\ s \in {"UP", "ZOMBIE"} /\ p \notin Adopted => t \in {"UP", "ZOMBIE"}
  /\ s \in {"UP", "GONE", "REUSED"} /\ p \in Adopted => t \in {"UP", "GONE", "REUSED"}

(* The registry, the channels and the delivery under way stay.              *)
Unseen ==
  /\ UNCHANGED <<registry, commands, events>>
  /\ monitor' = monitor \/ (monitor.at # "DELIVER" /\ monitor'.at # "DELIVER")

(* Then what the monitor knows of a process stays as well.                  *)
LEMMA UnseenKept ==
  ASSUME Unseen, NEW p
  PROVE  /\ Asked(p)' = Asked(p) /\ Reported(p)' = Reported(p) /\ Known(p)' = Known(p)
         /\ Tracked(p)' = Tracked(p) /\ Pending(p)' = Pending(p)
         /\ Delivering(p)' = Delivering(p) /\ (Delivering(p) => monitor' = monitor)
<1>1. /\ registry' = registry /\ commands' = commands /\ events' = events
      /\ Delivering(p)' = Delivering(p) /\ (Delivering(p) => monitor' = monitor)
  BY DEF Unseen, Delivering
<1>2. Asked(p)' = Asked(p) /\ Reported(p)' = Reported(p)
  BY <1>1 DEF Asked, Reported
<1>3. Has(events, p)' = Has(events, p) /\ One(events, p)' = One(events, p)
  BY <1>1
<1>4. Known(p)' = Known(p) /\ Tracked(p)' = Tracked(p)
  BY <1>1, <1>2, <1>3 DEF Known, Tracked
<1>5. Pending(p)' = Pending(p)
  BY <1>1, <1>2 DEF Pending
<1> QED BY <1>1, <1>2, <1>4, <1>5

(* A step of the processes, or of the manager between two launches.         *)
LEMMA FrameSup ==
  ASSUME SupInv, TypeOK', Unseen, UNCHANGED <<by_pid, ack>>, adoptable' \subseteq adoptable,
         manager' = manager \/ (~Launching /\ ~Launching' /\ Alive),
         \A p \in Proc : Evolves(p, proc[p], proc'[p])
  PROVE  SupInv'
<1>1. ASSUME NEW p \in Proc
      PROVE  ProcOK(p)'
  <2>1. ProcOK(p) /\ Evolves(p, proc[p], proc'[p])
    BY DEF SupInv
  <2>2. /\ Asked(p)' = Asked(p) /\ Reported(p)' = Reported(p) /\ Known(p)' = Known(p)
        /\ Tracked(p)' = Tracked(p) /\ Delivering(p)' = Delivering(p)
        /\ (Delivering(p) => monitor' = monitor)
    BY UnseenKept
  <2>3. Wanted(p)' = Wanted(p)
    BY DEF Wanted, Launching, At
  <2>4. Reapable(p) => Reapable(p)'
    BY <2>1, <2>2, Zenon DEF Reapable, Unseen, Evolves
  <2>5. (Alive /\ p \notin by_pid /\ ~(Launching /\ p = manager.p))' =>
          (Alive /\ p \notin by_pid /\ ~(Launching /\ p = manager.p))
    BY DEF Alive, Launching
  <2>6. registry' = registry
    BY DEF Unseen
  <2> QED BY <2>1, <2>2, <2>3, <2>4, <2>5, <2>6, Zenon DEF ProcOK, Evolves
<1>2. ASSUME Launching'
      PROVE  LaunchOK'
  <2>1. LaunchOK /\ manager' = manager /\ Evolves(manager.p, proc[manager.p], proc'[manager.p])
    BY <1>2 DEF SupInv, LaunchOK, Launching
  <2>2. Known(manager.p)' = Known(manager.p) /\ Pending(manager.p)' = Pending(manager.p)
    <3>1. PICK p : p = manager.p
      OBVIOUS
    <3>2. Known(p)' = Known(p) /\ Pending(p)' = Pending(p)
      BY UnseenKept
    <3> QED BY <2>1, <3>1, <3>2
  <2> QED BY <2>1, <2>2, Zenon DEF LaunchOK, Evolves, At
<1>3. monitor'.at = "DELIVER" => monitor'.p \in Proc
  BY DEF SupInv, Unseen
<1> QED BY <1>1, <1>2, <1>3 DEF SupInv

(* The environment, the grace timer, the periodic task, the worker's loop.  *)
LEMMA QuietSup ==
  ASSUME SupInv, NEW p \in Proc,
         \/ run_child(p) \/ ProcessExits(p) \/ PidReused(p) \/ escalate(p)
         \/ Started \/ WaitForWakeup \/ CommandsDrained \/ TimerTick \/ wait_for_wakeup
  PROVE  SupInv'
<1>1. TypeOK' /\ TypeOK
  BY TypeProcesses DEF SupInv
<1>2. UNCHANGED <<registry, commands, events, by_pid, ack, adoptable>>
  BY DEF run_child, ProcessExits, PidReused, escalate, Started, WaitForWakeup, CommandsDrained,
         TimerTick, wait_for_wakeup, Others, jobs, reaper
<1>3. Unseen
  BY <1>1, <1>2 DEF run_child, ProcessExits, PidReused, escalate, Started, WaitForWakeup, CommandsDrained,
         TimerTick, wait_for_wakeup, Others, reaper, Unseen, TypeOK, Monitor
<1>4. manager' = manager \/ (~Launching /\ ~Launching' /\ Alive)
  BY DEF run_child, ProcessExits, PidReused, escalate, Started, WaitForWakeup, CommandsDrained,
         TimerTick, wait_for_wakeup, Others, Launching, Alive, At, Go
<1>5. proc \in [Proc -> ProcState]
  BY MapTypes
<1>6. ASSUME NEW q \in Proc
      PROVE  Evolves(q, proc[q], proc'[q])
  <2>1. CASE run_child(p)
    <3>1. /\ proc[p] = "FORKED"
          /\ proc' = [proc EXCEPT ![p] = "UP"] \/ proc' = [proc EXCEPT ![p] = "FAILED"]
      BY <2>1 DEF run_child
    <3>2. p \notin Adopted
      BY <3>1 DEF SupInv, ProcOK
    <3>3. CASE q = p
      BY <1>5, <3>1, <3>2, <3>3 DEF Evolves, Past, Over
    <3>4. CASE q # p
      BY <1>5, <3>1, <3>4 DEF Evolves
    <3> QED BY <3>3, <3>4
  <2>2. CASE ProcessExits(p) \/ escalate(p)
    <3>1. proc' = proc \/ (proc[p] = "UP" /\ proc' = [proc EXCEPT ![p] = Dead(p)])
      BY <2>2 DEF ProcessExits, escalate
    <3>2. CASE q = p
      BY <1>5, <3>1, <3>2 DEF Evolves, Past, Over, Dead
    <3>3. CASE q # p
      BY <1>5, <3>1, <3>3 DEF Evolves
    <3> QED BY <3>2, <3>3
  <2>3. CASE PidReused(p)
    BY <1>5, <2>3 DEF PidReused, Evolves, Past, Over
  <2>4. CASE proc' = proc
    BY <2>4 DEF Evolves
  <2> QED BY <2>1, <2>2, <2>3, <2>4
          DEF Started, WaitForWakeup, CommandsDrained, TimerTick, wait_for_wakeup
<1> QED BY <1>1, <1>2, <1>3, <1>4, <1>6, FrameSup

(* A cancellation.                                                          *)
LEMMA CancelSup ==
  ASSUME SupInv, NEW p \in Proc, begin_cancellation(p)
  PROVE  SupInv'
<1>1. TypeOK'
  BY TypeLaunch DEF SupInv, LaunchOK
<1>2. /\ Unseen /\ UNCHANGED <<by_pid, ack, adoptable, manager, proc>>
  BY DEF begin_cancellation, Unseen, jobs, reaper
<1>3. \A q \in Proc : Evolves(q, proc[q], proc'[q])
  BY <1>2 DEF Evolves
<1> QED BY <1>1, <1>2, <1>3, FrameSup

(* A launch or adoption that ends without a supervised process.             *)
LEMMA AbandonSup ==
  ASSUME SupInv, TypeOK', Unseen, UNCHANGED <<by_pid, adoptable>>, Launching, ~Launching', Alive',
         proc' = [proc EXCEPT ![manager.p] = IF @ = "REUSED" THEN @ ELSE "GONE"]
  PROVE  SupInv'
<1>1. PICK j : j = manager.p /\ j \in Proc /\ j \notin by_pid
  BY DEF SupInv, LaunchOK
<1>2. proc \in [Proc -> ProcState]
  BY DEF SupInv, TypeOK
<1>3. proc'[j] \in Over /\ \A p \in Proc : p # j => proc'[p] = proc[p]
  BY <1>1, <1>2 DEF Over
<1>4. ASSUME NEW p \in Proc
      PROVE  ProcOK(p)'
  <2>1. ProcOK(p)
    BY DEF SupInv
  <2>2. /\ Asked(p)' = Asked(p) /\ Reported(p)' = Reported(p) /\ Known(p)' = Known(p)
        /\ Tracked(p)' = Tracked(p) /\ Delivering(p)' = Delivering(p)
        /\ (Delivering(p) => monitor' = monitor)
    BY UnseenKept
  <2>3. Wanted(p)' => p \in by_pid /\ Wanted(p) /\ p # j
    BY <1>1 DEF Wanted, Launching, At
  <2>4. p # j => (Reapable(p) => Reapable(p)')
    BY <1>3, <2>2 DEF Reapable, Unseen
  <2>5. registry' = registry
    BY DEF Unseen
  <2>6. CASE p = j
    BY <1>3, <2>1, <2>2, <2>3, <2>5, <2>6 DEF ProcOK, Past, Over
  <2>7. CASE p # j
    BY <1>1, <1>3, <2>1, <2>2, <2>3, <2>4, <2>5, <2>7 DEF ProcOK, Alive, Launching
  <2> QED BY <2>6, <2>7
<1>5. monitor'.at = "DELIVER" => monitor'.p \in Proc
  BY DEF SupInv, Unseen
<1> QED BY <1>4, <1>5 DEF SupInv

(* fail_launch.                                                             *)
LEMMA FailLaunchSup ==
  ASSUME SupInv, Launching, fail_launch
  PROVE  SupInv'
<1>1. TypeOK'
  BY TypeFailLaunch DEF SupInv, LaunchOK
<1>2. /\ Unseen /\ UNCHANGED <<by_pid, adoptable>>
      /\ proc' = [proc EXCEPT ![manager.p] = IF @ = "REUSED" THEN @ ELSE "GONE"]
  BY DEF fail_launch, Destroyed, Unseen, jobs, reaper
<1>3. ~Launching' /\ Alive'
  BY DEF fail_launch, Back, Go, Launching, Alive
<1> QED BY <1>1, <1>2, <1>3, AbandonSup

(* A supervised process is known to the monitor.                            *)
LEMMA TrackedKnown ==
  ASSUME NEW p, Tracked(p)
  PROVE  Known(p)
BY DEF Tracked, Known, Reported, One, Has

(* A launch begins, or comes to its registration.                           *)
LEMMA EnterSup ==
  ASSUME SupInv, TypeOK', Unseen, UNCHANGED by_pid, adoptable' \subseteq adoptable, Alive,
         NEW j \in Proc, j = manager'.p, manager'.at \in {"CONFIRM", "REGISTER"},
         ~Launching \/ manager.p = j, j \notin by_pid, LaunchOK',
         \A p \in Proc : p # j => proc'[p] = proc[p],
         proc'[j] = proc[j] \/ (~Known(j) /\ j \notin Adopted)
  PROVE  SupInv'
<1>1. ASSUME NEW p \in Proc
      PROVE  ProcOK(p)'
  <2>1. ProcOK(p)
    BY DEF SupInv
  <2>2. /\ Asked(p)' = Asked(p) /\ Reported(p)' = Reported(p) /\ Known(p)' = Known(p)
        /\ Tracked(p)' = Tracked(p) /\ Delivering(p)' = Delivering(p)
        /\ (Delivering(p) => monitor' = monitor)
    BY UnseenKept, Zenon
  <2>3. Wanted(p)' => Wanted(p) /\ p # j
    BY Zenon DEF Wanted, At
  <2>4. p # j => (Reapable(p) => Reapable(p)')
    BY <2>2, Zenon DEF Reapable, Unseen
  <2>5. registry' = registry
    BY DEF Unseen
  <2>6. CASE p = j
    BY <2>1, <2>2, <2>3, <2>5, <2>6, Zenon DEF ProcOK, Launching, Known
  <2>7. CASE p # j
    BY <2>1, <2>2, <2>3, <2>4, <2>5, <2>7, Zenon DEF ProcOK, Alive, Launching
  <2> QED BY <2>6, <2>7
<1>2. monitor'.at = "DELIVER" => monitor'.p \in Proc
  BY Zenon DEF SupInv, Unseen
<1> QED BY <1>1, <1>2 DEF SupInv

(* adopt.                                                                   *)
LEMMA AdoptSup ==
  ASSUME SupInv, NEW p \in Proc, adopt(p)
  PROVE  SupInv'
<1>1. TypeOK'
  BY TypeLaunch DEF SupInv, LaunchOK
<1>2. Unseen /\ UNCHANGED <<proc, by_pid, ack>> /\ adoptable' = adoptable \ {p} /\ p \in adoptable /\ Alive
      /\ ~Launching
  BY DEF adopt, Unseen, reaper, Alive, At, Launching
<1>3. CASE SameTicks(p)
  <2>1. manager' = [at |-> "REGISTER", p |-> p]
    BY <1>3 DEF adopt, Go
  <2>2. ~Known(p) /\ p \notin by_pid
    BY <1>2, TrackedKnown, Zenon DEF SupInv, ProcOK, Wanted
  <2>3. ~Known(p)'
    BY <1>2, <2>2, UnseenKept
  <2>4. p \in Adopted /\ proc'[p] \in Past
    BY <1>2, <1>3 DEF SupInv, TypeOK, SameTicks, Past
  <2>5. LaunchOK'
    BY <1>2, <2>1, <2>2, <2>3, <2>4 DEF LaunchOK, At
  <2> QED BY <1>1, <1>2, <2>1, <2>2, <2>5, EnterSup
<1>4. CASE ~SameTicks(p)
  <2>1. UNCHANGED manager
    BY <1>4 DEF adopt
  <2>2. \A q \in Proc : Evolves(q, proc[q], proc'[q])
    BY <1>2 DEF Evolves
  <2> QED BY <1>1, <1>2, <2>1, <2>2, FrameSup
<1> QED BY <1>3, <1>4

(* spawn.                                                                   *)
LEMMA SpawnSup ==
  ASSUME SupInv, NEW p \in Proc, spawn(p)
  PROVE  SupInv'
<1>1. TypeOK'
  BY TypeLaunch DEF SupInv, LaunchOK
<1> proc \in [Proc -> ProcState] /\ adoptable \subseteq Adopted
  BY DEF SupInv, TypeOK
<1>2. Unseen /\ UNCHANGED <<by_pid, ack, adoptable>> /\ proc[p] = "NONE" /\ Alive /\ ~Launching
  BY DEF spawn, Unseen, jobs, reaper, Alive, At, Launching
<1>3. ~Known(p) /\ p \notin by_pid /\ p \notin Adopted
  BY <1>2, TrackedKnown, Zenon DEF SupInv, ProcOK, Wanted, Past
<1>4. CASE proc' = [proc EXCEPT ![p] = "FORKED"] /\ Go("CONFIRM", p)
  <2>1. manager' = [at |-> "CONFIRM", p |-> p]
    BY <1>4 DEF Go
  <2>2. ~Known(p)'
    BY <1>2, <1>3, UnseenKept
  <2>3. p \notin adoptable' /\ proc'[p] = "FORKED" /\ \A q \in Proc : q # p => proc'[q] = proc[q]
    BY <1>2, <1>3, <1>4
  <2>4. LaunchOK'
    BY <1>2, <1>3, <2>1, <2>2, <2>3 DEF LaunchOK, At
  <2> QED BY <1>1, <1>2, <1>3, <2>1, <2>3, <2>4, EnterSup
<1>5. CASE proc' = [proc EXCEPT ![p] = "GONE"] /\ UNCHANGED manager
  <2>1. \A q \in Proc : Evolves(q, proc[q], proc'[q])
    BY <1>2, <1>3, <1>5 DEF Evolves, Past, Over
  <2> QED BY <1>1, <1>2, <1>5, <2>1, FrameSup
<1> QED BY <1>4, <1>5 DEF spawn

(* The confirmation of exec.                                                *)
LEMMA ConfirmSup ==
  ASSUME SupInv, Confirm
  PROVE  SupInv'
<1>1. TypeOK'
  <2>1. \E p : p \in Proc
    BY Zenon DEF SupInv, LaunchOK, Confirm, At, Launching
  <2> QED BY <2>1, TypeLaunch, Zenon DEF SupInv, LaunchOK
<1>2. Unseen /\ UNCHANGED <<by_pid, ack, adoptable>> /\ manager.at = "CONFIRM" /\ Launching /\ Alive
  BY Zenon DEF Confirm, Unseen, jobs, reaper, Alive, At, Launching
<1>3. PICK j \in Proc : j = manager.p /\ j \notin by_pid /\ j \notin adoptable /\ j \notin Adopted /\ ~Known(j)
  BY <1>2, Zenon DEF SupInv, LaunchOK
<1>4. CASE Confirmed(j) /\ Go("REGISTER", j) /\ UNCHANGED proc
  <2>1. manager' = [at |-> "REGISTER", p |-> j]
    BY <1>4 DEF Go
  <2>2. ~Known(j)'
    BY <1>2, <1>3, UnseenKept
  <2>3. proc'[j] \in Past /\ proc'[j] \in {"UP", "ZOMBIE"}
    BY <1>4 DEF Confirmed, Past
  <2>4. LaunchOK'
    BY <1>2, <1>3, <2>1, <2>2, <2>3, Zenon DEF LaunchOK, At
  <2> QED BY <1>1, <1>2, <1>3, <1>4, <2>1, <2>4, EnterSup, Zenon
<1>5. CASE Destroyed(j) /\ Back(j)
  <2>1. proc' = [proc EXCEPT ![manager.p] = IF @ = "REUSED" THEN @ ELSE "GONE"]
    BY <1>3, <1>5 DEF Destroyed
  <2>2. ~Launching' /\ Alive'
    BY <1>5 DEF Back, Go, Launching, Alive
  <2> QED BY <1>1, <1>2, <2>1, <2>2, AbandonSup
<1> QED BY <1>3, <1>4, <1>5, Zenon DEF Confirm

(* What a sequence has after one element is appended, ...                   *)
LEMMA AppendHas ==
  ASSUME NEW S, NEW s \in Seq(S), NEW e, NEW t, t = Append(s, e), NEW p
  PROVE  /\ Has(t, p) <=> (Has(s, p) \/ e.p = p)
         /\ e.p # p => (One(t, p) <=> One(s, p))
         /\ e.p = p /\ ~Has(s, p) => One(t, p)
<1>1. PICK n \in Nat : n = Len(s) /\ DOMAIN s = 1..n
  OBVIOUS
<1>2. /\ DOMAIN t = 1..(n + 1) /\ t[n + 1] = e
      /\ \A i \in 1..n : t[i] = s[i]
  BY <1>1
<1>3. Has(t, p) <=> (Has(s, p) \/ e.p = p)
  <2>1. ASSUME Has(t, p) PROVE Has(s, p) \/ e.p = p
    BY <1>1, <1>2, <2>1 DEF Has
  <2>2. ASSUME Has(s, p) \/ e.p = p PROVE Has(t, p)
    <3>1. n + 1 \in DOMAIN t /\ \A i \in DOMAIN s : i \in DOMAIN t /\ t[i] = s[i]
      BY <1>1, <1>2
    <3> QED BY <1>2, <2>2, <3>1 DEF Has
  <2> QED BY <2>1, <2>2
<1>4. ASSUME e.p # p PROVE (One(t, p) <=> One(s, p))
  BY <1>1, <1>2, <1>4 DEF One
<1>5. ASSUME e.p = p, ~Has(s, p) PROVE One(t, p)
  BY <1>1, <1>2, <1>5 DEF One, Has
<1> QED BY <1>3, <1>4, <1>5

(* ... what its tail is, ...                                                *)
LEMMA TailAt ==
  ASSUME NEW S, NEW s \in Seq(S), s # <<>>, NEW t, t = Tail(s)
  PROVE  \A i \in DOMAIN t : i + 1 \in DOMAIN s /\ t[i] = s[i + 1]
OBVIOUS

(* ... and what it has after its head has been taken.                       *)
LEMMA TailHas ==
  ASSUME NEW S, NEW s \in Seq(S), s # <<>>, NEW t, t = Tail(s), NEW p
  PROVE  /\ Has(t, p) => Has(s, p)
         /\ Head(s).p # p => (Has(t, p) <=> Has(s, p)) /\ (One(t, p) <=> One(s, p))
         /\ Head(s).p = p => Has(s, p) /\ (One(s, p) => ~Has(t, p))
<1>1. PICK n \in Nat : n + 1 = Len(s) /\ DOMAIN s = 1..(n + 1) /\ Head(s) = s[1]
  <2>1. Len(s) \in Nat \ {0} /\ DOMAIN s = 1..Len(s) /\ Head(s) = s[1]
    OBVIOUS
  <2>2. Len(s) - 1 \in Nat /\ (Len(s) - 1) + 1 = Len(s)
    BY <2>1
  <2> QED BY <2>1, <2>2, Zenon
<1>2. DOMAIN t = 1..n /\ \A i \in 1..n : t[i] = s[i + 1]
  BY <1>1
<1>3. \A i \in DOMAIN t : i + 1 \in DOMAIN s /\ t[i] = s[i + 1]
  BY <1>1, <1>2
<1>4. Has(t, p) => Has(s, p)
  BY <1>3 DEF Has
<1>5. ASSUME Head(s).p # p PROVE (Has(t, p) <=> Has(s, p)) /\ (One(t, p) <=> One(s, p))
  <2>1. \A i \in DOMAIN s : s[i].p = p => i - 1 \in DOMAIN t /\ t[i - 1] = s[i]
    BY <1>1, <1>2, <1>5
  <2>2. Has(s, p) => Has(t, p)
    BY <2>1 DEF Has
  <2>3. ASSUME One(t, p) PROVE One(s, p)
    <3>1. PICK i \in DOMAIN t : t[i].p = p /\ \A k \in DOMAIN t : t[k].p = p => k = i
      BY <2>3 DEF One
    <3>2. \A k \in DOMAIN s : s[k].p = p => k = i + 1
      BY <1>1, <1>2, <2>1, <3>1
    <3> QED BY <1>3, <3>1, <3>2 DEF One
  <2>4. ASSUME One(s, p) PROVE One(t, p)
    <3>1. PICK i \in DOMAIN s : s[i].p = p /\ \A k \in DOMAIN s : s[k].p = p => k = i
      BY <2>4 DEF One
    <3>2. \A k \in DOMAIN t : t[k].p = p => k = i - 1
      BY <1>1, <1>2, <1>3, <3>1
    <3> QED BY <2>1, <3>1, <3>2 DEF One
  <2> QED BY <1>4, <2>2, <2>3, <2>4, Zenon DEF One, Has
<1>6. ASSUME Head(s).p = p PROVE Has(s, p) /\ (One(s, p) => ~Has(t, p))
  BY <1>1, <1>2, <1>6 DEF Has, One
<1> QED BY <1>4, <1>5, <1>6

-----------------------------------------------------------------------------
(* Registration.                                                            *)

(* A command is sent for the process being launched.                        *)
LEMMA SendSup ==
  ASSUME SupInv, manager.at \in {"REGISTER", "UNREGISTER"},
         NEW kind, NEW there, Send(kind, there),
         \/ At("REGISTER") /\ kind = "REGISTER" /\ there = "REGISTERING"
         \/ At("UNREGISTER") /\ kind = "UNREGISTER" /\ there = "UNREGISTERING"
  PROVE  SupInv'
<1>1. PICK j \in Proc : /\ j = manager.p /\ j \notin by_pid /\ j \notin adoptable
                        /\ At("UNREGISTER") => j \notin Adopted
                        /\ At("REGISTER") => ~Known(j)
                        /\ At("REGISTER") /\ j \notin Adopted => proc[j] \in {"UP", "ZOMBIE"}
                        /\ proc[j] \in Past
  BY Zenon DEF SupInv, LaunchOK, At, Launching
<1>2. PICK c : c = [kind |-> kind, p |-> j]
  BY Zenon
<1>3. /\ commands' = Append(commands, c) /\ c.p = j /\ c.kind = kind /\ commands \in Seq(Command)
      /\ manager' = [at |-> there, p |-> j] /\ ack' = "NONE"
      /\ UNCHANGED <<proc, by_pid, adoptable, monitor, registry, events>>
  BY <1>1, <1>2, Zenon DEF Send, Go, SupInv, TypeOK, jobs, reaper
<1>4. TypeOK'
  BY <1>1, TypeSend, Zenon DEF SupInv
<1>5. ASSUME NEW p \in Proc
      PROVE  ProcOK(p)'
  <2>1. ProcOK(p)
    BY DEF SupInv
  <2>2. Asked(p)' <=> (Asked(p) \/ p = j)
    BY <1>3, AppendHas, Zenon DEF Asked
  <2>3. /\ Delivering(p)' <=> Delivering(p)
        /\ Reported(p)' <=> Reported(p)
        /\ Tracked(p)' <=> Tracked(p)
        /\ Reapable(p)' <=> Reapable(p)
    BY <1>3, Zenon DEF Delivering, Reported, Tracked, Reapable
  <2>4. Wanted(p)' => Wanted(p) /\ p # j
    BY <1>1, <1>3, Zenon DEF Wanted, At
  <2>5. (Alive /\ ~(Launching /\ p = manager.p))' => Alive /\ ~(Launching /\ p = manager.p)
    BY <1>1, <1>3, Zenon DEF Alive, Launching, At
  <2>6. Known(p)' => Known(p) \/ p = j
    BY <1>3, <2>2, <2>3, Zenon DEF Known
  <2> QED BY <1>1, <1>3, <2>1, <2>2, <2>3, <2>4, <2>5, <2>6, Zenon DEF ProcOK
<1>6. At("REGISTER") => Pending(j)'
  <2>1. ASSUME At("REGISTER") PROVE Pending(j)'
    <3>1. kind = "REGISTER" /\ ~Has(commands, j) /\ registry[j] = "NONE" /\ ~Reported(j)
      BY <1>1, <2>1 DEF Known, Asked, At
    <3>2. One(commands', j)
      BY <1>3, <3>1, AppendHas, Zenon
    <3>3. PICK n \in Nat : n = Len(commands) /\ DOMAIN commands = 1..n
      BY <1>3
    <3>4. DOMAIN commands' = 1..(n + 1) /\ commands'[n + 1] = c /\ \A i \in 1..n : commands'[i] = commands[i]
      BY <1>3, <3>3
    <3>5. \A i \in DOMAIN commands' : commands'[i].p = j => commands'[i].kind = "REGISTER"
      BY <1>3, <3>1, <3>3, <3>4 DEF Has
    <3>6. registry'[j] = "NONE" /\ ~Reported(j)'
      BY <1>3, <3>1, Zenon DEF Reported, Delivering
    <3> QED BY <3>2, <3>5, <3>6 DEF Pending
  <2> QED BY <2>1
<1>7. LaunchOK'
  BY <1>1, <1>3, <1>6, Zenon DEF LaunchOK, At
<1>8. monitor'.at = "DELIVER" => monitor'.p \in Proc
  BY <1>3, Zenon DEF SupInv
<1> QED BY <1>4, <1>5, <1>7, <1>8 DEF SupInv

(* The acknowledgement is read and the process is supervised.               *)
LEMMA KeepSup ==
  ASSUME SupInv, TypeOK', UNCHANGED <<proc, adoptable, monitor, registry, commands, events>>,
         Launching, Wanted(manager.p), Alive',
         \/ by_pid' = by_pid \cup {manager.p} /\ ~Launching'
         \/ /\ by_pid' = by_pid /\ manager'.p = manager.p /\ manager.p \notin Adopted
            /\ manager'.at \in {"ATTACH", "UNREGISTER"}
  PROVE  SupInv'
<1>1. PICK j \in Proc : /\ j = manager.p /\ j \notin by_pid /\ j \notin adoptable /\ proc[j] \in Past
  <2>1. ~At("CONFIRM")
    BY Zenon DEF SupInv, LaunchOK, Wanted, At
  <2> QED BY <2>1, Zenon DEF SupInv, LaunchOK
<1>2. Unseen
  BY DEF Unseen
<1>3. ASSUME NEW p \in Proc
      PROVE  ProcOK(p)'
  <2>1. ProcOK(p)
    BY Zenon DEF SupInv
  <2>2. /\ Asked(p)' = Asked(p) /\ Reported(p)' = Reported(p) /\ Known(p)' = Known(p)
        /\ Tracked(p)' = Tracked(p) /\ Delivering(p)' = Delivering(p)
    BY <1>2, UnseenKept, Zenon
  <2>3. Wanted(p)' => Wanted(p)
    BY <1>1, Zenon DEF Wanted, At, Launching
  <2>4. Reapable(p) => Reapable(p)'
    BY <2>2, Zenon DEF Reapable
  <2>5. (Alive /\ p \notin by_pid /\ ~(Launching /\ p = manager.p))' =>
          Alive /\ p \notin by_pid /\ ~(Launching /\ p = manager.p)
    BY <1>1 DEF Alive, Launching
  <2> QED BY <2>1, <2>2, <2>3, <2>4, <2>5, Zenon DEF ProcOK
<1>4. Launching' => LaunchOK'
  BY <1>1, Zenon DEF LaunchOK, At, Launching
<1>5. monitor'.at = "DELIVER" => monitor'.p \in Proc
  BY DEF SupInv
<1> QED BY <1>3, <1>4, <1>5, Zenon DEF SupInv

(* register_process, its completion, attach and unregister_process.         *)
LEMMA RegisterSup ==
  ASSUME SupInv, register_process \/ AwaitRegistered \/ attach \/ unregister_process
  PROVE  SupInv'
<1>1. Launching /\ manager.p \in Proc
  BY Zenon DEF register_process, AwaitRegistered, attach, unregister_process, At, Launching, SupInv, LaunchOK
<1>2. TypeOK'
  BY <1>1, TypeLaunch DEF SupInv
<1>3. CASE fail_launch
  BY <1>1, <1>3, FailLaunchSup
<1>4. CASE \/ At("REGISTER") /\ Send("REGISTER", "REGISTERING")
           \/ At("UNREGISTER") /\ Send("UNREGISTER", "UNREGISTERING")
  BY <1>4, SendSup DEF At
<1>5. CASE AwaitRegistered /\ ~fail_launch
  <2>1. /\ At("REGISTERING") /\ ack = "REGISTERED"
        /\ UNCHANGED <<proc, adoptable, monitor, registry, commands, events>>
        /\ IF manager.p \in Adopted
           THEN Back(manager.p) /\ by_pid' = by_pid \cup {manager.p}
           ELSE Go("ATTACH", manager.p) /\ UNCHANGED by_pid
    BY <1>5 DEF AwaitRegistered, reaper
  <2>2. Wanted(manager.p)
    BY <2>1 DEF Wanted
  <2>3. Alive' /\ (manager.p \in Adopted => ~Launching')
    BY <2>1 DEF Back, Go, Alive, Launching
  <2> QED BY <1>1, <1>2, <2>1, <2>2, <2>3, KeepSup DEF Go
<1>6. CASE attach
  <2>1. /\ At("ATTACH") /\ UNCHANGED <<proc, adoptable, monitor, registry, commands, events>>
        /\ \/ by_pid' = by_pid \cup {manager.p} /\ Back(manager.p)
           \/ by_pid' = by_pid /\ Go("UNREGISTER", manager.p)
    BY <1>6 DEF attach, reaper
  <2>2. Wanted(manager.p) /\ manager.p \notin Adopted
    BY <1>1, <2>1, Zenon DEF Wanted, SupInv, LaunchOK, At
  <2>3. Alive' /\ (Back(manager.p) => ~Launching')
    BY <2>1 DEF Back, Go, Alive, Launching
  <2> QED BY <1>1, <1>2, <2>1, <2>2, <2>3, KeepSup DEF Go
<1> QED BY <1>3, <1>4, <1>5, <1>6 DEF register_process, unregister_process

-----------------------------------------------------------------------------
(* The monitor.                                                             *)

(* deliver: the event of the process moves into the channel.                *)
LEMMA DeliverSup ==
  ASSUME SupInv, deliver
  PROVE  SupInv'
<1>1. TypeOK'
  BY TypeScan DEF SupInv
<1>2. PICK j, e : j = monitor.p /\ e = [p |-> monitor.p, verified |-> monitor.verified]
  BY Zenon
<1>3. /\ events' = Append(events, e) /\ e.p = j /\ e.verified = monitor.verified /\ events \in Seq(Event)
      /\ monitor.at = "DELIVER" /\ monitor' = Delivered /\ monitor \in Monitor
      /\ UNCHANGED <<proc, by_pid, adoptable, manager, registry, commands, ack>>
  BY <1>2, Zenon DEF deliver, SupInv, TypeOK, jobs
<1>4. \A p : ~Delivering(p)' /\ (Delivering(p) <=> p = j)
  BY <1>2, <1>3 DEF Delivered, Delivering, Monitor
<1>5. PICK n \in Nat : n = Len(events) /\ DOMAIN events = 1..n
  BY <1>3
<1>6. DOMAIN events' = 1..(n + 1) /\ events'[n + 1] = e /\ \A i \in 1..n : events'[i] = events[i]
  BY <1>3, <1>5
<1>7. ASSUME NEW p \in Proc
      PROVE  ProcOK(p)' /\ (Known(p)' <=> Known(p)) /\ (Pending(p) => Pending(p)')
  <2>1. ProcOK(p)
    BY DEF SupInv
  <2>2. /\ Has(events, p)' <=> (Has(events, p) \/ p = j)
        /\ p # j => (One(events, p)' <=> One(events, p))
        /\ p = j /\ ~Has(events, p) => One(events, p)'
    BY <1>3, AppendHas, Zenon
  <2>3. (Asked(p)' <=> Asked(p)) /\ (Reported(p)' <=> Reported(p))
    BY <1>3, <1>4, <2>2, Zenon DEF Asked, Reported
  <2>4. Known(p)' <=> Known(p)
    BY <1>3, <2>3, Zenon DEF Known
  <2>5. Tracked(p) => Tracked(p)'
    BY <1>3, <1>4, <2>2, Zenon DEF Tracked
  <2>6. Reapable(p) => Reapable(p)'
    <3>1. ASSUME Reapable(p), p \notin Adopted, NEW i \in DOMAIN events', events'[i].p = p
          PROVE  events'[i].verified
      <4>1. CASE i = n + 1
        BY <1>3, <1>4, <1>6, <3>1, <4>1, Zenon DEF Reapable
      <4>2. CASE i # n + 1
        BY <1>5, <1>6, <3>1, <4>2 DEF Reapable
      <4> QED BY <4>1, <4>2
    <3> QED BY <1>3, <1>4, <3>1, Zenon DEF Reapable
  <2>7. Wanted(p)' <=> Wanted(p)
    BY <1>3 DEF Wanted, At
  <2>8. Pending(p) => Pending(p)'
    BY <1>3, <2>3, Zenon DEF Pending
  <2>9. ProcOK(p)'
    BY <1>3, <2>1, <2>3, <2>4, <2>5, <2>6, <2>7, Zenon DEF ProcOK, Alive, Launching
  <2> QED BY <2>4, <2>8, <2>9
<1>8. Launching' => LaunchOK'
  <2>1. ASSUME Launching PROVE LaunchOK'
    <3>1. PICK p \in Proc : p = manager.p
      BY <2>1, Zenon DEF SupInv, LaunchOK
    <3>2. (Known(p)' <=> Known(p)) /\ (Pending(p) => Pending(p)')
      BY <1>7
    <3> QED BY <1>3, <2>1, <3>1, <3>2, Zenon DEF SupInv, LaunchOK, At
  <2> QED BY <1>3, <2>1, Zenon DEF Launching
<1>9. monitor'.at = "DELIVER" => monitor'.p \in Proc
  BY <1>2, <1>3, <1>4 DEF Delivered, Monitor
<1> QED BY <1>1, <1>7, <1>8, <1>9, Zenon DEF SupInv

(* scan_registered: the entry goes, the delivery begins.                    *)
LEMMA FoundSup ==
  ASSUME SupInv, scan_registered, NEW p \in Registered, NEW verified \in scan_one(p),
         NEW submitted, Found(p, verified, submitted)
  PROVE  SupInv'
<1>1. TypeOK' /\ TypeOK /\ p \in Proc /\ registry[p] # "NONE"
  BY TypeScan, Zenon DEF SupInv, Registered
<1>2. /\ UNCHANGED <<by_pid, adoptable, manager, commands, ack, events>>
      /\ monitor.at = "SCAN" /\ registry' = [registry EXCEPT ![p] = "NONE"]
      /\ proc' = [proc EXCEPT ![p] = IF verified THEN "GONE" ELSE @]
      /\ monitor'.at = "DELIVER" /\ monitor'.p = p /\ monitor'.verified = verified
  BY <1>1, Zenon DEF scan_registered, Found, BeginDelivery, Erased, jobs, TypeOK, Monitor
<1>3. \A q : ~Delivering(q) /\ (Delivering(q)' <=> q = p)
  BY <1>2, Zenon DEF Delivering
<1>4. /\ registry'[p] = "NONE" /\ \A q \in Proc : q # p => registry'[q] = registry[q] /\ proc'[q] = proc[q]
  BY <1>1, <1>2, MapTypes, Zenon
<1>5. proc'[p] \in Over /\ (Wanted(p) /\ p \notin Adopted => verified)
  <2>1. ProcOK(p) /\ Known(p)
    BY <1>1, Zenon DEF SupInv, Known
  <2>2. proc[p] \in Past /\ (Wanted(p) /\ p \notin Adopted => registry[p] = "CHILD" /\ proc[p] \in {"UP", "ZOMBIE"})
    BY <1>1, <2>1, Zenon DEF ProcOK, Reapable
  <2>3. registry[p] = "CHILD" \/ registry[p] = "ADOPTED"
    BY <1>1, Zenon DEF TypeOK
  <2>4. registry[p] = "CHILD" => p \notin Adopted
    BY <2>1, Zenon DEF ProcOK
  <2>5. proc'[p] = IF verified THEN "GONE" ELSE proc[p]
    BY <1>1, <1>2, Zenon DEF TypeOK
  <2> QED BY <2>2, <2>3, <2>4, <2>5, Zenon DEF scan_one, SameTicks, waitpid, Past, Over
<1>6. ASSUME NEW q \in Proc
      PROVE  ProcOK(q)' /\ (Known(q)' <=> Known(q)) /\ (Pending(q) => Pending(q)')
  <2>1. ProcOK(q)
    BY DEF SupInv
  <2>2. (Asked(q)' <=> Asked(q)) /\ (Has(events, q)' <=> Has(events, q)) /\ (One(events, q)' <=> One(events, q))
    BY <1>2 DEF Asked
  <2>3. (Reported(q)' <=> (Reported(q) \/ q = p)) /\ (Known(q)' <=> Known(q))
    BY <1>1, <1>3, <1>4, <2>2, Zenon DEF Reported, Known
  <2>4. Wanted(q)' <=> Wanted(q)
    BY <1>2 DEF Wanted, At
  <2>5. Tracked(q) => Tracked(q)'
    BY <1>1, <1>3, <1>4, <2>2, Zenon DEF Tracked
  <2>6. Wanted(q) /\ Reapable(q) => Reapable(q)'
    BY <1>2, <1>3, <1>4, <1>5, Zenon DEF Reapable
  <2>7. Pending(q) => Pending(q)'
    BY <1>1, <1>2, <1>4, <2>3, Zenon DEF Pending
  <2>8. ProcOK(q)'
    BY <1>2, <1>4, <1>5, <2>1, <2>2, <2>3, <2>4, <2>5, <2>6, Zenon DEF ProcOK, Alive, Launching, Over, Past
  <2> QED BY <2>3, <2>7, <2>8
<1>7. Launching' => LaunchOK'
  <2>1. ASSUME Launching PROVE LaunchOK'
    <3>1. PICK q \in Proc : q = manager.p
      BY <2>1, Zenon DEF SupInv, LaunchOK
    <3>2. (Known(q)' <=> Known(q)) /\ (Pending(q) => Pending(q)')
      BY <1>6
    <3>3. q = p => Known(q) /\ ~Pending(q) /\ ~(At("REGISTERING") /\ ack # "REGISTERED")
                   /\ manager.at \notin {"CONFIRM", "REGISTER"}
      BY <1>1, <2>1, <3>1, Zenon DEF Known, Pending, SupInv, LaunchOK
    <3>4. LaunchOK
      BY <2>1 DEF SupInv
    <3>5. CASE q = p
      BY <1>2, <1>5, <3>1, <3>3, <3>4, <3>5, Zenon DEF LaunchOK, At, Past, Over
    <3>6. CASE q # p
      BY <1>2, <1>4, <3>1, <3>2, <3>4, <3>6, Zenon DEF LaunchOK, At
    <3> QED BY <3>5, <3>6
  <2> QED BY <1>2, <2>1 DEF Launching
<1> QED BY <1>1, <1>2, <1>6, <1>7, Zenon DEF SupInv

(* A step of the monitor for p, by which nothing changes for the others.    *)
LEMMA OnlyForSup ==
  ASSUME SupInv, TypeOK', NEW p \in Proc,
         UNCHANGED <<by_pid, adoptable, manager, events>>,
         \A q \in Proc : q # p =>
           /\ registry'[q] = registry[q] /\ proc'[q] = proc[q]
           /\ (Asked(q)' <=> Asked(q)) /\ (Delivering(q)' <=> Delivering(q))
           /\ (Delivering(q) => monitor' = monitor) /\ (Pending(q) => Pending(q)'),
         manager.p # p => ack' = ack,
         Launching /\ manager.p = p => LaunchOK', ProcOK(p)',
         monitor'.at = "DELIVER" => monitor'.p \in Proc
  PROVE  SupInv'
<1>1. ASSUME NEW q \in Proc, q # p
      PROVE  ProcOK(q)' /\ (Known(q)' <=> Known(q))
  <2>1. ProcOK(q)
    BY Zenon DEF SupInv
  <2>2. (Reported(q)' <=> Reported(q)) /\ (Known(q)' <=> Known(q))
    BY <1>1, Zenon DEF Reported, Known
  <2>3. (Wanted(q)' <=> Wanted(q))
    BY <1>1, Zenon DEF Wanted, At
  <2>4. (Tracked(q) => Tracked(q)') /\ (Reapable(q) => Reapable(q)')
    BY <1>1, Zenon DEF Tracked, Reapable
  <2> QED BY <1>1, <2>1, <2>2, <2>3, <2>4, Zenon DEF ProcOK, Alive, Launching
<1>2. ASSUME Launching', manager.p # p
      PROVE  LaunchOK'
  <2>1. PICK q \in Proc : q = manager.p /\ q # p /\ LaunchOK
    BY <1>2, Zenon DEF SupInv, LaunchOK, Launching
  <2>2. (Known(q)' <=> Known(q)) /\ (Pending(q) => Pending(q)')
    BY <1>1, <2>1, Zenon
  <2> QED BY <2>1, <2>2, Zenon DEF LaunchOK, At
<1> QED BY <1>1, <1>2, Zenon DEF SupInv, Launching

(* What is left of the commands once that of p has been taken.              *)
LEMMA TakenCommand ==
  ASSUME commands \in Seq(Command), commands # <<>>, commands' = Tail(commands),
         NEW p, Head(commands).p = p
  PROVE  /\ Asked(p) /\ (One(commands, p) => ~Asked(p)')
         /\ \A q : q # p =>
              /\ Asked(q)' <=> Asked(q)
              /\ (registry'[q] = registry[q] /\ (Reported(q)' <=> Reported(q)) => (Pending(q) => Pending(q)'))
<1>1. Has(commands, p) /\ (One(commands, p) => ~Has(commands', p))
  BY TailHas, Zenon
<1>2. \A i \in DOMAIN commands' : i + 1 \in DOMAIN commands /\ commands'[i] = commands[i + 1]
  BY TailAt
<1>3. ASSUME NEW q, q # p
      PROVE  (Has(commands', q) <=> Has(commands, q)) /\ (One(commands', q) <=> One(commands, q))
  BY <1>3, TailHas, Zenon
<1>4. ASSUME NEW q, q # p, registry'[q] = registry[q], Reported(q)' <=> Reported(q), Pending(q)
      PROVE  Pending(q)'
  <2>1. One(commands', q)
    BY <1>3, <1>4, Zenon DEF Pending
  <2>2. \A i \in DOMAIN commands' : commands'[i].p = q => commands'[i].kind = "REGISTER"
    BY <1>2, <1>4, Zenon DEF Pending
  <2> QED BY <1>4, <2>1, <2>2, Zenon DEF Pending
<1> QED BY <1>1, <1>3, <1>4, Zenon DEF Asked

(* apply_register: the exit is tracked from here on.                        *)
LEMMA ApplyRegisterSup ==
  ASSUME SupInv, apply_commands, commands # <<>>, NEW p \in Proc, Head(commands).p = p,
         Head(commands).kind = "REGISTER", NEW submitted, apply_register(p, submitted)
  PROVE  SupInv'
<1>1. /\ TypeOK /\ TypeOK' /\ commands \in Seq(Command) /\ commands' = Tail(commands)
      /\ monitor.at = "APPLY" /\ UNCHANGED <<by_pid, adoptable, manager, events>>
  BY TypeApply DEF SupInv, TypeOK, apply_commands, jobs
<1>2. Asked(p) /\ ~Wanted(p) /\ Known(p) /\ p \notin by_pid /\ ProcOK(p)
  BY <1>1, TakenCommand, Zenon DEF SupInv, ProcOK, Known, Wanted
<1>3. /\ proc' = [proc EXCEPT ![p] = IF waitpid(p) = "REAPED" THEN "GONE" ELSE @]
      /\ ack' = IF manager = [at |-> "REGISTERING", p |-> p] THEN "REGISTERED" ELSE ack
  BY Zenon DEF apply_register, Complete
<1>4. \/ /\ Probed(p) = {} /\ registry' = [registry EXCEPT ![p] = Classified(p)] /\ monitor' = monitor
      \/ /\ Probed(p) # {} /\ registry' = registry
         /\ monitor'.at = "DELIVER" /\ monitor'.p = p /\ monitor'.verified \in Probed(p)
  <2>1. CASE Probed(p) = {}
    BY <2>1, Zenon DEF apply_register
  <2>2. CASE Probed(p) # {}
    <3>1. PICK verified \in Probed(p) : BeginDelivery(p, verified, "APPLY")
      BY <2>2 DEF apply_register
    <3>2. monitor'.at = "DELIVER" /\ monitor'.p = p /\ monitor'.verified = verified
      BY <1>1, <3>1 DEF BeginDelivery, TypeOK, Monitor
    <3> QED BY <2>2, <3>1, <3>2, Zenon DEF apply_register
  <2> QED BY <2>1, <2>2, Zenon
<1>5. \A q : ~Delivering(q) /\ (Delivering(q)' <=> q = p /\ Probed(p) # {})
  BY <1>1, <1>4, Zenon DEF Delivering
<1>6. /\ proc'[p] = IF waitpid(p) = "REAPED" THEN "GONE" ELSE proc[p]
      /\ \A q \in Proc : q # p => registry'[q] = registry[q] /\ proc'[q] = proc[q]
      /\ registry'[p] = IF Probed(p) = {} THEN Classified(p) ELSE registry[p]
  BY <1>3, <1>4, MapTypes, Zenon
<1>7. proc[p] \in Past /\ proc'[p] \in Past /\ (Probed(p) # {} => proc'[p] \in Over)
      /\ (proc[p] \in Over => proc'[p] \in Over) /\ proc'[p] \in {proc[p], "GONE"}
  BY <1>2, <1>6, Zenon DEF ProcOK, Probed, SameTicks, waitpid, Past, Over
<1>8. \A q \in Proc : q # p => /\ Asked(q)' <=> Asked(q)
                               /\ Pending(q) => Pending(q)'
  <2>1. \A q \in Proc : q # p => (Reported(q)' <=> Reported(q))
    BY <1>1, <1>5 DEF Reported
  <2> QED BY <1>1, <1>6, <2>1, TakenCommand, Zenon
<1>9. Wanted(p)' => manager = [at |-> "REGISTERING", p |-> p] /\ ack # "REGISTERED"
  BY <1>1, <1>2, <1>3, Zenon DEF Wanted, At, TypeOK, Manager
<1>10. ASSUME Wanted(p)'
       PROVE  Tracked(p)' /\ Reapable(p)' /\ ~Asked(p)'
  <2>1. Pending(p) /\ (p \notin Adopted => proc[p] \in {"UP", "ZOMBIE"})
    <3>1. manager.at = "REGISTERING" /\ manager.p = p /\ ack # "REGISTERED"
      BY <1>9, <1>10
    <3>2. LaunchOK
      BY <3>1 DEF SupInv, Launching
    <3> QED BY <3>1, <3>2, Zenon DEF LaunchOK, At
  <2>2. ~Asked(p)'
    BY <1>1, <2>1, TakenCommand, Zenon DEF Pending
  <2>3. ~Has(events', p) /\ registry[p] = "NONE"
    BY <1>1, <2>1, Zenon DEF Pending, Reported
  <2>4. Tracked(p)'
    BY <1>5, <1>6, <2>3, Zenon DEF Tracked, Classified
  <2>5. p \notin Adopted => /\ Probed(p) = {} => Classified(p) = "CHILD" /\ proc'[p] \in {"UP", "ZOMBIE"}
                            /\ \A verified \in Probed(p) : verified
    BY <1>6, <2>1, Zenon DEF Probed, Classified, waitpid, SameTicks
  <2>6. Reapable(p)'
    BY <1>4, <1>5, <1>6, <2>3, <2>5, Zenon DEF Reapable, Has
  <2> QED BY <2>2, <2>4, <2>6
<1>11. ProcOK(p)'
  <2>1. Reported(p)' => Reported(p) \/ Probed(p) # {}
    BY <1>1, <1>5 DEF Reported
  <2>2. registry'[p] = "CHILD" => p \notin Adopted
    BY <1>2, <1>6, Zenon DEF ProcOK, Classified, waitpid
  <2> QED BY <1>1, <1>2, <1>7, <1>10, <2>1, <2>2, Zenon DEF ProcOK, Alive, Launching
<1>12. Launching /\ manager.p = p => LaunchOK'
  <2>1. ASSUME Launching, manager.p = p PROVE LaunchOK'
    <3>1. LaunchOK /\ manager.at \notin {"CONFIRM", "REGISTER"}
      BY <1>2, <2>1, Zenon DEF SupInv, LaunchOK
    <3>2. manager.at = "REGISTERING" => ack' = "REGISTERED"
      BY <1>1, <1>3, <2>1, Zenon DEF TypeOK, Manager
    <3> QED BY <1>1, <1>7, <2>1, <3>1, <3>2, Zenon DEF LaunchOK, At
  <2> QED BY <2>1
<1>13. manager.p # p => ack' = ack
  BY <1>3
<1>14. monitor'.at = "DELIVER" => monitor'.p \in Proc
  BY <1>1, <1>4, Zenon
<1> QED BY <1>1, <1>5, <1>6, <1>8, <1>11, <1>12, <1>13, <1>14, OnlyForSup, Zenon

(* apply_unregister: the manager has given the process up.                  *)
LEMMA ApplyUnregisterSup ==
  ASSUME SupInv, apply_commands, commands # <<>>, NEW p \in Proc, Head(commands).p = p,
         Head(commands).kind # "REGISTER", NEW submitted, apply_unregister(p, submitted)
  PROVE  SupInv'
<1>1. /\ TypeOK /\ TypeOK' /\ commands \in Seq(Command) /\ commands' = Tail(commands)
      /\ UNCHANGED <<by_pid, adoptable, manager, events, proc, monitor>>
      /\ registry' = [registry EXCEPT ![p] = "NONE"]
      /\ manager # [at |-> "UNREGISTERING", p |-> p] => ack' = ack
  BY TypeApply, Zenon DEF SupInv, TypeOK, apply_commands, apply_unregister, Erased, Complete, jobs
<1>2. Asked(p) /\ ~Wanted(p) /\ Known(p) /\ ProcOK(p)
  BY <1>1, TakenCommand, Zenon DEF SupInv, ProcOK, Known
<1>3. registry'[p] = "NONE" /\ \A q \in Proc : q # p => registry'[q] = registry[q]
  BY <1>1, MapTypes
<1>4. \A q : (Delivering(q)' <=> Delivering(q)) /\ (Reported(q)' <=> Reported(q))
  BY <1>1, Zenon DEF Delivering, Reported
<1>5. \A q \in Proc : q # p => /\ Asked(q)' <=> Asked(q)
                               /\ Pending(q) => Pending(q)'
  BY <1>1, <1>3, <1>4, TakenCommand, Zenon
<1>6. ~Wanted(p)'
  BY <1>1, <1>2 DEF Wanted, At
<1>7. ProcOK(p)'
  BY <1>1, <1>2, <1>3, <1>4, <1>6, Zenon DEF ProcOK, Alive, Launching
<1>8. Launching /\ manager.p = p => LaunchOK'
  <2>1. ASSUME Launching, manager.p = p PROVE LaunchOK'
    <3>1. LaunchOK /\ manager.at \notin {"CONFIRM", "REGISTER"}
      BY <1>2, <2>1, Zenon DEF SupInv, LaunchOK
    <3>2. ~Pending(p)
      <4>1. 1 \in DOMAIN commands /\ commands[1].p = p /\ commands[1].kind # "REGISTER"
        BY <1>1
      <4> QED BY <4>1 DEF Pending
    <3>3. manager.at # "REGISTERING"
      BY <1>2, <2>1, <3>1, <3>2, Zenon DEF LaunchOK, Wanted, At
    <3> QED BY <1>1, <3>1, <3>3, Zenon DEF LaunchOK, At
  <2> QED BY <2>1
<1>9. manager.p # p => ack' = ack
  BY <1>1
<1>10. monitor'.at = "DELIVER" => monitor'.p \in Proc
  BY <1>1, Zenon DEF SupInv
<1> QED BY <1>1, <1>3, <1>4, <1>5, <1>7, <1>8, <1>9, <1>10, OnlyForSup, Zenon

(* Every step of the monitor.                                               *)
LEMMA MonitorSup ==
  ASSUME SupInv, MonitorStep
  PROVE  SupInv'
<1>1. CASE wait_for_wakeup
  <2>1. TypeOK' /\ Unseen /\ UNCHANGED <<by_pid, ack, adoptable, manager, proc>>
    BY <1>1, Zenon DEF wait_for_wakeup, SupInv, TypeOK, Unseen, Monitor, supervisors, jobs
  <2>2. \A q \in Proc : Evolves(q, proc[q], proc'[q])
    BY <2>1 DEF Evolves
  <2> QED BY <2>1, <2>2, FrameSup
<1>2. CASE apply_commands /\ commands # <<>>
  <2>1. PICK c : c = Head(commands)
    OBVIOUS
  <2>2. PICK submitted \in BOOLEAN :
             IF c.kind = "REGISTER" THEN apply_register(c.p, submitted)
                                    ELSE apply_unregister(c.p, submitted)
    BY <1>2, <2>1 DEF apply_commands
  <2>3. PICK p \in Proc : p = c.p
    <3>1. commands \in Seq(Command)
      BY DEF SupInv, TypeOK
    <3>2. c \in Command
      BY <1>2, <2>1, <3>1
    <3> QED BY <3>2 DEF Command
  <2> QED BY <1>2, <2>1, <2>2, <2>3, ApplyRegisterSup, ApplyUnregisterSup
<1>3. CASE apply_commands /\ commands = <<>>
  <2>1. TypeOK' /\ TypeOK
    BY <1>3, TypeApply DEF SupInv
  <2>2. Unseen /\ UNCHANGED <<by_pid, ack, adoptable, manager, proc>>
    BY <1>3, <2>1 DEF apply_commands, Unseen, jobs, TypeOK, Monitor
  <2>3. \A q \in Proc : Evolves(q, proc[q], proc'[q])
    BY <2>2 DEF Evolves
  <2> QED BY <2>1, <2>2, <2>3, FrameSup
<1>4. CASE scan_registered
  <2>1. CASE \E p \in Registered : \E verified \in scan_one(p), submitted \in BOOLEAN :
               Found(p, verified, submitted)
    BY <1>4, <2>1, FoundSup
  <2>2. CASE monitor' = [monitor EXCEPT !.at = "WAIT"] /\ UNCHANGED <<proc, registry, timer, faults>>
    <3>1. TypeOK' /\ TypeOK
      BY <1>4, TypeScan DEF SupInv
    <3>2. Unseen /\ UNCHANGED <<by_pid, ack, adoptable, manager, proc>>
      BY <1>4, <2>2, <3>1 DEF scan_registered, Unseen, jobs, TypeOK, Monitor
    <3>3. \A q \in Proc : Evolves(q, proc[q], proc'[q])
      BY <3>2 DEF Evolves
    <3> QED BY <3>1, <3>2, <3>3, FrameSup
  <2> QED BY <1>4, <2>1, <2>2 DEF scan_registered, Found
<1>5. CASE deliver
  BY <1>5, DeliverSup
<1> QED BY <1>1, <1>2, <1>3, <1>4, <1>5 DEF MonitorStep

-----------------------------------------------------------------------------
(* The manager drains the events, and stops.                                *)

(* process_exit.                                                            *)
LEMMA DrainSup ==
  ASSUME SupInv, drain_exit_events
  PROVE  SupInv'
<1>1. TypeOK' /\ TypeOK
  BY TypeDrain DEF SupInv
<1>2. CASE events = <<>>
  <2>1. /\ Unseen /\ UNCHANGED <<by_pid, ack, adoptable, proc>>
        /\ ~Launching /\ ~Launching' /\ Alive
    BY <1>2 DEF drain_exit_events, Unseen, reaper, At, Go, Launching, Alive
  <2>2. \A q \in Proc : Evolves(q, proc[q], proc'[q])
    BY <2>1 DEF Evolves
  <2> QED BY <1>1, <2>1, <2>2, FrameSup
<1>3. CASE events # <<>>
  <2>1. PICK e : e = Head(events)
    OBVIOUS
  <2>2. PICK p \in Proc : p = e.p
    <3>1. events \in Seq(Event)
      BY <1>1, Zenon DEF TypeOK
    <3>2. e \in Event
      BY <1>3, <2>1, <3>1
    <3> QED BY <3>2 DEF Event
  <2>3. /\ events' = Tail(events) /\ events \in Seq(Event) /\ ~Launching /\ ~Launching' /\ Alive
        /\ UNCHANGED <<adoptable, manager, registry, commands, ack, monitor>>
        /\ IF p \in by_pid
           THEN /\ by_pid' = by_pid \ {p}
                /\ proc' = [proc EXCEPT ![p] = IF @ = "REUSED" THEN @ ELSE "GONE"]
           ELSE by_pid' = by_pid /\ proc' = proc
    BY <1>1, <1>3, <2>1, <2>2, Zenon
       DEF drain_exit_events, process_exit, Destroyed, reaper, At, Launching, Alive, TypeOK
  <2>4. Has(events, p) /\ proc[p] \in Over
    <3>1. Has(events, p)
      BY <1>3, <2>1, <2>2, <2>3, TailHas
    <3> QED BY <3>1, Zenon DEF SupInv, ProcOK, Reported
  <2>5. proc'[p] \in Over /\ \A q \in Proc : q # p => proc'[q] = proc[q]
    BY <2>3, <2>4, MapTypes DEF Over
  <2>6. ASSUME NEW q \in Proc
        PROVE  ProcOK(q)'
    <3>1. ProcOK(q)
      BY DEF SupInv
    <3>2. /\ Has(events', q) => Has(events, q)
          /\ q # p => (Has(events', q) <=> Has(events, q)) /\ (One(events', q) <=> One(events, q))
          /\ \A i \in DOMAIN events' : i + 1 \in DOMAIN events /\ events'[i] = events[i + 1]
      <4>1. events \in Seq(Event) /\ events # <<>> /\ events' = Tail(events) /\ Head(events).p = p
        BY <1>3, <2>1, <2>2, <2>3
      <4>2. Has(events', q) => Has(events, q)
        BY <4>1, TailHas, Zenon
      <4>3. q # p => (Has(events', q) <=> Has(events, q)) /\ (One(events', q) <=> One(events, q))
        BY <4>1, TailHas, Zenon
      <4>4. \A i \in DOMAIN events' : i + 1 \in DOMAIN events /\ events'[i] = events[i + 1]
        BY <4>1, TailAt
      <4> QED BY <4>2, <4>3, <4>4
    <3>3. (Asked(q)' <=> Asked(q)) /\ (Delivering(q)' <=> Delivering(q))
      BY <2>3 DEF Asked, Delivering
    <3>4. (Reported(q)' => Reported(q)) /\ (Known(q)' => Known(q))
      BY <2>3, <3>2, <3>3, Zenon DEF Reported, Known
    <3>5. Wanted(q)' => Wanted(q) /\ q # p
      BY <2>3 DEF Wanted, At, Launching
    <3>6. q # p /\ Tracked(q) => Tracked(q)'
      BY <2>3, <3>2, <3>3, Zenon DEF Tracked
    <3>7. q # p /\ Reapable(q) => Reapable(q)'
      BY <2>3, <2>5, <3>2, <3>3 DEF Reapable
    <3>8. CASE q = p
      BY <2>3, <2>5, <3>1, <3>3, <3>4, <3>5, <3>8, Zenon DEF ProcOK, Over, Past
    <3>9. CASE q # p
      BY <2>3, <2>5, <3>1, <3>3, <3>4, <3>5, <3>6, <3>7, <3>9, Zenon DEF ProcOK
    <3> QED BY <3>8, <3>9
  <2>7. monitor'.at = "DELIVER" => monitor'.p \in Proc
    BY <2>3 DEF SupInv
  <2> QED BY <1>1, <2>3, <2>6, <2>7 DEF SupInv
<1> QED BY <1>2, <1>3

(* stop.                                                                    *)
LEMMA StopSup ==
  ASSUME SupInv, Stop
  PROVE  SupInv'
<1>1. TypeOK'
  BY TypeDrain DEF SupInv
<1>2. /\ manager' = [at |-> "STOPPED", p |-> NoProc] /\ by_pid' = {} /\ proc' = proc
      /\ \A p \in Proc : registry'[p] = "NONE"
      /\ commands' = <<>> /\ events' = <<>> /\ monitor'.at = "STOPPED"
  BY Zenon DEF Stop, Go
<1>3. \A p \in Proc : ~Known(p)' /\ ~Reported(p)' /\ ~Wanted(p)'
  <2>1. \A p : ~Has(commands', p) /\ ~Has(events', p)
    BY <1>2 DEF Has
  <2> QED BY <1>2, <2>1, Zenon DEF Known, Reported, Asked, Delivering, Wanted, At
<1>4. ~Alive' /\ ~Launching'
  BY <1>2 DEF Alive, Launching
<1>5. \A p \in Proc : ProcOK(p)'
  BY <1>2, <1>3, <1>4, Zenon DEF SupInv, ProcOK
<1> QED BY <1>1, <1>2, <1>4, <1>5, Zenon DEF SupInv

-----------------------------------------------------------------------------
(* The theorems.                                                            *)

(* The daemon begins with the recovered processes only.                     *)
LEMMA InitSup ==
  ASSUME Init
  PROVE  SupInv
<1>1. commands \in Seq(Command) /\ Len(commands) <= CommandCapacity
  <2>1. commands = <<>>
    BY Zenon DEF Init
  <2> QED BY <2>1, SupervisionAssumption
<1>2. events \in Seq(Event) /\ Len(events) <= EventCapacity
  <2>1. events = <<>>
    BY Zenon DEF Init
  <2> QED BY <2>1, SupervisionAssumption
<1>3. faults \in 0..MaxFaults
  BY SupervisionAssumption DEF Init
<1>4. TypeOK
  BY <1>1, <1>2, <1>3, SupervisionAssumption, Zenon DEF Init, TypeOK, ProcState, Manager, Monitor
<1>5. \A p \in Proc : ~Known(p) /\ ~Reported(p) /\ ~Wanted(p)
  <2>1. \A p : ~Has(commands, p) /\ ~Has(events, p)
    BY DEF Init, Has
  <2> QED BY <2>1, Zenon DEF Init, Known, Reported, Asked, Delivering, Wanted, At
<1>6. \A p \in Proc : ProcOK(p)
  BY <1>5, Zenon DEF Init, ProcOK
<1> QED BY <1>4, <1>6, Zenon DEF Init, SupInv, Launching

(* Every step of manager, monitor, timers and processes keeps it.           *)
LEMMA NextSup ==
  ASSUME SupInv, Next \/ UNCHANGED vars
  PROVE  SupInv'
<1>1. ASSUME NEW p \in Proc, run_child(p) \/ ProcessExits(p) \/ PidReused(p) \/ escalate(p)
      PROVE  SupInv'
  BY <1>1, QuietSup
<1>2. ASSUME NEW p \in Proc, adopt(p) \/ spawn(p) \/ begin_cancellation(p)
      PROVE  SupInv'
  BY <1>2, AdoptSup, SpawnSup, CancelSup
<1>3. CASE Started \/ WaitForWakeup \/ CommandsDrained \/ TimerTick \/ UNCHANGED vars
  <2>1. /\ TypeOK' /\ Unseen /\ UNCHANGED <<by_pid, ack, adoptable, proc>>
        /\ manager' = manager \/ (~Launching /\ ~Launching' /\ Alive)
    <3>1. CASE Started
      BY <3>1, Zenon DEF SupInv, TypeOK, Started, Go, At, Unseen, Launching, Alive, Manager, supervisors, jobs, reaper
    <3>2. CASE WaitForWakeup
      BY <3>2, Zenon DEF SupInv, TypeOK, WaitForWakeup, Go, At, Unseen, Launching, Alive, Manager, supervisors, jobs, reaper
    <3>3. CASE CommandsDrained
      BY <3>3, Zenon DEF SupInv, TypeOK, CommandsDrained, Go, At, Unseen, Launching, Alive, Manager, supervisors, jobs, reaper
    <3>4. CASE TimerTick
      BY <3>4, Zenon DEF SupInv, TypeOK, TimerTick, Unseen, supervisors, jobs, reaper
    <3>5. CASE UNCHANGED vars
      BY <3>5, Zenon DEF SupInv, TypeOK, vars, Unseen, supervisors, jobs, reaper
    <3> QED BY <1>3, <3>1, <3>2, <3>3, <3>4, <3>5, Zenon
  <2>2. \A p \in Proc : Evolves(p, proc[p], proc'[p])
    BY <2>1, Zenon DEF Evolves
  <2> QED BY <2>1, <2>2, FrameSup
<1>4. CASE Confirm \/ register_process \/ AwaitRegistered \/ attach \/ unregister_process
  BY <1>4, ConfirmSup, RegisterSup
<1>5. CASE drain_exit_events \/ Stop
  BY <1>5, DrainSup, StopSup
<1>6. CASE MonitorStep
  BY <1>6, MonitorSup
<1> QED BY <1>1, <1>2, <1>3, <1>4, <1>5, <1>6 DEF Next, ManagerStep

(* Worker, exit monitor and processes keep the invariant however they are   *)
(* interleaved.                                                             *)
THEOREM SupervisionInvariant == Spec => []SupInv
<1>1. SupInv /\ [Next]_vars => SupInv'
  BY NextSup
<1> QED BY InitSup, <1>1, PTL DEF Spec

(* For any number of processes and any channel capacities: the exit of a    *)
(* process the job manager supervises is at exactly one place, in the       *)
(* registry of ProcessExitMonitor, in the delivery under way or once in the *)
(* event channel, so that it is neither lost nor handled twice.             *)
THEOREM ExitsAreTracked == Spec => []ExitTracked
<1>1. ASSUME SupInv, NEW p \in by_pid
      PROVE  \/ registry[p] # "NONE" /\ ~Delivering(p) /\ Queued(p) = {}
             \/ registry[p] = "NONE" /\ Delivering(p) /\ Queued(p) = {}
             \/ registry[p] = "NONE" /\ ~Delivering(p) /\ \E i \in DOMAIN events : Queued(p) = {i}
  <2>1. Tracked(p)
    BY <1>1, Zenon DEF SupInv, TypeOK, ProcOK, Wanted
  <2>2. ~Has(events, p) => Queued(p) = {}
    BY DEF Has, Queued
  <2>3. One(events, p) => \E i \in DOMAIN events : Queued(p) = {i}
    BY Zenon DEF One, Queued
  <2> QED BY <2>1, <2>2, <2>3, Zenon DEF Tracked
<1>2. SupInv => ExitTracked
  BY <1>1, Zenon DEF ExitTracked
<1> QED BY SupervisionInvariant, <1>2, PTL

(* The exit monitor reports the exit of no process that still runs, also    *)
(* for one it cannot wait for, and every exit of a supervised child comes   *)
(* with the status that waitpid returned.                                   *)
THEOREM ReportedExitsAreTrue == Spec => []ExitsTrue
<1>1. ASSUME SupInv, NEW p \in Proc, Delivering(p) \/ Queued(p) # {}
      PROVE  proc[p] \in {"GONE", "REUSED"}
  BY <1>1, Zenon DEF SupInv, ProcOK, Reported, Queued, Has, Over
<1>2. ASSUME SupInv, NEW p \in by_pid \ Adopted
      PROVE  (Delivering(p) => monitor.verified) /\ \A i \in Queued(p) : events[i].verified
  <2>1. Reapable(p)
    BY <1>2, Zenon DEF SupInv, TypeOK, ProcOK, Wanted
  <2> QED BY <1>2, <2>1, Zenon DEF Reapable, Queued
<1>3. SupInv => ExitsTrue
  BY <1>1, <1>2 DEF ExitsTrue
<1> QED BY SupervisionInvariant, <1>3, PTL

(* Wherever a launch fails, fork, exec, registration or the log pump, the   *)
(* worker leaves no child and no zombie behind that it does not supervise.  *)
THEOREM LaunchesLeaveNoOrphans == Spec => []NoOrphans
<1>1. SupInv => NoOrphans
  BY Zenon DEF SupInv, ProcOK, NoOrphans, Alive, Launching
<1> QED BY SupervisionInvariant, <1>1, PTL
=============================================================================
