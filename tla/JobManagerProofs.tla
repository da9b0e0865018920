---------------------------- MODULE JobManagerProofs ----------------------------
EXTENDS BoardProofs, ProcessProofs, WatchProofs
(***************************************************************************)
(* The theorems about the job manager.  The steps of each invariant are    *)
(* proved in a module of their own, those of the last and smallest, the    *)
(* wakes, here; what one of them assumes of the others is taken from the   *)
(* others.                                                                 *)
(***************************************************************************)

-----------------------------------------------------------------------------
(* The wakes.                                                               *)

(* A pipe that has been written covers every queue, ...                     *)
LEMMA WokenWake ==
  ASSUME commands' \in Seq(Command), wake' = TRUE, due' => commands' # <<>> \/ gpu_event'
  PROVE  WakeInv'
BY DEF WakeInv

(* ... and the way back from a launch leads past the ones still ahead.      *)
LEMMA LaunchWake ==
  ASSUME BoardInv, WakeInv, UNCHANGED <<commands, done, gpu_event, due, ret>>,
         pc \in {"spawn", "persist"}, pc' \in {ret, "persist"},
         wake' = TRUE \/ UNCHANGED <<exits, wake>>
  PROVE  WakeInv'
<1>1. /\ pc' # "post" /\ pc # "post" /\ Up
      /\ \A points : {"spawn", "persist"} \cap points = {} /\ Ahead(points) => Ahead(points)'
  BY DEF BoardInv, Ahead, Up
<1>2. /\ Ahead({"commands"}) => Ahead({"commands"})'
      /\ Ahead({"commands", "exits"}) => Ahead({"commands", "exits"})'
      /\ Ahead({"commands", "exits", "pumps"}) => Ahead({"commands", "exits", "pumps"})'
      /\ Ahead({"commands", "exits", "pumps", "gpu"}) => Ahead({"commands", "exits", "pumps", "gpu"})'
  BY <1>1
<1> QED BY <1>1, <1>2, Zenon DEF WakeInv

(* A step that touches no queue and not the worker.                         *)
LEMMA StillWake ==
  ASSUME WakeInv, UNCHANGED <<commands, wake, exits, done, gpu_event, due, pc, ret>>
  PROVE  WakeInv'
<1>1. Up' = Up /\ \A points : Ahead(points)' = Ahead(points)
  BY DEF Up, Ahead
<1> QED BY <1>1, Zenon DEF WakeInv

(* The threads beside the worker write the pipe when they queue something.  *)
LEMMA BesideWake ==
  ASSUME BoardInv, WakeInv, EnvironmentStep
  PROVE  WakeInv'
<1>0. commands \in Seq(Command) /\ \A c \in Command : Append(commands, c) \in Seq(Command) /\ Append(commands, c) # <<>>
  BY DEF WakeInv
<1>1. CASE \E spec \in JobSpec : SubmitJob(spec)
  <2>1. PICK c \in Command : Send(c)
    BY <1>1 DEF SubmitJob, Command
  <2> QED BY <1>0, <2>1, WokenWake DEF Send
<1>2. CASE \E j \in DOMAIN store.jobs : CancelJob(j)
  <2>1. PICK j \in DOMAIN store.jobs : CancelJob(j)
    BY <1>2
  <2>2. j \in JobId
    BY DEF BoardInv, StoreOK
  <2>3. PICK c \in Command : Send(c)
    BY <2>1, <2>2, Zenon DEF CancelJob, Command
  <2> QED BY <1>0, <2>3, WokenWake DEF Send
<1>3. CASE \E p \in DOMAIN proc, status \in ExitStatus : ProcessExit(p, status)
  BY <1>3, StillWake, Zenon DEF ProcessExit, channels, control, history
<1>4. CASE \E j \in DOMAIN supervised : Escalate(j)
  BY <1>4, StillWake, Zenon DEF Escalate, channels, control, history
<1>5. CASE \E p \in DOMAIN registry : Scan(p)
  <2>1. UNCHANGED <<commands, gpu_event, pc, due>> /\ Up /\ wake' = TRUE
    BY <1>5, Zenon DEF Scan, Reaped, control, history
  <2> QED BY <1>0, <2>1, Zenon DEF WakeInv, Up
<1>6. CASE \E j \in pumping : PumpDone(j)
  <2>1. UNCHANGED <<commands, gpu_event, pc, due>> /\ Up /\ wake' = TRUE
    BY <1>6, Zenon DEF PumpDone, Drained, control, history
  <2> QED BY <1>0, <2>1, Zenon DEF WakeInv, Up
<1>7. CASE \E obs \in Observations : Sample(obs)
  BY <1>0, <1>7, WokenWake, Zenon DEF Sample
<1>8. CASE Crash
  <2>1. commands' \in Seq(Command) /\ ~Up'
    BY <1>8 DEF Crash, Up
  <2> QED BY <2>1, Zenon DEF WakeInv
<1> QED BY <1>1, <1>2, <1>3, <1>4, <1>5, <1>6, <1>7, <1>8, Zenon DEF EnvironmentStep

(* A start has nothing queued but its own trigger.                          *)
LEMMA StartWake ==
  ASSUME WakeInv, StartStep
  PROVE  WakeInv'
<1>1. CASE \E now \in Clock : Plan(now)
  BY <1>1, Zenon DEF Plan, Goto, channels, WakeInv, Up
<1>2. CASE \E ok \in StoreOutcome : RecoverChunk(ok)
  <2>1. UNCHANGED commands /\ ~Up'
    BY <1>2 DEF RecoverChunk, channels, Up
  <2> QED BY <2>1, Zenon DEF WakeInv
<1>3. CASE \E obs \in Observations : RestoreQueue(obs)
  <2>1. UNCHANGED commands /\ ~Up'
    BY <1>3, Zenon DEF RestoreQueue, channels, Up
  <2> QED BY <2>1, Zenon DEF WakeInv
<1>4. CASE \E unloaded, unregistered, refused \in SUBSET JobId : Adopt(unloaded, unregistered, refused)
  <2>1. commands' = <<WAKE>> /\ wake' = TRUE
    BY <1>4, Zenon DEF Adopt
  <2>2. WAKE \in Command
    BY Zenon DEF Command
  <2>3. commands' \in Seq(Command) /\ commands' # <<>>
    BY <2>1, <2>2
  <2> QED BY <2>1, <2>3, WokenWake
<1> QED BY <1>1, <1>2, <1>3, <1>4, Zenon DEF StartStep

(* The worker leaves a queue empty, or with the pipe written since.         *)
LEMMA WorkerWake ==
  ASSUME BoardInv, WakeInv, WorkerStep
  PROVE  WakeInv'
<1>0. /\ commands \in Seq(Command)
      /\ commands # <<>> => Tail(commands) \in Seq(Command)
  BY DEF WakeInv
<1>1. CASE WaitForWakeup
  <2>1. pc = "wait" /\ pc' = "commands" /\ UNCHANGED <<commands, gpu_event, due>>
    BY <1>1, Zenon DEF WaitForWakeup, Goto, history
  <2> QED BY <1>0, <2>1, Zenon DEF WakeInv, Ahead, Up
<1>2. CASE ChannelDrained
  <2>1. UNCHANGED <<commands, wake, exits, done, gpu_event, due>>
    BY <1>2, Zenon DEF ChannelDrained, channels, history
  <2>2. \/ pc = "commands" /\ pc' = "exits" /\ commands = <<>>
        \/ pc = "exits" /\ pc' = "pumps" /\ exits = <<>>
        \/ pc = "pumps" /\ pc' = "gpu" /\ done = {}
        \/ pc = "gpu" /\ pc' = "wait" /\ ~gpu_event
    BY <1>2, Zenon DEF ChannelDrained, Goto
  <2> QED BY <1>0, <2>1, <2>2, Zenon DEF WakeInv, Ahead, Up
<1>3. CASE PostWake
  <2>1. /\ commands' = IF Len(commands) < CommandCapacity THEN Append(commands, WAKE) ELSE commands
        /\ wake' = TRUE
    BY <1>3 DEF PostWake
  <2>2. WAKE \in Command
    BY Zenon DEF Command
  <2>3. commands' \in Seq(Command) /\ commands' # <<>>
    BY <1>0, <2>1, <2>2, CommandAssumption
  <2> QED BY <2>1, <2>3, WokenWake
<1>4. ASSUME pc = "commands", commands # <<>>, commands' = Tail(commands), ret' = "commands",
             pc' = "post" \/ (pc' \in {"commands", "spawn"} /\ due' = FALSE)
      PROVE  WakeInv'
  BY <1>0, <1>4, Zenon DEF WakeInv, Ahead, Up
<1>5. CASE \E created_ok, rollback_ok \in StoreOutcome : process_submit(created_ok, rollback_ok)
  BY <1>4, <1>5, Zenon DEF process_submit, Receive, Post
<1>6. CASE \E ok \in StoreOutcome, timer \in TimerOutcome : process_cancel(ok, timer)
  BY <1>4, <1>6, Zenon DEF process_cancel, Receive, Post
<1>7. CASE \E ok \in StoreOutcome : ScheduleOnWake(ok)
  <2>1. /\ pc = "commands" /\ commands # <<>> /\ commands' = Tail(commands) /\ due' = FALSE
        /\ pc' = "commands" \/ (pc' = "spawn" /\ ret' = "commands")
    BY <1>7, Zenon DEF ScheduleOnWake, schedule_now, Receive
  <2> QED BY <1>0, <2>1, Zenon DEF WakeInv, Ahead, Up
<1>8. CASE \E ok \in StoreOutcome : ScheduleOnGpuEvent(ok)
  <2>1. /\ pc = "gpu" /\ UNCHANGED <<commands, wake, exits, done>> /\ due' = FALSE /\ gpu_event' = FALSE
        /\ pc' \in {"wait", "spawn"}
    BY <1>8, Zenon DEF ScheduleOnGpuEvent, schedule_now
  <2>2. Up /\ Up'
    BY <2>1 DEF Up
  <2>3. \A points : points \subseteq {"commands", "exits", "pumps"} => ~Ahead(points)
    BY <2>1 DEF Ahead
  <2>4. /\ ~Ahead({"commands"}) /\ ~Ahead({"commands", "exits"}) /\ ~Ahead({"commands", "exits", "pumps"})
    BY <2>3
  <2> QED BY <1>0, <2>1, <2>2, <2>4, Zenon DEF WakeInv
<1>9. CASE LaunchLoadFails
  BY <1>9, LaunchWake, Zenon DEF LaunchLoadFails, Return, channels, history
<1>10. CASE \E ok \in StoreOutcome, now \in Clock : SpawnFails(ok, now)
  BY <1>10, LaunchWake, Zenon DEF SpawnFails, Return, channels, history
<1>11. CASE \E p \in Pid : Spawn(p)
  BY <1>11, LaunchWake, Zenon DEF Spawn, Goto, channels, history
<1>12. CASE \E fault \in {"persist", "refused", "register", "attach"}, ok \in StoreOutcome,
              started, now \in Clock : PersistFails(fault, ok, started, now)
  <2>1. /\ UNCHANGED <<commands, done, gpu_event, due, ret>> /\ pc = "persist" /\ pc' = ret
        /\ wake' = TRUE \/ UNCHANGED <<exits, wake>>
    BY <1>12, Zenon DEF PersistFails, Return, history
  <2> QED BY <2>1, LaunchWake, Zenon
<1>13. CASE \E now \in Clock : Supervise(now)
  <2>1. /\ UNCHANGED <<commands, done, gpu_event, due, ret>> /\ pc = "persist" /\ pc' = ret
        /\ wake' = TRUE \/ UNCHANGED <<exits, wake>>
    BY <1>13, Zenon DEF Supervise, register_process, Return, history
  <2> QED BY <2>1, LaunchWake, Zenon
<1>14. CASE \E ok \in StoreOutcome, now \in Clock : process_exit(ok, now)
  <2>1. /\ pc = "exits" /\ pc' = "post" /\ ret' = "exits" /\ UNCHANGED <<commands, wake, done, gpu_event>>
    BY <1>14, Zenon DEF process_exit, Post
  <2> QED BY <1>0, <2>1, Zenon DEF WakeInv, Ahead, Up
<1>15. CASE DropExit
  <2>1. pc = "exits" /\ UNCHANGED <<commands, wake, done, gpu_event, due, pc, ret>>
    BY <1>15, Zenon DEF DropExit, control, history
  <2> QED BY <1>0, <2>1, Zenon DEF WakeInv, Ahead, Up
<1>16. CASE \E j \in done : drain_pump_done(j)
  <2>1. pc = "pumps" /\ UNCHANGED <<commands, wake, exits, gpu_event, due, pc, ret>>
    BY <1>16, Zenon DEF drain_pump_done, control, history
  <2> QED BY <1>0, <2>1, Zenon DEF WakeInv, Ahead, Up
<1> QED BY <1>1, <1>2, <1>3, <1>5, <1>6, <1>7, <1>8, <1>9, <1>10, <1>11, <1>12, <1>13, <1>14, <1>15,
           <1>16, Zenon DEF WorkerStep

(* A fresh daemon has its trigger queued.                                   *)
LEMMA InitWake == Init => WakeInv
<1> SUFFICES ASSUME Init PROVE WakeInv
  OBVIOUS
<1>1. WAKE \in Command
  BY Zenon DEF Command
<1>2. commands \in Seq(Command) /\ commands # <<>> /\ wake = TRUE
  BY <1>1 DEF Init
<1> QED BY <1>2, Zenon DEF WakeInv

(* Every step keeps the worker's duties in view.                            *)
LEMMA NextWake ==
  ASSUME BoardInv, WakeInv, [Next]_vars
  PROVE  WakeInv'
<1>1. CASE UNCHANGED vars
  BY <1>1, StillWake, Zenon DEF vars, channels, control, history
<1> QED BY <1>1, BesideWake, StartWake, WorkerWake, Zenon DEF Next

-----------------------------------------------------------------------------
(* The theorems.                                                            *)

(* The daemon's inductive invariant: the store's lease matrix, and that     *)
(* what the worker remembers of a job between two steps (the supervision of *)
(* job_manager.cpp, the launch under way, the recovery plan) agrees with    *)
(* the store about which jobs are being stopped.                            *)
THEOREM BoardInvariant == Spec => []BoardInv
<1>1. BoardInv /\ [Next]_vars => BoardInv'
  BY NextStep, Stutter
<1> QED BY InitOK, <1>1, PTL DEF Spec

(* Whatever the number of jobs, GPUs, faults and crashes: the daemon of     *)
(* job_manager.cpp with its scheduler, its launches, its cancels and its    *)
(* recovery implements JobBoard.  A job waits, runs on a GPU of its own,    *)
(* ends once, and its GPU is free in the step in which it ends; a job being *)
(* stopped ends as CANCELLED or LOST.                                       *)
THEOREM DaemonImplementsJobBoard == Spec => ImplementsJobBoard
<1>1. BoardInv /\ [Next]_vars => [Board!Next]_(Board!boardVars)
  <2> SUFFICES ASSUME BoardInv, [Next]_vars PROVE [Board!Next]_(Board!boardVars)
    OBVIOUS
  <2>1. BoardStep(store, store')
    BY NextStep, Stutter
  <2>2. StoreOK(store)
    BY DEF BoardInv
  <2> QED BY <2>1, <2>2, SeenAsNext
<1>2. Init => Board!Init
  BY SeenAsInit
<1> QED BY BoardInvariant, <1>1, <1>2, PTL DEF Spec, ImplementsJobBoard, Board!Spec

(* The processes of the machine agree with the store through every launch,  *)
(* exit, cancel, crash and recovery of job_manager.cpp, whatever pids the   *)
(* kernel uses again: a queued exit names a job without a process, and the  *)
(* pid under which the worker or the monitor knows a job is no other than   *)
(* that of its process.                                                     *)
THEOREM ProcessInvariant == Spec => []ProcInv
<1>1. BoardInv /\ ProcInv /\ [Next]_vars => ProcInv'
  BY StepStore, StepKeepsLeases, NextProc, StutterProc
<1> QED BY BoardInvariant, InitProc, <1>1, PTL DEF Spec

(* Whatever the number of jobs, GPUs, faults and crashes: a running process *)
(* of the daemon of job_manager.cpp holds the lease of its GPU, but for the *)
(* orphan of a crash between spawn and the RUNNING write and for a job that *)
(* was ended by the exit of another process that had its pid before.        *)
THEOREM ProcessesHoldLeases == Spec => []ProcessHoldsLease
<1>1. ProcInv => ProcessHoldsLease
  BY DEF ProcInv, ProcOK, Holds, GivenUp, ProcessHoldsLease, Alive, Orphan
<1> QED BY ProcessInvariant, <1>1, PTL

(* What is known of the processes survives every interleaving of worker,    *)
(* reaper, timers and crash in job_manager.cpp.                             *)
THEOREM WatchInvariant == Spec => []WatchInv
<1>1. BoardInv /\ ProcInv /\ WatchInv /\ [Next]_vars => WatchInv'
  BY StepStore, StepKeepsLeases, StepEffects, ProcKnows, NextWatch, StutterWatch
<1> QED BY BoardInvariant, ProcessInvariant, InitWatch, <1>1, PTL DEF Spec

(* Whatever the number of jobs, faults and crashes: while the daemon of     *)
(* job_manager.cpp is up, every live process of a job it has not given up,  *)
(* not ended by mistake and not failed to load when it started, is known to *)
(* the exit monitor and to the worker, and its grace timer has been asked   *)
(* for as soon as the store says that the job is being stopped.             *)
THEOREM ProcessesAreWatched == Spec => []WatchedWhileUp
<1>1. WatchInv => WatchedWhileUp
  BY DEF WatchInv, Attended, Watched, GivenUp, WatchedWhileUp, Alive, Orphan
<1> QED BY WatchInvariant, <1>1, PTL

(* The streams and what the worker remembers of the jobs agree in every     *)
(* interleaving of exits, drained pumps, cancellations and crashes.         *)
THEOREM StreamInvariant == Spec => []EofInv
<1>1. BoardInv /\ ProcInv /\ WatchInv /\ EofInv /\ [Next]_vars => EofInv'
  BY StepStore, StepKeepsLeases, StepEffects, ProcKnows, NextEof, EasyEof
<1> QED BY BoardInvariant, ProcessInvariant, WatchInvariant, InitEof, <1>1, PTL DEF Spec

(* Whatever the number of jobs, faults and crashes: when finish_job has     *)
(* sent the EOF of a stream, the pump of job_manager.cpp adds nothing to it *)
(* any more, and if the job's end could be stored, then it is the one the   *)
(* EOF announced.                                                           *)
THEOREM EofsAreFinal == Spec => []EofIsFinal
<1>1. EofInv => EofIsFinal
  BY DEF EofInv, Closed, EofIsFinal
<1> QED BY StreamInvariant, <1>1, PTL

(* What is queued is announced in the wake pipe or ahead of the worker of   *)
(* job_manager.cpp, and a scheduling run that is due has its trigger.       *)
THEOREM WakeInvariant == Spec => []WakeInv
<1>1. BoardInv /\ WakeInv /\ [Next]_vars => WakeInv'
  BY NextWake
<1> QED BY BoardInvariant, InitWake, <1>1, PTL DEF Spec

(* Whatever the number of jobs, faults and crashes and however small the    *)
(* command channel: when the worker of job_manager.cpp sleeps, no command,  *)
(* exit, pump completion or GPU event is waiting for it and schedule_now    *)
(* has run since the last event that calls for a run.                       *)
THEOREM TriggersAreKept == Spec => []NoTriggerLost
<1>1. WakeInv => NoTriggerLost
  BY DEF WakeInv, NoTriggerLost, Ahead, Up
<1> QED BY WakeInvariant, <1>1, PTL

=============================================================================
