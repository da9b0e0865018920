---------------------------- MODULE WatchProofs ----------------------------
EXTENDS JobManagerInv, TLAPS
(***************************************************************************)
(* Every step of the job manager keeps WatchInv and EofInv.  What it does  *)
(* to the store and to the processes are hypotheses here: StoreEffects,    *)
(* proved in BoardProofs, and Effects and ProcFacts, proved in             *)
(* ProcessProofs.                                                          *)
(***************************************************************************)

-----------------------------------------------------------------------------
(* Frames.                                                                  *)

(* Nothing that is known of p or of its job is lost, nor what excuses it.   *)
KnownStill(p) ==
  /\ misled \cup skipped \subseteq misled' \cup skipped'
  /\ p \in DOMAIN by_pid => p \in DOMAIN by_pid' /\ by_pid'[p] = by_pid[p]
  /\ p \in DOMAIN registry => p \in DOMAIN registry' /\ registry'[p] = registry[p]
  /\ LET j == proc[p].job IN
       j \in DOMAIN supervised => j \in DOMAIN supervised' /\ supervised'[j] = supervised[j]

(* A step that keeps what is known of p keeps it attended.                  *)
LEMMA StillAttended ==
  ASSUME NEW p \in DOMAIN proc, Attended(p), KnownStill(p), proc'[p].job = proc[p].job,
         store'.jobs[proc[p].job] = store.jobs[proc[p].job],
         pc = "persist" /\ launch.pid = p => pc' = "persist" /\ launch'.pid = p
  PROVE  Attended(p)'
<1>1. CASE GivenUp(store, proc[p].job)
  BY <1>1 DEF GivenUp, Attended
<1>2. CASE pc = "persist" /\ launch.pid = p
  BY <1>2 DEF Attended
<1>3. CASE Watched(p)
  BY <1>3 DEF Watched, KnownStill, Attended
<1>4. CASE proc[p].job \in misled \cup skipped
  BY <1>4, Zenon DEF KnownStill, Attended
<1> QED BY <1>1, <1>2, <1>3, <1>4, Zenon DEF Attended

(* While the daemon is up.                                                  *)
LEMMA UpWatch ==
  ASSUME Up', JobsOK(supervised'), \A p \in DOMAIN proc' : proc'[p].alive => Attended(p)'
  PROVE  WatchInv'
BY DEF WatchInv, Up

(* Steps that touch neither the records nor what is known.                  *)
LEMMA QuietWatch ==
  ASSUME WatchInv, Fewer(proc, proc'),
         UNCHANGED <<store, by_pid, registry, supervised, plan, misled, skipped>>,
         UNCHANGED <<pc, launch>> \/ (Up /\ Up' /\ pc # "persist")
  PROVE  WatchInv'
<1>1. ASSUME NEW p \in DOMAIN proc', Up
      PROVE  proc'[p].alive => Attended(p)'
  <2>1. p \in DOMAIN proc /\ proc'[p].job = proc[p].job /\ (proc'[p].alive => proc[p].alive)
    BY DEF Fewer
  <2>2. KnownStill(p)
    BY DEF KnownStill
  <2> QED BY <1>1, <2>1, <2>2, StillAttended DEF WatchInv
<1>2. CASE Up /\ Up'
  BY <1>1, <1>2, UpWatch DEF WatchInv
<1>3. CASE ~Up /\ UNCHANGED pc
  <2>1. Survivors' = Survivors
    BY DEF Survivors
  <2>2. ASSUME NEW p \in DOMAIN proc', Planned(p)
        PROVE  Planned(p)'
    BY <1>3, <2>1, <2>2 DEF Planned, Fewer
  <2> QED BY <1>3, <2>1, <2>2 DEF WatchInv, Up, Fewer
<1> QED BY <1>2, <1>3 DEF Up

-----------------------------------------------------------------------------
(* Cancelling.                                                              *)

(* r is job, asked to stop.                                                 *)
Stopping(r, job, ps, from_recovery) ==
  /\ DOMAIN r = Fields /\ r.phase \in {"RUNNING", "TERMINATING"}
  /\ r.pid = job.pid /\ r.exited = job.exited /\ r.terminal = job.terminal
  /\ r.adopted = job.adopted /\ r.pump_done = job.pump_done
  /\ job.timer # "OFF" => r.timer # "OFF"
  /\ job.pid \in DOMAIN ps /\ (~job.cancelling \/ from_recovery) => r.timer # "OFF"

(* begin_cancellation asks for the timer of a process it can signal, unless *)
(* it has done so before.                                                   *)
LEMMA BeginCancellation ==
  ASSUME NEW job, DOMAIN job = Fields, job.phase \in {"RUNNING", "TERMINATING"},
         NEW ps, NEW from_recovery, NEW outcome \in {"ARMED", "REFUSED"},
         NEW r, r = begin_cancellation(job, ps, from_recovery, outcome)
  PROVE  Stopping(r, job, ps, from_recovery)
<1>1. PICK asked : asked = Requested(job, ps)
  OBVIOUS
<1>2. /\ DOMAIN asked = Fields /\ asked.phase \in {"RUNNING", "TERMINATING"}
      /\ asked.pid = job.pid /\ asked.exited = job.exited /\ asked.terminal = job.terminal
      /\ asked.adopted = job.adopted /\ asked.pump_done = job.pump_done /\ asked.timer = job.timer
      /\ job.pid \in DOMAIN ps => asked.phase = "TERMINATING"
  BY <1>1 DEF Requested, Fields
<1>3. r = [asked EXCEPT !.cancelling = TRUE,
            !.timer = IF (~job.cancelling \/ from_recovery) /\ asked.phase = "TERMINATING"
                      THEN outcome ELSE @]
  BY <1>1, Zenon DEF begin_cancellation
<1>4. /\ DOMAIN r = Fields /\ r.phase = asked.phase /\ r.pid = asked.pid /\ r.exited = asked.exited
      /\ r.terminal = asked.terminal /\ r.adopted = asked.adopted /\ r.pump_done = asked.pump_done
  BY <1>2, <1>3 DEF Fields
<1>5. r.timer = IF (~job.cancelling \/ from_recovery) /\ asked.phase = "TERMINATING"
                THEN outcome ELSE asked.timer
  BY <1>2, <1>3 DEF Fields
<1> QED BY <1>2, <1>4, <1>5 DEF Stopping

(* What arm_recovery makes of a survivor.                                   *)
AdoptedAs(j, job) ==
  /\ DOMAIN job = Fields /\ job.phase \in {"RUNNING", "TERMINATING"} /\ job.pid = pid_of(j)
  /\ job.exited = FALSE /\ job.adopted = TRUE
  /\ job.cancelling => store.jobs[j].state = "STOPPING"
  /\ store.jobs[j].state = "STOPPING" => job.timer # "OFF"

(* The worker's entry of it is such a one.                                  *)
LEMMA AdoptedFacts ==
  ASSUME BoardInv, ProcFacts, WatchInv, pc = "adopt", NEW j \in Adoptable,
         NEW outcome \in {"ARMED", "REFUSED"}, NEW job, job = AdoptedJob(j, outcome)
  PROVE  AdoptedAs(j, job)
<1>1. PICK raw : raw = [gpu |-> CHOOSE g \in leases_of(store.leases, j) : TRUE, pid |-> pid_of(j),
              phase |-> "RUNNING", timer |-> "OFF",
              cancelling |-> plan.decision[j] = "RECANCEL", adopted |-> TRUE,
              exited |-> FALSE, pump_done |-> FALSE, terminal |-> "FAILED"]
  BY Zenon
<1>2. job = IF plan.decision[j] = "RECANCEL" THEN begin_cancellation(raw, proc, TRUE, outcome) ELSE raw
  BY <1>1 DEF AdoptedJob
<1>3. /\ DOMAIN raw = Fields /\ raw.phase = "RUNNING" /\ raw.pid = pid_of(j)
      /\ raw.exited = FALSE /\ raw.adopted = TRUE /\ raw.cancelling = (plan.decision[j] = "RECANCEL")
  BY <1>1 DEF Fields
<1>4. /\ plan.decision[j] = "RECANCEL" => store.jobs[j].state = "STOPPING"
      /\ store.jobs[j].state = "STOPPING" => plan.decision[j] = "RECANCEL"
  BY DEF WatchInv, Adoptable, Survivors, BoardInv, PlanOK
<1>5. CASE plan.decision[j] # "RECANCEL"
  BY <1>2, <1>3, <1>4, <1>5, Zenon DEF AdoptedAs
<1>6. CASE plan.decision[j] = "RECANCEL"
  <2>1. job = begin_cancellation(raw, proc, TRUE, outcome)
    BY <1>2, <1>6
  <2>2. Stopping(job, raw, proc, TRUE)
    BY <1>3, <2>1, BeginCancellation, Zenon
  <2>3. pid_of(j) \in DOMAIN proc
    BY DEF ProcFacts
  <2> QED BY <1>3, <1>4, <1>6, <2>2, <2>3 DEF Stopping, AdoptedAs
<1> QED BY <1>5, <1>6, Zenon

-----------------------------------------------------------------------------
(* Steps that leave the store alone.                                        *)

(* The environment, the pump, the sampler, the clients and the loop.        *)
LEMMA EasyWatch ==
  ASSUME BoardInv, ProcInv, ProcFacts, WatchInv, Effects,
         \/ \E p \in DOMAIN proc, status \in ExitStatus : ProcessExit(p, status)
         \/ \E j \in pumping : PumpDone(j)
         \/ \E command : Send(command)
         \/ (\E obs : Sample(obs)) \/ WaitForWakeup \/ ChannelDrained \/ PostWake \/ LaunchLoadFails
  PROVE  WatchInv'
<1>1. Fewer(proc, proc)
  BY DEF ProcFacts
<1>2. CASE \E p \in DOMAIN proc, status \in ExitStatus : ProcessExit(p, status)
  <2>1. Fewer(proc, proc')
    BY <1>2 DEF Effects
  <2>2. UNCHANGED <<store, by_pid, registry, supervised, plan, pc, launch, misled, skipped>>
    BY <1>2, Zenon DEF ProcessExit, monitors, memory, control, history
  <2> QED BY <2>1, <2>2, QuietWatch
<1>3. CASE \E j \in pumping : PumpDone(j)
  BY <1>1, <1>3, QuietWatch DEF PumpDone, Drained, persistent, memory, control, history
<1>4. CASE \E command : Send(command)
  BY <1>1, <1>4, QuietWatch DEF Send, monitors, memory, control, history
<1>5. CASE \E obs : Sample(obs)
  BY <1>1, <1>5, QuietWatch DEF Sample, persistent, memory, control
<1>6. CASE WaitForWakeup
  BY <1>1, <1>6, QuietWatch DEF WaitForWakeup, Goto, persistent, monitors, memory, Up, history
<1>7. CASE ChannelDrained
  BY <1>1, <1>7, QuietWatch DEF ChannelDrained, Goto, persistent, monitors, memory, Up, history
<1>8. CASE PostWake
  BY <1>1, <1>8, QuietWatch DEF PostWake, Goto, persistent, monitors, memory, Up, BoardInv, history
<1>9. CASE LaunchLoadFails
  BY <1>1, <1>9, QuietWatch DEF LaunchLoadFails, Return, monitors, memory, Up, BoardInv, history
<1> QED BY <1>2, <1>3, <1>4, <1>5, <1>6, <1>7, <1>8, <1>9

(* A grace timer that fires leaves no live process under its pid.           *)
LEMMA EscalateWatch ==
  ASSUME ProcInv, WatchInv, Effects, NEW j \in DOMAIN supervised, Escalate(j), Up
  PROVE  WatchInv'
<1>1. UNCHANGED <<store, by_pid, registry, pc, launch, misled, skipped>>
  BY DEF Escalate, monitors, control, history
<1>2. /\ DOMAIN supervised' = DOMAIN supervised
      /\ \A k \in DOMAIN supervised : k # j => supervised'[k] = supervised[k]
      /\ DOMAIN supervised'[j] = DOMAIN supervised[j]
      /\ supervised'[j].phase = supervised[j].phase
  BY DEF Escalate, WatchInv, JobsOK, Fields
<1>3. JobsOK(supervised')
  BY <1>2 DEF WatchInv, JobsOK
<1>4. ASSUME NEW p \in DOMAIN proc', proc'[p].alive
      PROVE  Attended(p)'
  <2>1. p \in DOMAIN proc /\ proc'[p].job = proc[p].job /\ proc[p].alive /\ p # supervised[j].pid
    BY <1>4, Zenon DEF Effects, Fewer
  <2>2. Attended(p)
    BY <2>1, Zenon DEF WatchInv
  <2>3. CASE proc[p].job = j
    <3>1. ~Watched(p)
      BY <2>1, <2>3 DEF Watched
    <3> QED BY <1>1, <2>1, <2>2, <3>1 DEF Attended
  <2>4. CASE proc[p].job # j
    <3>1. KnownStill(p)
      BY <1>1, <1>2, <2>4 DEF KnownStill
    <3> QED BY <1>1, <2>1, <2>2, <3>1, StillAttended
  <2> QED BY <2>3, <2>4
<1>5. Up'
  BY <1>1 DEF Up
<1> QED BY <1>3, <1>4, <1>5, UpWatch

(* The reaper forgets no live process.                                      *)
LEMMA ScanWatch ==
  ASSUME BoardInv, ProcInv, WatchInv, Effects, NEW r \in DOMAIN registry, Scan(r)
  PROVE  WatchInv'
<1>1. /\ UNCHANGED <<store, by_pid, supervised, pc, launch, misled, skipped>>
      /\ registry' = Without(registry, {r}) /\ Up
  BY DEF Scan, Reaped, memory, control, history
<1>2. r \notin DOMAIN proc \/ proc[r].job # registry[r].ticks \/ ~proc[r].alive
  BY DEF Scan, Reaped
<1>3. ASSUME NEW p \in DOMAIN proc', proc'[p].alive
      PROVE  Attended(p)'
  <2>1. p \in DOMAIN proc /\ proc'[p].job = proc[p].job /\ proc[p].alive
    BY <1>3, Zenon DEF Effects, Fewer
  <2>2. Attended(p)
    BY <1>1, <2>1 DEF WatchInv
  <2>3. CASE p = r
    <3>1. ~Watched(p)
      BY <1>2, <2>1, <2>3, Zenon DEF Watched
    <3> QED BY <1>1, <2>1, <2>2, <3>1 DEF Attended
  <2>4. CASE p # r
    <3>1. KnownStill(p)
      BY <1>1, <2>4 DEF KnownStill, Without
    <3> QED BY <1>1, <2>1, <2>2, <3>1, StillAttended, Zenon
  <2> QED BY <2>3, <2>4
<1>4. Up' /\ JobsOK(supervised')
  BY <1>1 DEF Up, WatchInv
<1> QED BY <1>3, <1>4, UpWatch

(* An event that is dropped is for a pid under which no job is supervised.  *)
LEMMA DropExitWatch ==
  ASSUME WatchInv, DropExit
  PROVE  WatchInv'
<1>1. PICK r : r = Head(exits).pid
  OBVIOUS
<1>2. /\ UNCHANGED <<store, proc, registry, supervised, pc, launch, misled, skipped>> /\ pc = "exits"
      /\ r \in DOMAIN by_pid => by_pid[r] \notin DOMAIN supervised
      /\ by_pid' = Without(by_pid, {r}) /\ Up /\ Up'
  BY <1>1 DEF DropExit, persistent, monitors, control, history, Up
<1>3. ASSUME NEW p \in DOMAIN proc', proc'[p].alive
      PROVE  Attended(p)'
  <2>1. Attended(p) /\ p \in DOMAIN proc
    BY <1>2, <1>3 DEF WatchInv
  <2>2. CASE p = r
    <3>1. ~Watched(p)
      BY <1>2, <2>2, Zenon DEF Watched
    <3> QED BY <1>2, <2>1, <3>1 DEF Attended
  <2>3. CASE p # r
    <3>1. KnownStill(p)
      BY <1>2, <2>3 DEF KnownStill, Without
    <3> QED BY <1>2, <2>1, <3>1, StillAttended, Zenon
  <2> QED BY <2>2, <2>3
<1> QED BY <1>2, <1>3, UpWatch, Zenon DEF WatchInv

(* A job leaves supervision together with the process of its pid.           *)
LEMMA PumpsWatch ==
  ASSUME ProcInv, WatchInv, NEW j, drain_pump_done(j)
  PROVE  WatchInv'
<1>1. UNCHANGED <<store, by_pid, registry, pc, launch, misled, skipped>> /\ pc = "pumps"
  BY DEF drain_pump_done, monitors, control, history
<1>2. \/ supervised' = Without(supervised, {j}) /\ proc' = Without(proc, {supervised[j].pid})
      \/ supervised' = supervised /\ proc' = proc
      \/ j \in DOMAIN supervised /\ supervised' = [supervised EXCEPT ![j].pump_done = TRUE] /\ proc' = proc
  BY DEF drain_pump_done, Release, Killed
<1>3. JobsOK(supervised')
  BY <1>2 DEF WatchInv, JobsOK, Fields, Without
<1>4. ASSUME NEW p \in DOMAIN proc', proc'[p].alive
      PROVE  Attended(p)'
  <2>1. p \in DOMAIN proc /\ proc'[p] = proc[p]
    BY <1>2 DEF Without
  <2>2. Attended(p)
    BY <1>1, <1>4, <2>1 DEF WatchInv, Up
  <2>3. CASE GivenUp(store, proc[p].job) \/ proc[p].job \in misled \cup skipped
    BY <1>1, <2>1, <2>3 DEF Attended
  <2>4. CASE Watched(p)
    <3>1. CASE supervised' = Without(supervised, {j}) /\ proc' = Without(proc, {supervised[j].pid})
      <4>1. proc[p].job # j
        BY <2>4, <3>1, Zenon DEF Watched, Without
      <4>2. KnownStill(p)
        BY <1>1, <3>1, <4>1, Zenon DEF KnownStill, Without
      <4> QED BY <1>1, <2>1, <2>2, <4>2, StillAttended
    <3>2. CASE supervised' = supervised
      <4>1. KnownStill(p)
        BY <1>1, <3>2 DEF KnownStill
      <4> QED BY <1>1, <2>1, <2>2, <4>1, StillAttended
    <3>3. CASE j \in DOMAIN supervised /\ supervised' = [supervised EXCEPT ![j].pump_done = TRUE]
      <4>1. \A k \in DOMAIN supervised : /\ k \in DOMAIN supervised'
              /\ supervised'[k].pid = supervised[k].pid
              /\ supervised'[k].cancelling = supervised[k].cancelling
              /\ supervised'[k].timer = supervised[k].timer
        BY <3>3 DEF WatchInv, JobsOK, Fields
      <4> QED BY <1>1, <2>1, <2>4, <4>1, Zenon DEF Watched, Attended
    <3> QED BY <1>2, <3>1, <3>2, <3>3
  <2> QED BY <1>1, <2>2, <2>3, <2>4 DEF Attended
<1>5. Up'
  BY <1>1 DEF Up
<1> QED BY <1>3, <1>4, <1>5, UpWatch

(* A crash forgets everything that is not in the store.                     *)
LEMMA CrashWatch ==
  ASSUME Crash
  PROVE  WatchInv'
BY DEF Crash, WatchInv, JobsOK, EmptyMap, Up

-----------------------------------------------------------------------------
(* Writes of the worker.                                                    *)

(* The step is about another process than p.                                *)
Untouched(p) ==
  /\ KnownStill(p) /\ store'.jobs[proc[p].job] = store.jobs[proc[p].job]
  /\ ~(pc = "persist" /\ launch.pid = p)

(* It is enough to look at the process the step is about.                   *)
LEMMA WorkerWatch ==
  ASSUME WatchInv, Up, Up', Fewer(proc, proc'), JobsOK(supervised'),
         \A p \in DOMAIN proc' : proc'[p].alive => Attended(p)' \/ Untouched(p)
  PROVE  WatchInv'
<1>1. ASSUME NEW p \in DOMAIN proc', proc'[p].alive, Untouched(p)
      PROVE  Attended(p)'
  <2>1. p \in DOMAIN proc /\ proc'[p].job = proc[p].job /\ proc[p].alive
    BY <1>1, Zenon DEF Fewer
  <2>2. Attended(p)
    BY <2>1, Zenon DEF WatchInv
  <2> QED BY <1>1, <2>1, <2>2, StillAttended, Zenon DEF Untouched
<1> QED BY <1>1, UpWatch

(* process_submit touches no record there was.                              *)
LEMMA SubmitWatch ==
  ASSUME BoardInv, ProcInv, ProcFacts, WatchInv, Effects, NEW created_ok, NEW rollback_ok,
         process_submit(created_ok, rollback_ok)
  PROVE  WatchInv'
<1>1. /\ UNCHANGED <<proc, registry, by_pid, supervised, misled, skipped>> /\ pc = "commands"
      /\ Up /\ Up'
  BY Zenon DEF process_submit, Receive, Post, monitors, Up
<1>2. Fewer(proc, proc') /\ JobsOK(supervised')
  BY <1>1, Zenon DEF ProcFacts, WatchInv
<1>3. Grown(store, store')
  BY Zenon DEF Effects
<1>4. \A p \in DOMAIN proc : Untouched(p)
  BY <1>1, <1>3, Zenon DEF Grown, ProcInv, ProcOK, Untouched, KnownStill
<1> QED BY <1>1, <1>2, <1>4, WorkerWatch

(* process_cancel: the STOPPING write and the timer come together.          *)
LEMMA CancelWatch ==
  ASSUME BoardInv, ProcInv, ProcFacts, WatchInv, Effects,
         NEW ok, NEW timer \in {"ARMED", "REFUSED"}, process_cancel(ok, timer)
  PROVE  WatchInv'
<1>1. PICK j, began : /\ j = Head(commands).job
                      /\ began = begin_cancellation(supervised[j], proc, FALSE, timer)
  BY Zenon
<1>2. UNCHANGED <<proc, registry, by_pid, misled, skipped>> /\ pc = "commands" /\ Up /\ Up'
  BY Zenon DEF process_cancel, Receive, Post, monitors, Up
<1>3. \/ /\ supervised' = supervised
         /\ store' = store \/ store.jobs[j].state = "QUEUED" \/ j \notin DOMAIN supervised
      \/ j \in DOMAIN supervised /\ supervised' = [supervised EXCEPT ![j] = began]
  BY <1>1, Zenon DEF process_cancel
<1>4. supervised' # supervised => store'.jobs[j].state = "STOPPING"
  BY <1>1, Zenon DEF Effects, CancelStore
<1>5. Cancelled(store, store', j)
  BY <1>1, Zenon DEF Effects, CancelStore
<1>6. Fewer(proc, proc') /\ ProcOK(store, proc, misled) /\ StoreOK(store)
  BY <1>2, Zenon DEF ProcFacts, ProcInv, BoardInv
<1>7. ASSUME j \in DOMAIN supervised
      PROVE  /\ DOMAIN began = Fields /\ began.phase \in {"RUNNING", "TERMINATING"}
             /\ began.pid = supervised[j].pid
             /\ supervised[j].timer # "OFF" => began.timer # "OFF"
             /\ supervised[j].pid \in DOMAIN proc /\ ~supervised[j].cancelling => began.timer # "OFF"
  <2>1. PICK job : job = supervised[j]
    OBVIOUS
  <2>2. DOMAIN job = Fields /\ job.phase \in {"RUNNING", "TERMINATING"}
    BY <1>7, <2>1, Zenon DEF WatchInv, JobsOK
  <2>3. began = begin_cancellation(job, proc, FALSE, timer)
    BY <1>1, <2>1
  <2>4. Stopping(began, job, proc, FALSE)
    BY <2>2, <2>3, BeginCancellation, Zenon
  <2> QED BY <2>1, <2>4, Zenon DEF Stopping
<1>8. JobsOK(supervised')
  BY <1>3, <1>7, Zenon DEF WatchInv, JobsOK
<1>9. ASSUME NEW p \in DOMAIN proc, proc[p].alive
      PROVE  Attended(p)' \/ Untouched(p)
  <2>1. PICK k : k = proc[p].job
    OBVIOUS
  <2>2. k \in DOMAIN store.jobs /\ store.jobs[k].state # "QUEUED" /\ Attended(p)
    BY <1>2, <1>6, <1>9, <2>1, Zenon DEF ProcOK, WatchInv
  <2>3. CASE k # j
    BY <1>2, <1>3, <1>5, <2>1, <2>2, <2>3, Zenon DEF Untouched, KnownStill, Cancelled, OnlyOf
  <2>4. CASE k = j /\ (GivenUp(store, k) \/ k \in misled \cup skipped)
    BY <1>2, <1>5, <2>1, <2>4, Zenon DEF Attended, GivenUp, Cancelled
  <2>5. CASE k = j /\ Watched(p)
    <3>1. /\ j \in DOMAIN supervised /\ supervised[j].pid = p /\ store.jobs[j].state # "QUEUED"
          /\ supervised[j].cancelling => store.jobs[j].state = "STOPPING"
          /\ store.jobs[j].state = "STOPPING" => supervised[j].timer # "OFF"
      BY <2>1, <2>2, <2>5 DEF Watched
    <3>2. CASE supervised' = supervised /\ store' = store
      BY <1>2, <3>2, Zenon DEF Untouched, KnownStill
    <3>3. CASE /\ supervised' # supervised \/ store' # store
               /\ supervised' = [supervised EXCEPT ![j] = began]
      <4>1. store'.jobs[j].state = "STOPPING"
        BY <1>4, <1>5, <3>1, <3>3, Zenon DEF Cancelled
      <4>2. began.pid = p /\ began.timer # "OFF"
        BY <1>7, <3>1, Zenon
      <4>3. j \in DOMAIN supervised' /\ supervised'[j] = began
        BY <3>1, <3>3
      <4> QED BY <1>2, <2>1, <2>5, <4>1, <4>2, <4>3, Zenon DEF Watched, Attended
    <3> QED BY <1>3, <3>1, <3>2, <3>3
  <2> QED BY <1>2, <2>1, <2>2, <2>3, <2>4, <2>5, Zenon DEF Attended
<1> QED BY <1>2, <1>6, <1>8, <1>9, WorkerWatch

(* schedule_now starts a job without a process.                             *)
LEMMA SchedulesWatch ==
  ASSUME BoardInv, ProcInv, ProcFacts, WatchInv, Effects, NEW ok, ScheduleOnWake(ok) \/ ScheduleOnGpuEvent(ok)
  PROVE  WatchInv'
<1>1. UNCHANGED <<proc, registry, by_pid, supervised, misled, skipped>> /\ pc \in {"commands", "gpu"} /\ Up
  BY Zenon DEF ScheduleOnWake, ScheduleOnGpuEvent, Receive, schedule_now, monitors, Up
<1>2. Up'
  BY Zenon DEF ScheduleOnWake, ScheduleOnGpuEvent, schedule_now, Up
<1>3. Scheduled
  BY Zenon DEF Effects
<1>4. Fewer(proc, proc') /\ JobsOK(supervised')
  BY <1>1, Zenon DEF ProcFacts, WatchInv
<1>5. \A p \in DOMAIN proc : proc[p].job \in Begun /\ proc[p].job \in DOMAIN store.jobs
  BY <1>1, Zenon DEF ProcInv, ProcOK
<1>6. \A p \in DOMAIN proc : Untouched(p)
  BY <1>1, <1>3, <1>5, Zenon DEF Scheduled, OnlyOf, Untouched, KnownStill
<1> QED BY <1>1, <1>2, <1>4, <1>6, WorkerWatch

(* A launch that fails before there is a process, ...                       *)
LEMMA SpawnFailsWatch ==
  ASSUME BoardInv, ProcInv, ProcFacts, WatchInv, Effects, NEW ok, NEW now, SpawnFails(ok, now)
  PROVE  WatchInv'
<1>1. UNCHANGED <<proc, registry, by_pid, supervised, misled, skipped>> /\ pc = "spawn" /\ pc' = ret
  BY DEF SpawnFails, Return, monitors, history
<1>2. Up /\ Up'
  BY <1>1 DEF BoardInv, Up
<1>3. OnlyOf(store, store', launch.job)
  BY Zenon DEF Effects
<1>4. Fewer(proc, proc') /\ JobsOK(supervised')
  BY <1>1, Zenon DEF ProcFacts, WatchInv
<1>5. \A p \in DOMAIN proc : proc[p].job # launch.job /\ proc[p].job \in DOMAIN store.jobs
  BY <1>1, Zenon DEF ProcFacts, ProcInv, ProcOK
<1>6. \A p \in DOMAIN proc : Untouched(p)
  BY <1>1, <1>3, <1>5, Zenon DEF OnlyOf, Untouched, KnownStill
<1> QED BY <1>1, <1>2, <1>4, <1>6, WorkerWatch

(* ... one that has a process now, ...                                      *)
LEMMA SpawnWatch ==
  ASSUME ProcInv, WatchInv, NEW p, Spawn(p)
  PROVE  WatchInv'
<1>1. PICK new : new = [job |-> launch.job, gpu |-> launch.gpu, child |-> TRUE, alive |-> TRUE,
                        status |-> "SUCCESS"]
  BY Zenon
<1>2. /\ UNCHANGED <<store, registry, by_pid, supervised, misled, skipped>>
      /\ pc = "spawn" /\ pc' = "persist"
      /\ proc' = Set(proc, p, new) /\ launch' = [launch EXCEPT !.pid = p]
  BY <1>1 DEF Spawn, Goto, monitors, history
<1>3. Up /\ Up' /\ JobsOK(supervised')
  BY <1>2 DEF Up, WatchInv
<1>4. ASSUME NEW q \in DOMAIN proc', proc'[q].alive
      PROVE  Attended(q)'
  <2>1. CASE q = p
    <3>1. launch'.pid = p
      BY <1>2 DEF ProcInv, LaunchProc
    <3> QED BY <1>2, <2>1, <3>1 DEF Attended
  <2>2. CASE q # p
    <3>1. q \in DOMAIN proc /\ proc'[q] = proc[q]
      BY <1>2, <2>2 DEF Set, Overlay
    <3>2. Attended(q) /\ KnownStill(q)
      BY <1>2, <1>3, <1>4, <3>1 DEF WatchInv, KnownStill
    <3> QED BY <1>2, <3>1, <3>2, StillAttended
  <2> QED BY <2>1, <2>2
<1> QED BY <1>3, <1>4, UpWatch

(* ... and one that fails and takes its process along.                      *)
LEMMA PersistFailsWatch ==
  ASSUME BoardInv, ProcInv, ProcFacts, WatchInv, Effects,
         NEW fault, NEW ok, NEW started, NEW now, PersistFails(fault, ok, started, now)
  PROVE  WatchInv'
<1>1. /\ UNCHANGED <<registry, by_pid, supervised, misled, skipped>> /\ pc = "persist" /\ pc' = ret
      /\ proc' = Without(proc, {launch.pid})
  BY DEF PersistFails, Return, Killed, monitors, history
<1>2. Up /\ Up'
  BY <1>1 DEF BoardInv, Up
<1>3. OnlyOf(store, store', launch.job)
  BY Zenon DEF Effects
<1>4. Fewer(proc, proc') /\ JobsOK(supervised')
  BY <1>1, Zenon DEF ProcFacts, WatchInv
<1>5. ASSUME NEW p \in DOMAIN proc'
      PROVE  p \in DOMAIN proc /\ p # launch.pid
  BY <1>1, Zenon DEF Without
<1>6. \A p \in DOMAIN proc' : proc[p].job # launch.job /\ proc[p].job \in DOMAIN store.jobs
  BY <1>1, <1>5, Zenon DEF ProcFacts, ProcInv, ProcOK
<1>7. \A p \in DOMAIN proc' : Untouched(p)
  BY <1>1, <1>3, <1>5, <1>6, Zenon DEF OnlyOf, Untouched, KnownStill
<1> QED BY <1>2, <1>4, <1>7, WorkerWatch

(* A launch that succeeds: a process that is alive is registered.           *)
LEMMA SuperviseWatch ==
  ASSUME BoardInv, ProcInv, ProcFacts, WatchInv, Wrote(store, store', launch.job, "RUNNING", LaunchedIdentity),
         NEW now, Supervise(now)
  PROVE  WatchInv'
<1>1. PICK j, p, t : j = launch.job /\ p = launch.pid /\ t = store'
  OBVIOUS
<1>2. PICK job, entry :
        /\ job = [gpu |-> launch.gpu, pid |-> p, phase |-> "RUNNING", timer |-> "OFF",
                  cancelling |-> FALSE, adopted |-> FALSE, exited |-> FALSE, pump_done |-> FALSE,
                  terminal |-> "FAILED"]
        /\ entry = [ticks |-> j, adopted |-> FALSE]
  BY Zenon
<1>3. /\ pc = "persist" /\ pc' = ret /\ by_pid' = Set(by_pid, p, j) /\ UNCHANGED <<misled, skipped>>
      /\ supervised' = Set(supervised, j, job)
      /\ IF proc[p].alive THEN registry' = Set(registry, p, entry) /\ proc' = proc
                          ELSE registry' = registry /\ proc' = Without(proc, {p})
  BY <1>1, <1>2, Zenon DEF Supervise, register_process, Return, history
<1>4. Up /\ Up'
  BY <1>3 DEF BoardInv, Up
<1>5. /\ j \in DOMAIN store.jobs /\ store.jobs[j].state = "STARTING"
      /\ p \in DOMAIN proc /\ proc[p].job = j
      /\ \A q \in DOMAIN proc : proc[q].job = j => q = p
  <2>1. j \in DOMAIN store.jobs /\ store.jobs[j].state = "STARTING"
    BY <1>1, <1>3, Zenon DEF BoardInv, LaunchOK
  <2>2. p \in DOMAIN proc /\ proc[p].job = j
    BY <1>1, <1>3, Zenon DEF ProcInv, LaunchProc
  <2>3. \A q \in DOMAIN proc : proc[q].job = j => q = p
    BY <1>1, <1>3, Zenon DEF ProcFacts
  <2> QED BY <2>1, <2>2, <2>3
<1>6. Wrote(store, t, j, "RUNNING", [pid |-> p, ticks |-> j])
  BY <1>1 DEF LaunchedIdentity
<1>7. Fewer(proc, proc')
  <2>1. proc' = proc \/ proc' = Without(proc, {p})
    BY <1>3
  <2>2. Fewer(proc, proc) /\ Fewer(proc, Without(proc, {p}))
    BY Zenon DEF ProcFacts
  <2> QED BY <2>1, <2>2
<1>8. /\ DOMAIN job = Fields /\ job.phase = "RUNNING" /\ job.pid = p /\ job.cancelling = FALSE
      /\ entry.ticks = j
  BY <1>2, Zenon DEF Fields
<1>9. JobsOK(supervised')
  BY <1>3, <1>8, Zenon DEF WatchInv, JobsOK, Set, Overlay
<1>10. ASSUME p \in DOMAIN proc', proc'[p].alive
       PROVE  Attended(p)'
  <2>1. proc' = proc /\ registry' = Set(registry, p, entry)
    BY <1>3, <1>10, Zenon DEF Without
  <2>2. p \in DOMAIN by_pid' /\ by_pid'[p] = j /\ p \in DOMAIN registry' /\ registry'[p] = entry
    BY <1>3, <2>1, Zenon DEF Set, Overlay
  <2>3. j \in DOMAIN supervised' /\ supervised'[j] = job
    BY <1>3, Zenon DEF Set, Overlay
  <2>4. store'.jobs[j].state # "STOPPING"
    BY <1>1, <1>5, <1>6, Zenon DEF Wrote
  <2> QED BY <1>5, <1>8, <2>1, <2>2, <2>3, <2>4, Zenon DEF Watched, Attended
<1>11. ASSUME NEW q \in DOMAIN proc', q # p
       PROVE  Untouched(q)
  <2>1. q \in DOMAIN proc /\ proc[q].job # j /\ proc[q].job \in DOMAIN store.jobs
    BY <1>5, <1>7, <1>11, Zenon DEF Fewer, ProcInv, ProcOK
  <2>2. KnownStill(q)
    BY <1>3, <1>11, <2>1, Zenon DEF KnownStill, Set, Overlay
  <2>3. t.jobs[proc[q].job] = store.jobs[proc[q].job]
    BY <1>6, <2>1, Zenon DEF Wrote, OnlyOf
  <2> QED BY <1>1, <1>11, <2>2, <2>3, Zenon DEF Untouched
<1> QED BY <1>4, <1>7, <1>9, <1>10, <1>11, WorkerWatch

(* process_exit ends a job that has no process, or about which the worker   *)
(* is misled.                                                               *)
LEMMA ExitWatch ==
  ASSUME BoardInv, ProcInv, ProcFacts, WatchInv, Effects, NEW ok, NEW now, process_exit(ok, now)
  PROVE  WatchInv'
<1>1. PICK r, j : r = Head(exits).pid /\ j = by_pid[r]
  OBVIOUS
<1>2. /\ pc = "exits" /\ pc' = "post" /\ registry' = registry
      /\ exits # <<>> /\ j \in DOMAIN supervised /\ by_pid' = Without(by_pid, {r})
      /\ misled \subseteq misled' /\ skipped' = skipped
      /\ \/ supervised' = Without(supervised, {j}) /\ proc' = Without(proc, {supervised[j].pid})
         \/ /\ supervised' = [supervised EXCEPT ![j].exited = TRUE, ![j].timer = "OFF",
                                ![j].terminal = TerminalOf(supervised[j], Head(exits))]
            /\ proc' = proc
  BY <1>1 DEF process_exit, Release, Killed, Post, monitors
<1>3. Up /\ Up'
  BY <1>2 DEF Up
<1>4. EndedByExit(j)
  BY <1>1, Zenon DEF Effects
<1>5. Fewer(proc, proc') /\ \A q \in DOMAIN proc' : proc'[q] = proc[q]
  BY <1>2 DEF ProcFacts, Without
<1>6. /\ JobsOK(supervised')
      /\ \A k \in DOMAIN supervised : k # j => k \in DOMAIN supervised' /\ supervised'[k] = supervised[k]
  <2>1. CASE supervised' = Without(supervised, {j})
    BY <2>1, Zenon DEF WatchInv, JobsOK, Without
  <2>2. CASE supervised' = [supervised EXCEPT ![j].exited = TRUE, ![j].timer = "OFF",
                             ![j].terminal = TerminalOf(supervised[j], Head(exits))]
    <3>1. PICK st : st = TerminalOf(supervised[j], Head(exits))
      OBVIOUS
    <3>2. supervised' = [supervised EXCEPT ![j].exited = TRUE, ![j].timer = "OFF", ![j].terminal = st]
      BY <2>2, <3>1
    <3> QED BY <1>2, <3>2 DEF WatchInv, JobsOK, Fields
  <2> QED BY <1>2, <2>1, <2>2
<1>7. ASSUME NEW q \in DOMAIN proc', proc'[q].alive
      PROVE  Attended(q)' \/ Untouched(q)
  <2>1. PICK k : k = proc[q].job
    OBVIOUS
  <2>2. /\ q \in DOMAIN proc /\ proc'[q].job = k /\ proc[q].alive /\ k \in DOMAIN store.jobs
        /\ Attended(q)
    BY <1>3, <1>5, <1>7, <2>1, Zenon DEF Fewer, ProcInv, ProcOK, WatchInv
  <2>3. CASE k = j
    <3>1. j \in misled'
      BY <1>4, <2>1, <2>2, <2>3, Zenon DEF EndedByExit
    <3> QED BY <2>2, <2>3, <3>1, Zenon DEF Attended
  <2>4. CASE k # j
    <3>1. store'.jobs[k] = store.jobs[k]
      BY <1>4, <2>2, <2>4, Zenon DEF EndedByExit, OnlyOf
    <3>2. CASE q # r
      <4>1. KnownStill(q)
        BY <1>2, <1>6, <2>1, <2>4, <3>2 DEF KnownStill, Without
      <4> QED BY <1>2, <2>1, <3>1, <4>1 DEF Untouched
    <3>3. CASE q = r
      <4>1. ~Watched(q)
        BY <1>1, <2>1, <2>4, <3>3, Zenon DEF Watched
      <4>2. GivenUp(store, k) \/ k \in misled \cup skipped
        BY <1>2, <2>1, <2>2, <4>1 DEF Attended
      <4> QED BY <1>2, <2>2, <3>1, <4>2 DEF Attended, GivenUp
    <3> QED BY <3>2, <3>3
  <2> QED BY <2>3, <2>4
<1> QED BY <1>3, <1>5, <1>6, <1>7, WorkerWatch, Zenon

-----------------------------------------------------------------------------
(* The start of a daemon.                                                   *)

(* The plan keeps the processes whose identity is stored.                   *)
LEMMA PlanWatch ==
  ASSUME BoardInv, ProcInv, WatchInv, NEW now, Plan(now)
  PROVE  WatchInv'
<1>1. PICK decision : decision = [j \in DOMAIN store.jobs |->
        RecoveryDecision(store.jobs[j], verify_identity_via_proc(store.jobs[j].identity))]
  BY Zenon
<1>2. /\ plan' = [decision |-> decision, todo |-> NeedsWrite(store.jobs, decision), now |-> now]
      /\ pc = "down" /\ pc' = "recover" /\ UNCHANGED <<store, proc, supervised, misled>>
  BY <1>1, Zenon DEF Plan, Goto, persistent, memory, history
<1>3. /\ plan'.decision = decision /\ plan'.todo = NeedsWrite(store.jobs, decision)
      /\ DOMAIN decision = DOMAIN store.jobs
  BY <1>1, <1>2, Zenon
<1>4. ASSUME NEW r, NEW verdict
      PROVE  LET d == RecoveryDecision(r, verdict) IN
             /\ d \in {"ADOPTED", "PROMOTED", "RECANCEL"} => leaseable(r.state)
             /\ d = "RECANCEL" => r.state = "STOPPING"
             /\ is_active(r) /\ has_identity(r) /\ verdict = "VERIFIED" =>
                  d \in {"ADOPTED", "PROMOTED", "RECANCEL"}
             /\ is_active(r) /\ ~has_identity(r) => d = "LOST"
  BY DEF RecoveryDecision, is_active, leaseable
<1>5. ASSUME NEW j \in DOMAIN store.jobs
      PROVE  \E verdict : /\ verdict = verify_identity_via_proc(store.jobs[j].identity)
                          /\ decision[j] = RecoveryDecision(store.jobs[j], verdict)
  BY <1>1, Zenon
<1>6. \A j \in Survivors' : /\ leaseable(store.jobs[j].state)
                            /\ decision[j] = "RECANCEL" => store.jobs[j].state = "STOPPING"
  BY <1>3, <1>4, <1>5 DEF Survivors
<1>7. ASSUME NEW p \in DOMAIN proc, proc[p].alive
      PROVE  Planned(p)'
  <2>1. PICK j, r, verdict : /\ j = proc[p].job /\ r = store.jobs[j]
                             /\ verdict = verify_identity_via_proc(r.identity)
    BY Zenon
  <2>2. j \in DOMAIN store.jobs /\ decision[j] = RecoveryDecision(r, verdict)
    BY <1>1, <2>1, Zenon DEF ProcInv, ProcOK
  <2>3. GivenUp(store, j) \/ is_active(r) \/ j \in misled
    <3>1. ASSUME NEW g, Holds(store, g, j) PROVE is_active(r)
      BY <2>1, <3>1, Zenon DEF BoardInv, StoreOK, LeaseMatrixHolds, Holds, leaseable, is_active
    <3> QED BY <1>7, <2>1, <3>1, Zenon DEF ProcInv, ProcOK
  <2>4. CASE is_active(r) /\ ~has_identity(r)
    <3>1. decision[j] = "LOST" /\ j \in plan'.todo
      BY <1>3, <1>4, <2>2, <2>4, Zenon DEF NeedsWrite
    <3> QED BY <1>2, <1>3, <2>1, <3>1, Zenon DEF Planned
  <2>5. CASE is_active(r) /\ has_identity(r)
    <3>1. PICK id : id = r.identity
      OBVIOUS
    <3>2. id = [pid |-> p, ticks |-> j] /\ id # NoIdentity
      BY <2>1, <2>5, <3>1, Zenon DEF ProcInv, ProcOK, has_identity
    <3>3. verify_identity_via_proc(id) = "VERIFIED"
      BY <2>1, <3>2, Zenon DEF verify_identity_via_proc
    <3>4. j \in Survivors'
      BY <1>3, <1>4, <2>1, <2>2, <2>5, <3>1, <3>3, Zenon DEF Survivors
    <3> QED BY <1>2, <2>1, <3>1, <3>2, <3>4, Zenon DEF Planned
  <2>6. CASE GivenUp(store, j) \/ j \in misled
    BY <1>2, <2>1, <2>6, Zenon DEF Planned, GivenUp
  <2> QED BY <2>3, <2>4, <2>5, <2>6
<1>8. JobsOK(supervised') /\ supervised' = EmptyMap /\ ~Up'
  BY <1>2, Zenon DEF WatchInv, Up
<1> QED BY <1>2, <1>3, <1>6, <1>7, <1>8, Zenon DEF WatchInv

(* A chunk of it: the jobs given up are those whose process is not known.   *)
LEMMA RecoverWatch ==
  ASSUME BoardInv, ProcInv, WatchInv, RecoverStore, NEW ok, RecoverChunk(ok)
  PROVE  WatchInv'
<1>1. PICK decision, t : decision = plan.decision /\ t = store'
  OBVIOUS
<1>2. pc = "recover" /\ UNCHANGED <<proc, supervised, misled>> /\ pc' \in {"recover", "down"}
  BY DEF RecoverChunk, memory, history
<1>3. JobsOK(supervised') /\ supervised' = EmptyMap /\ ~Up'
  BY <1>2, Zenon DEF WatchInv, Up
<1>4. CASE store' = store /\ pc' = "down"
  BY <1>3, <1>4, Zenon DEF WatchInv
<1>5. CASE \E chunk \in SUBSET plan.todo :
             /\ Chunked(store, store', chunk, plan.decision)
             /\ pc' = pc /\ plan' = [plan EXCEPT !.todo = @ \ chunk]
  <2>1. PICK chunk \in SUBSET plan.todo :
          /\ Chunked(store, t, chunk, decision) /\ pc' = "recover"
          /\ plan' = [plan EXCEPT !.todo = @ \ chunk]
    BY <1>1, <1>2, <1>5
  <2>2. Chunked(store, t, chunk, decision) /\ \A j \in chunk : decision[j] \in {"LOST", "PROMOTED"}
    BY <1>1, <1>2, <2>1 DEF BoardInv, PlanOK
  <2>3. pc' = "recover" /\ plan'.decision = decision /\ plan'.todo = plan.todo \ chunk
    BY <1>1, <1>2, <2>1 DEF BoardInv, PlanOK
  <2>4. Survivors' = Survivors /\ DOMAIN t.jobs = DOMAIN store.jobs
    BY <1>1, <2>2, <2>3, Zenon DEF Survivors, Chunked
  <2>5. ASSUME NEW j \in DOMAIN store.jobs
        PROVE  t.jobs[j].identity = store.jobs[j].identity
    BY <2>2, Zenon DEF Chunked
  <2>6. \A j \in DOMAIN store.jobs : j \notin chunk => t.jobs[j] = store.jobs[j]
    BY <2>2, Zenon DEF Chunked
  <2>7. ASSUME NEW j \in Survivors
        PROVE  /\ j \in DOMAIN store.jobs /\ leaseable(t.jobs[j].state)
               /\ decision[j] = "RECANCEL" => t.jobs[j].state = "STOPPING"
    <3>1. /\ j \in DOMAIN store.jobs /\ leaseable(store.jobs[j].state)
          /\ decision[j] = "RECANCEL" => store.jobs[j].state = "STOPPING"
          /\ decision[j] \in {"ADOPTED", "PROMOTED", "RECANCEL"}
      BY <1>1, <1>2, Zenon DEF WatchInv, Survivors
    <3>2. CASE j \in chunk
      <4>1. t.jobs[j].state = "RUNNING" /\ decision[j] # "RECANCEL"
        BY <2>1, <2>2, <3>1, <3>2 DEF Chunked
      <4> QED BY <3>1, <4>1, Zenon DEF leaseable
    <3> QED BY <2>6, <3>1, <3>2, Zenon
  <2>8. ASSUME NEW p \in DOMAIN proc, proc[p].alive
        PROVE  Planned(p)'
    <3>1. PICK j : j = proc[p].job
      OBVIOUS
    <3>2. j \in DOMAIN store.jobs /\ Planned(p)
      BY <1>2, <2>8, <3>1, Zenon DEF ProcInv, ProcOK, WatchInv
    <3>3. CASE j \in Survivors /\ store.jobs[j].identity = [pid |-> p, ticks |-> j]
      BY <1>1, <1>2, <2>4, <2>5, <3>1, <3>2, <3>3, Zenon DEF Planned
    <3>4. CASE GivenUp(store, j)
      <4>1. j \notin chunk
        BY <2>2, <3>4, Zenon DEF Chunked, GivenUp, can_transition
      <4> QED BY <1>1, <1>2, <2>6, <3>1, <3>2, <3>4, <4>1, Zenon DEF Planned, GivenUp
    <3>5. CASE j \in plan.todo /\ decision[j] = "LOST" /\ j \notin chunk
      BY <1>1, <1>2, <2>3, <3>1, <3>5, Zenon DEF Planned
    <3>6. CASE j \in chunk /\ decision[j] = "LOST"
      <4>1. t.jobs[j].state = "LOST"
        BY <2>2, <3>6, Zenon DEF Chunked
      <4>2. ~has_identity(store.jobs[j])
        BY <1>1, <1>2, <3>1, <3>2, <3>6, Zenon DEF ProcInv, PlanProc
      <4>3. GivenUp(t, j)
        BY <2>5, <3>2, <4>1, <4>2, Zenon DEF GivenUp, has_identity
      <4> QED BY <1>1, <1>2, <3>1, <4>3, Zenon DEF Planned
    <3>7. CASE j \in misled
      BY <1>2, <3>1, <3>7, Zenon DEF Planned
    <3> QED BY <1>1, <1>2, <3>1, <3>2, <3>3, <3>4, <3>5, <3>6, <3>7, Zenon DEF Planned
  <2>9. DOMAIN plan'.decision = DOMAIN store'.jobs
    BY <1>1, <1>2, <2>3, <2>4, Zenon DEF WatchInv
  <2> QED BY <1>1, <1>2, <1>3, <2>3, <2>4, <2>7, <2>8, <2>9, Zenon DEF WatchInv
<1> QED BY <1>4, <1>5 DEF RecoverStore

(* Nothing is left to write.                                                *)
LEMMA RestoreWatch ==
  ASSUME WatchInv, NEW obs, RestoreQueue(obs)
  PROVE  WatchInv'
<1>1. /\ pc = "recover" /\ plan.todo = {} /\ UNCHANGED <<store, proc, supervised, misled>>
      /\ \/ pc' = "adopt" /\ plan' = plan
         \/ pc' = "down"
  BY Zenon DEF RestoreQueue, persistent, history
<1>2. JobsOK(supervised') /\ supervised' = EmptyMap /\ ~Up'
  BY <1>1, Zenon DEF WatchInv, Up
<1>3. CASE pc' = "down"
  BY <1>2, <1>3, Zenon DEF WatchInv
<1>4. CASE pc' = "adopt" /\ plan' = plan
  <2>1. Survivors' = Survivors
    BY <1>4, Zenon DEF Survivors
  <2>2. \A p \in DOMAIN proc : Planned(p) => Planned(p)'
    BY <1>1, <1>4, <2>1, Zenon DEF Planned
  <2> QED BY <1>1, <1>2, <1>4, <2>1, <2>2, Zenon DEF WatchInv
<1> QED BY <1>1, <1>3, <1>4, Zenon

(* Each adopted job, with or without its timer.                             *)
LEMMA AdoptedSupervision ==
  ASSUME BoardInv, ProcFacts, WatchInv,
         NEW unloaded, NEW unregistered, NEW refused, Adopt(unloaded, unregistered, refused),
         NEW adopted, adopted = Adoptable \ (unloaded \cup unregistered)
  PROVE  DOMAIN supervised' = adopted /\ \A j \in adopted : AdoptedAs(j, supervised'[j])
<1>1. supervised' = [j \in Adoptable \ (unloaded \cup unregistered) |->
                      AdoptedJob(j, IF j \in refused THEN "REFUSED" ELSE "ARMED")]
  BY DEF Adopt
<1>2. supervised' = [j \in adopted |-> AdoptedJob(j, IF j \in refused THEN "REFUSED" ELSE "ARMED")]
  BY <1>1
<1>3. ASSUME NEW j \in adopted
      PROVE  AdoptedAs(j, supervised'[j])
  <2>1. PICK outcome \in {"ARMED", "REFUSED"} : supervised'[j] = AdoptedJob(j, outcome)
    BY <1>2, Zenon
  <2>2. j \in Adoptable /\ pc = "adopt"
    BY DEF Adopt, Goto
  <2>3. PICK job : job = AdoptedJob(j, outcome)
    OBVIOUS
  <2>4. AdoptedAs(j, job)
    BY <2>2, <2>3, AdoptedFacts
  <2> QED BY <2>1, <2>3, <2>4
<1> QED BY <1>2, <1>3, Zenon

(* The processes that recovery kept are watched again.                      *)
LEMMA AdoptWatch ==
  ASSUME BoardInv, ProcInv, ProcFacts, WatchInv, NEW unloaded, NEW unregistered, NEW refused,
         Adopt(unloaded, unregistered, refused)
  PROVE  WatchInv'
<1>1. PICK adopted, P : /\ adopted = Adoptable \ (unloaded \cup unregistered)
                        /\ P = {pid_of(j) : j \in adopted}
  BY Zenon
<1>2. /\ pc = "adopt" /\ pc' = "wait" /\ store' = store /\ misled' = misled /\ skipped' = unloaded
      /\ proc' = Without(proc, {pid_of(j) : j \in unregistered})
      /\ DOMAIN supervised' = adopted
      /\ \A j \in adopted : AdoptedAs(j, supervised'[j])
      /\ by_pid' = [p \in P |-> CHOOSE j \in adopted : pid_of(j) = p]
      /\ registry' = [p \in P |-> [ticks |-> CHOOSE j \in adopted : pid_of(j) = p, adopted |-> TRUE]]
  <2>1. /\ pc = "adopt" /\ pc' = "wait" /\ store' = store /\ misled' = misled /\ skipped' = unloaded
        /\ proc' = Without(proc, {pid_of(j) : j \in unregistered})
    BY DEF Adopt, Goto
  <2>2. /\ DOMAIN supervised' = adopted
        /\ \A j \in adopted : AdoptedAs(j, supervised'[j])
    BY <1>1, AdoptedSupervision, Zenon
  <2>3. by_pid' = [p \in {pid_of(j) : j \in Adoptable \ (unloaded \cup unregistered)} |->
                    CHOOSE j \in Adoptable \ (unloaded \cup unregistered) : pid_of(j) = p]
    BY DEF Adopt
  <2>4. registry' = [p \in {pid_of(j) : j \in Adoptable \ (unloaded \cup unregistered)} |->
          [ticks |-> CHOOSE j \in Adoptable \ (unloaded \cup unregistered) : pid_of(j) = p,
           adopted |-> TRUE]]
    BY DEF Adopt
  <2>5. by_pid' = [p \in P |-> CHOOSE j \in adopted : pid_of(j) = p]
    BY <1>1, <2>3
  <2>6. registry' = [p \in P |-> [ticks |-> CHOOSE j \in adopted : pid_of(j) = p, adopted |-> TRUE]]
    BY <1>1, <2>4, Zenon
  <2> QED BY <2>1, <2>2, <2>5, <2>6, Zenon
<1>3. \A j \in adopted : j \in Adoptable
  BY <1>1
<1>4. JobsOK(supervised')
  BY <1>2, Zenon DEF JobsOK, AdoptedAs
<1>5. ASSUME NEW p \in DOMAIN proc', proc'[p].alive
      PROVE  Attended(p)'
  <2>1. PICK j : j = proc[p].job
    OBVIOUS
  <2>2. p \in DOMAIN proc /\ proc'[p] = proc[p] /\ \A k \in unregistered : pid_of(k) # p
    BY <1>2, Zenon DEF Without
  <2>3. Planned(p)
    BY <1>2, <1>5, <2>2, Zenon DEF WatchInv
  <2>4. CASE GivenUp(store, j) \/ j \in misled \cup unloaded
    BY <1>2, <2>1, <2>2, <2>4, Zenon DEF Attended
  <2>5. CASE /\ j \in Survivors /\ store.jobs[j].identity = [pid |-> p, ticks |-> j]
             /\ j \notin unloaded
    <3>1. PICK id : id = store.jobs[j].identity
      OBVIOUS
    <3>2. id.pid = p /\ id.ticks = j /\ pid_of(j) = p
      <4>1. id = [pid |-> p, ticks |-> j] /\ pid_of(j) = id.pid
        BY <2>5, <3>1, Zenon DEF pid_of
      <4> QED BY <4>1
    <3>3. id # NoIdentity
      <4>1. j \in JobId /\ p \in Pid
        <5>1. proc[p] \in Process /\ p \in Pid
          BY <2>2, Zenon DEF ProcInv, ProcOK
        <5> QED BY <2>1, <5>1, Zenon DEF Process
      <4>2. id \in Identity
        BY <2>5, <3>1, <4>1, IdentityAssumption
      <4> QED BY <4>2, NullAssumption
    <3>4. j \in adopted /\ p \in P
      <4>1. verify_identity_via_proc(id) = "VERIFIED"
        BY <2>1, <2>2, <3>2, <3>3 DEF verify_identity_via_proc
      <4>2. j \in Adoptable
        BY <2>5, <3>1, <4>1, Zenon DEF Adoptable
      <4> QED BY <1>1, <2>2, <2>5, <3>2, <4>2, Zenon
    <3>5. (CHOOSE k \in adopted : pid_of(k) = p) = j
      <4>1. PICK k : k = CHOOSE i \in adopted : pid_of(i) = p
        OBVIOUS
      <4>2. k \in adopted /\ pid_of(k) = p
        BY <3>2, <3>4, <4>1, Zenon
      <4>3. proc[p].job = k
        BY <1>2, <1>3, <4>2, Zenon DEF ProcFacts
      <4> QED BY <2>1, <4>1, <4>3
    <3>6. /\ p \in DOMAIN by_pid' /\ by_pid'[p] = j
          /\ p \in DOMAIN registry' /\ registry'[p].ticks = j
      BY <1>2, <3>4, <3>5, Zenon
    <3>7. PICK job : job = supervised'[j]
      OBVIOUS
    <3>8. /\ job.pid = p
          /\ job.cancelling => store.jobs[j].state = "STOPPING"
          /\ store.jobs[j].state = "STOPPING" => job.timer # "OFF"
      BY <1>2, <3>2, <3>4, <3>7, Zenon DEF AdoptedAs
    <3>9. j \in DOMAIN supervised' /\ supervised'[j] = job
      BY <1>2, <3>4, <3>7, Zenon
    <3> QED BY <1>2, <2>1, <2>2, <3>6, <3>8, <3>9, Zenon DEF Watched, Attended
  <2> QED BY <1>2, <2>1, <2>3, <2>4, <2>5, Zenon DEF Planned
<1>6. Up'
  BY <1>2, Zenon DEF Up
<1> QED BY <1>4, <1>5, <1>6, UpWatch, Zenon

-----------------------------------------------------------------------------

(* There is nothing to watch at first.                                      *)
LEMMA InitWatch == Init => WatchInv
BY Zenon DEF Init, WatchInv, JobsOK, EmptyMap, Up

(* Every step keeps the watch.                                              *)
LEMMA NextWatch ==
  ASSUME BoardInv, ProcInv, ProcFacts, WatchInv, StoreEffects, Effects, Next
  PROVE  WatchInv'
<1>1. CASE WorkerStep
  <2>1. CASE WaitForWakeup \/ ChannelDrained \/ PostWake \/ LaunchLoadFails
    BY <2>1, EasyWatch
  <2>2. CASE \E created_ok, rollback_ok \in StoreOutcome : process_submit(created_ok, rollback_ok)
    BY <2>2, SubmitWatch, Zenon
  <2>3. CASE \E ok \in StoreOutcome, timer \in TimerOutcome : process_cancel(ok, timer)
    BY <2>3, CancelWatch DEF TimerOutcome
  <2>4. CASE \E ok \in StoreOutcome : ScheduleOnWake(ok) \/ ScheduleOnGpuEvent(ok)
    BY <2>4, SchedulesWatch
  <2>5. CASE \E ok \in StoreOutcome, now \in Clock : SpawnFails(ok, now)
    BY <2>5, SpawnFailsWatch
  <2>6. CASE \E p \in Pid : Spawn(p)
    BY <2>6, SpawnWatch, Zenon
  <2>7. CASE \E fault \in {"persist", "refused", "register", "attach"}, ok \in StoreOutcome,
               started, now \in Clock : PersistFails(fault, ok, started, now)
    BY <2>7, PersistFailsWatch
  <2>8. CASE \E now \in Clock : Supervise(now)
    BY <2>8, SuperviseWatch, Zenon DEF StoreEffects
  <2>9. CASE \E ok \in StoreOutcome, now \in Clock : process_exit(ok, now)
    BY <2>9, ExitWatch
  <2>10. CASE DropExit
    BY <2>10, DropExitWatch
  <2>11. CASE \E j \in done : drain_pump_done(j)
    BY <2>11, PumpsWatch
  <2> QED BY <1>1, <2>1, <2>2, <2>3, <2>4, <2>5, <2>6, <2>7, <2>8, <2>9, <2>10, <2>11, Zenon DEF WorkerStep
<1>2. CASE StartStep
  BY <1>2, PlanWatch, RecoverWatch, RestoreWatch, AdoptWatch, Zenon DEF StartStep, StoreEffects
<1>3. CASE EnvironmentStep
  <2>1. CASE \E spec \in JobSpec : SubmitJob(spec)
    BY <2>1, EasyWatch, Zenon DEF SubmitJob
  <2>2. CASE \E j \in DOMAIN store.jobs : CancelJob(j)
    BY <2>2, EasyWatch DEF CancelJob
  <2>3. CASE \E p \in DOMAIN proc, status \in ExitStatus : ProcessExit(p, status)
    BY <2>3, EasyWatch
  <2>4. CASE \E j \in DOMAIN supervised : Escalate(j)
    <3>1. Up
      BY <2>4, Zenon DEF WatchInv, EmptyMap
    <3> QED BY <2>4, <3>1, EscalateWatch
  <2>5. CASE \E p \in DOMAIN registry : Scan(p)
    BY <2>5, ScanWatch
  <2>6. CASE (\E j \in pumping : PumpDone(j)) \/ \E obs \in Observations : Sample(obs)
    BY <2>6, EasyWatch
  <2>7. CASE Crash
    BY <2>7, CrashWatch
  <2> QED BY <1>3, <2>1, <2>2, <2>3, <2>4, <2>5, <2>6, <2>7, Zenon DEF EnvironmentStep
<1> QED BY <1>1, <1>2, <1>3 DEF Next

(* And so does a stuttering step.                                           *)
LEMMA StutterWatch ==
  ASSUME ProcFacts, WatchInv, UNCHANGED vars
  PROVE  WatchInv'
<1>1. UNCHANGED <<store, by_pid, registry, supervised, plan, pc, launch, proc, misled, skipped>>
  BY Zenon DEF vars, persistent, channels, monitors, memory, control, history
<1>2. Fewer(proc, proc')
  BY <1>1, Zenon DEF ProcFacts
<1> QED BY <1>1, <1>2, QuietWatch, Zenon

-----------------------------------------------------------------------------
(* The log streams.                                                         *)

(* What a step may do without a thought of the streams.                     *)
RecordsFramed ==
  /\ Begun \subseteq Begun'
  /\ \A j \in Begun : \/ store'.jobs[j].state = store.jobs[j].state
                      \/ ~is_terminal(store'.jobs[j].state)

MemoryFramed ==
  /\ \A p \in DOMAIN by_pid' : p \in DOMAIN by_pid /\ by_pid'[p] = by_pid[p]
  /\ DOMAIN supervised' = DOMAIN supervised
  /\ \A j \in DOMAIN supervised :
       /\ supervised'[j].exited = supervised[j].exited
       /\ supervised'[j].terminal = supervised[j].terminal
       /\ supervised'[j].adopted = supervised[j].adopted
       /\ supervised'[j].pump_done = supervised[j].pump_done

StreamsFramed ==
  /\ \A j \in DOMAIN streams' : j \in DOMAIN streams /\ streams'[j] = streams[j]
  /\ pc = "persist" => \/ UNCHANGED <<pc, launch, streams>>
                       \/ pc' # "persist" /\ launch.job \notin DOMAIN streams'
  /\ pc' = "persist" => pc = "persist"
  /\ ~Up' => ~Up

(* Such a step keeps the invariant.                                         *)
LEMMA FrameEof ==
  ASSUME EofInv, RecordsFramed, MemoryFramed, StreamsFramed, UNCHANGED <<pumping, done>>
  PROVE  EofInv'
<1>1. (DOMAIN supervised \cup pumping \cup done \subseteq Begun)' /\ (pumping \cap done = {})'
  BY Zenon DEF EofInv, RecordsFramed, MemoryFramed
<1>2. \A p, q \in DOMAIN by_pid' : by_pid'[p] = by_pid'[q] => p = q
  BY Zenon DEF EofInv, MemoryFramed
<1>3. ASSUME NEW j \in DOMAIN supervised'
      PROVE  Ending(j)'
  <2>1. j \in DOMAIN supervised /\ j \in Begun /\ Ending(j)
    BY <1>3, Zenon DEF EofInv, MemoryFramed
  <2> QED BY <2>1, Zenon DEF Ending, RecordsFramed, MemoryFramed
<1>4. ASSUME NEW j \in DOMAIN streams'
      PROVE  /\ j \in Begun' \/ (pc' = "persist" /\ j = launch'.job)
             /\ streams'[j] # "OPEN" => Closed(j)'
  <2>1. j \in DOMAIN streams /\ streams'[j] = streams[j]
    BY <1>4 DEF StreamsFramed
  <2>2. CASE j \in Begun
    <3>1. streams[j] # "OPEN" => Closed(j)
      BY <2>1, Zenon DEF EofInv
    <3> QED BY <2>1, <2>2, <3>1, Zenon DEF Closed, RecordsFramed, MemoryFramed
  <2>3. CASE pc = "persist" /\ j = launch.job
    BY <1>4, <2>1, <2>3, Zenon DEF EofInv, StreamsFramed
  <2> QED BY <2>1, <2>2, <2>3, Zenon DEF EofInv
<1>5. pc' = "persist" => launch'.job \in DOMAIN streams' /\ streams'[launch'.job] = "OPEN"
  BY Zenon DEF EofInv, StreamsFramed
<1>6. ~Up' => DOMAIN streams' = {} /\ pumping' = {} /\ done' = {}
  BY Zenon DEF EofInv, StreamsFramed
<1> QED BY <1>1, <1>2, <1>3, <1>4, <1>5, <1>6, Zenon DEF EofInv

(* A step that leaves the store and the memory alone as well.               *)
LEMMA StillEof ==
  ASSUME EofInv, UNCHANGED <<store, supervised, by_pid, streams, pumping, done>>,
         \/ UNCHANGED <<pc, launch>>
         \/ Up /\ Up' /\ pc # "persist" /\ pc' \notin {"spawn", "persist"}
  PROVE  EofInv'
<1>1. Begun \subseteq Begun'
  BY DEF Begun
<1>2. RecordsFramed /\ MemoryFramed /\ StreamsFramed
  BY <1>1 DEF RecordsFramed, MemoryFramed, StreamsFramed, Up
<1> QED BY <1>2, FrameEof

(* No daemon, no streams.                                                   *)
LEMMA DownEof ==
  ASSUME ~Up', DOMAIN supervised' = {}, DOMAIN streams' = {}, pumping' = {}, done' = {},
         \A p, q \in DOMAIN by_pid' : by_pid'[p] = by_pid'[q] => p = q
  PROVE  EofInv'
BY DEF EofInv, Up

-----------------------------------------------------------------------------
(* Steps that leave the store alone.                                        *)

(* The environment, the reaper, the sampler, the clients and the loop.      *)
LEMMA EasyEof ==
  ASSUME BoardInv, EofInv,
         \/ \E p \in DOMAIN proc, status \in ExitStatus : ProcessExit(p, status)
         \/ \E p \in DOMAIN registry : Scan(p)
         \/ \E command : Send(command)
         \/ (\E obs : Sample(obs)) \/ WaitForWakeup \/ ChannelDrained \/ PostWake \/ LaunchLoadFails
         \/ UNCHANGED vars
  PROVE  EofInv'
<1>1. CASE \E p \in DOMAIN proc, status \in ExitStatus : ProcessExit(p, status)
  BY <1>1, StillEof, Zenon DEF ProcessExit, channels, monitors, memory, control
<1>2. CASE \E p \in DOMAIN registry : Scan(p)
  BY <1>2, StillEof, Zenon DEF Scan, Reaped, memory, control
<1>3. CASE \E command : Send(command)
  BY <1>3, StillEof, Zenon DEF Send, monitors, memory, control
<1>4. CASE \E obs : Sample(obs)
  BY <1>4, StillEof, Zenon DEF Sample, persistent, memory, control
<1>5. CASE WaitForWakeup
  BY <1>5, StillEof DEF WaitForWakeup, Goto, persistent, monitors, memory, Up
<1>6. CASE ChannelDrained
  BY <1>6, StillEof, Zenon DEF ChannelDrained, Goto, persistent, channels, monitors, memory, Up
<1>7. CASE PostWake
  BY <1>7, StillEof, Zenon DEF PostWake, Goto, persistent, monitors, memory, Up, BoardInv
<1>8. CASE LaunchLoadFails
  BY <1>8, StillEof DEF LaunchLoadFails, Return, channels, monitors, memory, Up, BoardInv
<1>9. CASE UNCHANGED vars
  BY <1>9, StillEof DEF vars, persistent, channels, monitors, memory, control
<1> QED BY <1>1, <1>2, <1>3, <1>4, <1>5, <1>6, <1>7, <1>8, <1>9

(* A grace timer.                                                           *)
LEMMA EscalateEof ==
  ASSUME WatchInv, EofInv, NEW j \in DOMAIN supervised, Escalate(j)
  PROVE  EofInv'
<1>1. UNCHANGED <<store, by_pid, streams, pumping, done, pc, launch>>
  BY DEF Escalate, channels, monitors, control
<1>2. MemoryFramed
  BY <1>1 DEF Escalate, MemoryFramed, WatchInv, JobsOK, Fields
<1>3. RecordsFramed /\ StreamsFramed
  BY <1>1, Zenon DEF RecordsFramed, StreamsFramed, Begun, Up
<1> QED BY <1>1, <1>2, <1>3, FrameEof

(* An event that is dropped.                                                *)
LEMMA DropExitEof ==
  ASSUME EofInv, DropExit
  PROVE  EofInv'
<1>1. /\ UNCHANGED <<store, supervised, streams, pumping, done, pc, launch>>
      /\ \E p : by_pid' = Without(by_pid, {p})
  BY Zenon DEF DropExit, persistent, monitors, control
<1>2. RecordsFramed /\ MemoryFramed /\ StreamsFramed
  BY <1>1, Zenon DEF RecordsFramed, MemoryFramed, StreamsFramed, Begun, Up, Without
<1> QED BY <1>1, <1>2, FrameEof

(* The pump has drained the pipes of a job.                                 *)
LEMMA PumpDoneEof ==
  ASSUME EofInv, NEW j \in pumping, PumpDone(j)
  PROVE  EofInv'
<1>1. /\ UNCHANGED <<store, supervised, by_pid, streams, pc, launch>> /\ Up
      /\ pumping' = pumping \ {j} /\ done' = done \cup {j}
  BY DEF PumpDone, Drained, persistent, memory, control
<1>2. Begun' = Begun /\ Up'
  BY <1>1, Zenon DEF Begun, Up
<1>3. (DOMAIN supervised \cup pumping \cup done \subseteq Begun)' /\ (pumping \cap done = {})'
  BY <1>1, <1>2, Zenon DEF EofInv
<1>4. \A k \in DOMAIN supervised : Ending(k)'
  BY <1>1, Zenon DEF EofInv, Ending
<1>5. \A k \in DOMAIN streams : streams[k] # "OPEN" => Closed(k)'
  BY <1>1, Zenon DEF EofInv, Closed
<1> QED BY <1>1, <1>2, <1>3, <1>4, <1>5, Zenon DEF EofInv

(* The daemon goes away.                                                    *)
LEMMA CrashEof ==
  ASSUME Crash
  PROVE  EofInv'
BY DownEof DEF Crash, EmptyMap, Up

(* The daemon starts.                                                       *)
LEMMA StartEof ==
  ASSUME WatchInv, EofInv,
         (\E now : Plan(now)) \/ (\E ok : RecoverChunk(ok)) \/ (\E obs : RestoreQueue(obs))
  PROVE  EofInv'
<1>1. UNCHANGED <<supervised, by_pid, streams, pumping, done>> /\ ~Up /\ ~Up'
  <2>1. CASE \E now : Plan(now)
    BY <2>1, Zenon DEF Plan, Goto, channels, monitors, memory, Up
  <2>2. CASE \E ok : RecoverChunk(ok)
    BY <2>2 DEF RecoverChunk, channels, monitors, memory, Up
  <2>3. CASE \E obs : RestoreQueue(obs)
    BY <2>3, Zenon DEF RestoreQueue, channels, Up
  <2> QED BY <2>1, <2>2, <2>3
<1>2. DOMAIN supervised = {} /\ DOMAIN streams = {} /\ pumping = {} /\ done = {}
  BY <1>1, Zenon DEF WatchInv, EofInv, EmptyMap
<1>3. \A p, q \in DOMAIN by_pid : by_pid[p] = by_pid[q] => p = q
  BY Zenon DEF EofInv
<1> QED BY <1>1, <1>2, <1>3, DownEof

(* It adopts jobs that have not ended, and none of their streams.           *)
LEMMA AdoptEof ==
  ASSUME BoardInv, ProcFacts, WatchInv, EofInv, NEW unloaded, NEW unregistered, NEW refused,
         Adopt(unloaded, unregistered, refused)
  PROVE  EofInv'
<1>1. PICK adopted, P : /\ adopted = Adoptable \ (unloaded \cup unregistered)
                        /\ P = {pid_of(j) : j \in adopted}
  BY Zenon
<1>2. PICK owner : owner = [p \in P |-> CHOOSE j \in adopted : pid_of(j) = p]
  BY Zenon
<1>3. /\ pc = "adopt" /\ pc' = "wait" /\ UNCHANGED <<store, streams, pumping, done>>
      /\ DOMAIN supervised' = adopted
      /\ \A j \in adopted : AdoptedAs(j, supervised'[j])
      /\ by_pid' = owner
  <2>1. pc = "adopt" /\ pc' = "wait" /\ UNCHANGED <<store, streams, pumping, done>>
    BY DEF Adopt, Goto
  <2>2. /\ DOMAIN supervised' = adopted
        /\ \A j \in adopted : AdoptedAs(j, supervised'[j])
    BY <1>1, AdoptedSupervision, Zenon
  <2>3. by_pid' = [p \in {pid_of(j) : j \in Adoptable \ (unloaded \cup unregistered)} |->
                    CHOOSE j \in Adoptable \ (unloaded \cup unregistered) : pid_of(j) = p]
    BY DEF Adopt
  <2>4. by_pid' = owner
    BY <1>1, <1>2, <2>3
  <2> QED BY <2>1, <2>2, <2>4, Zenon
<1>4. DOMAIN streams' = {} /\ pumping' = {} /\ done' = {}
  BY <1>3, Zenon DEF EofInv, Up
<1>5. ASSUME NEW j \in adopted
      PROVE  /\ j \in Begun /\ ~is_terminal(store.jobs[j].state)
             /\ supervised'[j].exited = FALSE
  <2>1. j \in Adoptable
    BY <1>1
  <2>2. supervised'[j].exited = FALSE /\ j \in Begun
    BY <1>3, <2>1, Zenon DEF ProcFacts, AdoptedAs
  <2>3. leaseable(store.jobs[j].state)
    BY <1>3, <2>1, Zenon DEF WatchInv, Adoptable
  <2> QED BY <2>2, <2>3, Zenon DEF leaseable, is_terminal, Terminal
<1>6. \A j \in DOMAIN supervised' : Ending(j)'
  BY <1>3, <1>4, <1>5, Zenon DEF Ending
<1>7. \A p, q \in DOMAIN by_pid' : by_pid'[p] = by_pid'[q] => p = q
  <2>1. ASSUME NEW p \in P PROVE pid_of(owner[p]) = p
    <3>1. \E j \in adopted : pid_of(j) = p
      BY <1>1, <2>1
    <3> QED BY <1>2, <3>1
  <2>2. DOMAIN owner = P
    BY <1>2
  <2> QED BY <1>3, <2>1, <2>2
<1>8. Begun' = Begun /\ Up'
  BY <1>3, Zenon DEF Begun, Up
<1>9. (DOMAIN supervised \cup pumping \cup done \subseteq Begun)'
  BY <1>3, <1>4, <1>5, <1>8, Zenon
<1> QED BY <1>3, <1>4, <1>6, <1>7, <1>8, <1>9, Zenon DEF EofInv

-----------------------------------------------------------------------------
(* The end of a job.                                                        *)

(* A job whose output is drained leaves supervision with its EOF.           *)
LEMMA ReleaseEof ==
  ASSUME EofInv, NEW j \in DOMAIN supervised, NEW st,
         streams' = finish_job(streams, j, st), supervised' = Without(supervised, {j}),
         pumping' = pumping, j \notin pumping, done' \subseteq done, Begun \subseteq Begun',
         OnlyOf(store, store', j),
         is_terminal(store'.jobs[j].state) => store'.jobs[j].state = st,
         \A p \in DOMAIN by_pid' : p \in DOMAIN by_pid /\ by_pid'[p] = by_pid[p],
         Up', pc # "persist", pc' # "persist"
  PROVE  EofInv'
<1>1. DOMAIN supervised' = DOMAIN supervised \ {j}
      /\ \A k \in DOMAIN supervised' : supervised'[k] = supervised[k]
  BY Zenon DEF Without
<1>2. /\ DOMAIN streams' = DOMAIN streams
      /\ \A k \in DOMAIN streams : k # j => streams'[k] = streams[k]
      /\ j \in DOMAIN streams /\ streams[j] = "OPEN" => streams'[j] = st
  BY Zenon DEF finish_job
<1>3. (DOMAIN supervised \cup pumping \cup done \subseteq Begun)' /\ (pumping \cap done = {})'
  BY <1>1, Zenon DEF EofInv
<1>4. \A k \in Begun : k # j => store'.jobs[k] = store.jobs[k]
  BY Zenon DEF Begun, OnlyOf
<1>5. ASSUME NEW k \in DOMAIN supervised'
      PROVE  Ending(k)'
  <2>1. k \in DOMAIN supervised /\ k # j /\ k \in Begun /\ Ending(k)
    BY <1>1, <1>5, Zenon DEF EofInv
  <2> QED BY <1>1, <1>4, <1>5, <2>1, Zenon DEF Ending
<1>6. ASSUME NEW k \in DOMAIN streams'
      PROVE  k \in Begun' /\ (streams'[k] # "OPEN" => Closed(k)')
  <2>1. k \in Begun /\ (streams[k] # "OPEN" => Closed(k))
    BY <1>2, <1>6, Zenon DEF EofInv
  <2>2. CASE k # j
    BY <1>1, <1>2, <1>4, <1>6, <2>1, <2>2, Zenon DEF Closed
  <2>3. CASE k = j
    <3>1. streams[j] = "OPEN"
      BY <2>1, <2>3, Zenon DEF Closed
    <3> QED BY <1>1, <1>2, <1>6, <2>1, <2>3, <3>1, Zenon DEF Closed
  <2> QED BY <2>2, <2>3, Zenon
<1>7. \A p, q \in DOMAIN by_pid' : by_pid'[p] = by_pid'[q] => p = q
  BY Zenon DEF EofInv
<1> QED BY <1>3, <1>5, <1>6, <1>7, Zenon DEF EofInv

(* drain_pump_done.                                                         *)
LEMMA PumpsEof ==
  ASSUME WatchInv, EofInv, NEW j \in done, drain_pump_done(j)
  PROVE  EofInv'
<1>1. /\ UNCHANGED <<store, by_pid, pumping, pc, launch>> /\ pc = "pumps" /\ done' = done \ {j}
  BY DEF drain_pump_done, monitors, control
<1>2. Begun' = Begun /\ Up /\ Up' /\ j \notin pumping
  BY <1>1, Zenon DEF Begun, Up, EofInv
<1>3. CASE j \in DOMAIN supervised /\ supervised[j].exited
  <2>1. PICK st : st = supervised[j].terminal
    OBVIOUS
  <2>2. streams' = finish_job(streams, j, st) /\ supervised' = Without(supervised, {j})
    BY <1>3, <2>1 DEF drain_pump_done, Release
  <2>3. is_terminal(store'.jobs[j].state) => store'.jobs[j].state = st
    BY <1>1, <1>3, <2>1, Zenon DEF EofInv, Ending
  <2>4. OnlyOf(store, store', j) /\ done' \subseteq done
    BY <1>1 DEF OnlyOf
  <2> QED BY <1>1, <1>2, <1>3, <2>2, <2>3, <2>4, ReleaseEof, Zenon
<1>4. CASE ~(j \in DOMAIN supervised /\ supervised[j].exited)
  <2>1. /\ streams' = streams
        /\ supervised' = IF j \in DOMAIN supervised
                         THEN [supervised EXCEPT ![j].pump_done = TRUE] ELSE supervised
    BY <1>4 DEF drain_pump_done
  <2>2. /\ DOMAIN supervised' = DOMAIN supervised
        /\ \A k \in DOMAIN supervised :
             /\ supervised'[k].exited = supervised[k].exited
             /\ supervised'[k].terminal = supervised[k].terminal
             /\ supervised'[k].adopted = supervised[k].adopted
             /\ k # j => supervised'[k].pump_done = supervised[k].pump_done
    BY <2>1, Zenon DEF WatchInv, JobsOK, Fields
  <2>3. \A k \in DOMAIN supervised' : Ending(k)'
    BY <1>1, <1>2, <2>2, Zenon DEF EofInv, Ending
  <2>4. \A k \in DOMAIN streams' : streams'[k] # "OPEN" => Closed(k)'
    BY <1>1, <2>1, <2>2 DEF EofInv, Closed
  <2>5. (DOMAIN supervised \cup pumping \cup done \subseteq Begun)' /\ (pumping \cap done = {})'
    BY <1>1, <1>2, <2>2, Zenon DEF EofInv
  <2> QED BY <1>1, <1>2, <2>1, <2>3, <2>4, <2>5 DEF EofInv
<1> QED BY <1>3, <1>4

(* process_exit: the EOF at once, or when the pump is done.                 *)
LEMMA ExitEof ==
  ASSUME BoardInv, WatchInv, EofInv, Effects, NEW ok, NEW now, process_exit(ok, now)
  PROVE  EofInv'
<1>1. PICK r, j, st : /\ r = Head(exits).pid /\ j = by_pid[r]
                      /\ st = TerminalOf(supervised[j], Head(exits))
  OBVIOUS
<1>2. /\ pc = "exits" /\ pc' = "post" /\ UNCHANGED <<pumping, done>>
      /\ r \in DOMAIN by_pid /\ j \in DOMAIN supervised /\ by_pid' = Without(by_pid, {r})
      /\ IF ReadyForEof(supervised[j])
         THEN streams' = finish_job(streams, j, st) /\ supervised' = Without(supervised, {j})
         ELSE /\ supervised' = [supervised EXCEPT ![j].exited = TRUE, ![j].timer = "OFF",
                                                   ![j].terminal = st]
              /\ streams' = streams
  BY <1>1 DEF process_exit, Release, Post, monitors
<1>3. Up /\ Up'
  BY <1>2 DEF Up
<1>4. /\ j \in Begun /\ OnlyOf(store, store', j)
      /\ store' = store \/ store'.jobs[j].state = st
  BY <1>1, Zenon DEF Effects, EndedByExit
<1>5. Begun \subseteq Begun'
  <2>1. store'.jobs[j].state # "QUEUED"
    <3>1. supervised[j].cancelling \in BOOLEAN
      BY <1>2 DEF BoardInv, SupervisedOK
    <3>2. st # "QUEUED"
      BY <1>1, <3>1, Zenon DEF TerminalOf
    <3> QED BY <1>4, <3>2, Zenon DEF Begun
  <2> QED BY <1>2, <1>4, <2>1 DEF Begun, OnlyOf
<1>6. /\ \A p \in DOMAIN by_pid' : p \in DOMAIN by_pid /\ by_pid'[p] = by_pid[p] /\ by_pid'[p] # j
  BY <1>1, <1>2 DEF EofInv, Without
<1>7. ~is_terminal(store.jobs[j].state) /\ (ReadyForEof(supervised[j]) => j \notin pumping)
  BY <1>1, <1>2, Zenon DEF EofInv, Ending, ReadyForEof
<1>8. is_terminal(store'.jobs[j].state) => store'.jobs[j].state = st
  BY <1>4, <1>7, Zenon
<1>9. CASE ReadyForEof(supervised[j])
  BY <1>2, <1>3, <1>4, <1>5, <1>6, <1>7, <1>8, <1>9, ReleaseEof, Zenon
<1>10. CASE ~ReadyForEof(supervised[j])
  <2>1. /\ DOMAIN supervised' = DOMAIN supervised
        /\ \A k \in DOMAIN supervised : k # j => supervised'[k] = supervised[k]
        /\ supervised'[j].exited = TRUE /\ supervised'[j].terminal = st
        /\ supervised'[j].adopted = supervised[j].adopted
        /\ supervised'[j].pump_done = supervised[j].pump_done
    <3>1. PICK before, after : before = supervised[j] /\ after = supervised'[j]
      OBVIOUS
    <3>2. supervised' = [supervised EXCEPT ![j].exited = TRUE, ![j].timer = "OFF", ![j].terminal = st]
      BY <1>2, <1>10
    <3>3. after = [before EXCEPT !.exited = TRUE, !.timer = "OFF", !.terminal = st]
      BY <1>2, <3>1, <3>2
    <3>4. DOMAIN before = Fields
      BY <1>2, <3>1 DEF WatchInv, JobsOK
    <3>5. /\ after.exited = TRUE /\ after.terminal = st
          /\ after.adopted = before.adopted /\ after.pump_done = before.pump_done
      BY <3>3, <3>4 DEF Fields
    <3>6. /\ DOMAIN supervised' = DOMAIN supervised
          /\ \A k \in DOMAIN supervised : k # j => supervised'[k] = supervised[k]
      BY <3>2
    <3> QED BY <3>1, <3>5, <3>6, Zenon
  <2>2. \A k \in Begun : k # j => store'.jobs[k] = store.jobs[k]
    BY <1>4, Zenon DEF Begun, OnlyOf
  <2>3. ASSUME NEW k \in DOMAIN supervised'
        PROVE  Ending(k)'
    <3>1. k \in DOMAIN supervised /\ k \in Begun /\ Ending(k)
      BY <2>1, <2>3, Zenon DEF EofInv
    <3>2. CASE k # j
      BY <1>2, <1>6, <2>1, <2>2, <3>1, <3>2, Zenon DEF Ending
    <3>3. CASE k = j
      BY <1>2, <1>6, <1>8, <2>1, <3>1, <3>3 DEF Ending
    <3> QED BY <3>2, <3>3
  <2>4. ASSUME NEW k \in DOMAIN streams'
        PROVE  k \in Begun' /\ (streams'[k] # "OPEN" => Closed(k)')
    <3>1. k \in Begun /\ streams'[k] = streams[k] /\ (streams[k] # "OPEN" => Closed(k))
      BY <1>2, <1>10, <2>4 DEF EofInv
    <3>2. streams[k] # "OPEN" => k # j
      BY <1>2, <3>1 DEF Closed
    <3> QED BY <1>2, <1>5, <2>1, <2>2, <3>1, <3>2 DEF Closed
  <2>5. (DOMAIN supervised \cup pumping \cup done \subseteq Begun)' /\ (pumping \cap done = {})'
    BY <1>2, <1>5, <2>1 DEF EofInv
  <2>6. \A p, q \in DOMAIN by_pid' : by_pid'[p] = by_pid'[q] => p = q
    BY <1>6, Zenon DEF EofInv
  <2> QED BY <1>2, <1>3, <2>3, <2>4, <2>5, <2>6, Zenon DEF EofInv
<1> QED BY <1>9, <1>10

-----------------------------------------------------------------------------
(* Writes for jobs that have no stream, or have not ended.                  *)

(* process_submit.                                                          *)
LEMMA SubmitEof ==
  ASSUME EofInv, Effects, NEW created_ok, NEW rollback_ok,
         process_submit(created_ok, rollback_ok)
  PROVE  EofInv'
<1>1. UNCHANGED <<supervised, by_pid, streams, pumping, done>> /\ pc = "commands" /\ pc' = "post"
  BY Zenon DEF process_submit, Receive, Post, monitors
<1>2. Grown(store, store')
  BY Zenon DEF Effects
<1>3. RecordsFramed
  BY <1>1, <1>2, Zenon DEF Grown, RecordsFramed, Begun
<1>4. MemoryFramed /\ StreamsFramed
  BY <1>1, Zenon DEF MemoryFramed, StreamsFramed, Up
<1> QED BY <1>1, <1>3, <1>4, FrameEof

(* process_cancel ends only a job that was never started.                   *)
LEMMA CancelEof ==
  ASSUME WatchInv, EofInv, Effects,
         NEW ok, NEW timer \in {"ARMED", "REFUSED"}, process_cancel(ok, timer)
  PROVE  EofInv'
<1>1. PICK j, began : /\ j = Head(commands).job
                      /\ began = begin_cancellation(supervised[j], proc, FALSE, timer)
  BY Zenon
<1>2. UNCHANGED <<by_pid, streams, pumping, done>> /\ pc = "commands" /\ pc' = "post"
  BY Zenon DEF process_cancel, Receive, Post, monitors
<1>3. \/ supervised' = supervised
      \/ j \in DOMAIN supervised /\ supervised' = [supervised EXCEPT ![j] = began]
  BY <1>1, Zenon DEF process_cancel
<1>4. Cancelled(store, store', j)
  BY <1>1, Zenon DEF Effects, CancelStore
<1>5. RecordsFramed
  BY <1>2, <1>4, Zenon DEF Cancelled, OnlyOf, RecordsFramed, Begun, is_terminal, Terminal
<1>6. ASSUME j \in DOMAIN supervised
      PROVE  /\ began.exited = supervised[j].exited /\ began.terminal = supervised[j].terminal
             /\ began.adopted = supervised[j].adopted /\ began.pump_done = supervised[j].pump_done
  <2>1. PICK job : job = supervised[j]
    OBVIOUS
  <2>2. DOMAIN job = Fields /\ job.phase \in {"RUNNING", "TERMINATING"}
    BY <1>6, <2>1, Zenon DEF WatchInv, JobsOK
  <2>3. began = begin_cancellation(job, proc, FALSE, timer)
    BY <1>1, <2>1, Zenon
  <2>4. Stopping(began, job, proc, FALSE)
    BY <2>2, <2>3, BeginCancellation, Zenon
  <2> QED BY <2>1, <2>4, Zenon DEF Stopping
<1>7. MemoryFramed /\ StreamsFramed
  BY <1>2, <1>3, <1>6, Zenon DEF MemoryFramed, StreamsFramed, Up
<1> QED BY <1>2, <1>5, <1>7, FrameEof

(* schedule_now.                                                            *)
LEMMA SchedulesEof ==
  ASSUME EofInv, Effects, NEW ok, ScheduleOnWake(ok) \/ ScheduleOnGpuEvent(ok)
  PROVE  EofInv'
<1>1. /\ UNCHANGED <<supervised, by_pid, streams, pumping, done>> /\ pc \in {"commands", "gpu"}
      /\ pc' \in {"commands", "wait", "spawn"}
  BY Zenon DEF ScheduleOnWake, ScheduleOnGpuEvent, Receive, schedule_now, monitors
<1>2. Scheduled
  BY Zenon DEF Effects
<1>3. RecordsFramed
  <2>1. \A k \in Begun : k \in DOMAIN store'.jobs /\ store'.jobs[k] = store.jobs[k]
    BY <1>2, Zenon DEF Scheduled, OnlyOf, Begun
  <2>2. Begun \subseteq Begun'
    BY <1>1, <1>2, <2>1, Zenon DEF Scheduled, Begun
  <2> QED BY <2>1, <2>2, Zenon DEF RecordsFramed
<1>4. MemoryFramed /\ StreamsFramed
  BY <1>1, Zenon DEF MemoryFramed, StreamsFramed, Up
<1> QED BY <1>1, <1>3, <1>4, FrameEof

(* A launch that fails takes its stream along.                              *)
LEMMA FailedEof ==
  ASSUME BoardInv, EofInv, pc \in {"spawn", "persist"}, pc' = ret,
         OnlyOf(store, store', launch.job), UNCHANGED <<supervised, by_pid, pumping, done>>,
         streams' = finish_job(unregister_job(streams, launch.job), launch.job, "FAILED")
  PROVE  EofInv'
<1>1. PICK j : j = launch.job
  OBVIOUS
<1>2. j \notin Begun
  BY <1>1, Zenon DEF Begun
<1>3. pc' \in {"commands", "wait", "exits"}
  BY DEF BoardInv
<1>4. \A k \in Begun : k \in DOMAIN store'.jobs /\ store'.jobs[k] = store.jobs[k]
  BY <1>1, <1>2, Zenon DEF OnlyOf, Begun
<1>5. RecordsFramed
  BY <1>3, <1>4, Zenon DEF RecordsFramed, Begun
<1>6. DOMAIN streams' = DOMAIN streams \ {j} /\ \A k \in DOMAIN streams' : streams'[k] = streams[k]
  BY <1>1, Zenon DEF finish_job, unregister_job, Without
<1>7. MemoryFramed /\ StreamsFramed
  BY <1>1, <1>3, <1>6, Zenon DEF MemoryFramed, StreamsFramed, Up
<1> QED BY <1>5, <1>7, FrameEof

(* fork or exec failed, or a step after it.                                 *)
LEMMA LaunchFailsEof ==
  ASSUME BoardInv, EofInv, Effects, NEW ok, NEW started, NEW now, NEW fault,
         SpawnFails(ok, now) \/ PersistFails(fault, ok, started, now)
  PROVE  EofInv'
<1>1. CASE SpawnFails(ok, now)
  <2>1. OnlyOf(store, store', launch.job)
    BY <1>1, Zenon DEF Effects
  <2> QED BY <1>1, <2>1, FailedEof DEF SpawnFails, fail_launch, Return, channels, monitors
<1>2. CASE PersistFails(fault, ok, started, now)
  <2>1. OnlyOf(store, store', launch.job)
    BY <1>2, Zenon DEF Effects
  <2> QED BY <1>2, <2>1, FailedEof DEF PersistFails, fail_launch, Return, monitors
<1> QED BY <1>1, <1>2

(* The stream of a job is opened with its process.                          *)
LEMMA SpawnEof ==
  ASSUME BoardInv, ProcInv, EofInv, NEW p, Spawn(p)
  PROVE  EofInv'
<1>1. PICK j : j = launch.job
  OBVIOUS
<1>2. /\ UNCHANGED <<store, supervised, by_pid, pumping, done>> /\ pc = "spawn" /\ pc' = "persist"
      /\ launch' = [launch EXCEPT !.pid = p] /\ streams' = Set(streams, j, "OPEN")
  BY <1>1 DEF Spawn, Goto, channels, monitors
<1>3. launch'.job = j /\ Begun' = Begun /\ Up'
  BY <1>1, <1>2 DEF ProcInv, LaunchProc, Begun, Up
<1>4. /\ j \in DOMAIN streams' /\ streams'[j] = "OPEN"
      /\ \A k \in DOMAIN streams' : k # j => k \in DOMAIN streams /\ streams'[k] = streams[k]
  BY <1>2 DEF Set, Overlay
<1>5. \A k \in DOMAIN supervised : Ending(k)'
  BY <1>2 DEF EofInv, Ending
<1>6. ASSUME NEW k \in DOMAIN streams', k # j
      PROVE  k \in Begun /\ (streams'[k] # "OPEN" => Closed(k)')
  BY <1>2, <1>4, <1>6 DEF EofInv, Closed
<1>7. (DOMAIN supervised \cup pumping \cup done \subseteq Begun)' /\ (pumping \cap done = {})'
  BY <1>2, <1>3 DEF EofInv
<1> QED BY <1>2, <1>3, <1>4, <1>5, <1>6, <1>7 DEF EofInv

(* A launch that succeeds: the stream stays open, the pump begins.          *)
LEMMA SuperviseEof ==
  ASSUME BoardInv, ProcInv, EofInv, Wrote(store, store', launch.job, "RUNNING", LaunchedIdentity),
         NEW now, Supervise(now)
  PROVE  EofInv'
<1>1. PICK j, p, t : j = launch.job /\ p = launch.pid /\ t = store'
  OBVIOUS
<1>2. PICK job :
        job = [gpu |-> launch.gpu, pid |-> p, phase |-> "RUNNING", timer |-> "OFF",
               cancelling |-> FALSE, adopted |-> FALSE, exited |-> FALSE, pump_done |-> FALSE,
               terminal |-> "FAILED"]
  BY Zenon
<1>3. /\ pc = "persist" /\ pc' = ret /\ by_pid' = Set(by_pid, p, j)
      /\ supervised' = Set(supervised, j, job)
      /\ pumping' = pumping \cup {j} /\ UNCHANGED <<done, streams>>
  BY <1>1, <1>2, Zenon DEF Supervise, Return
<1>4. pc' \in {"commands", "wait", "exits"} /\ Up'
  BY <1>3, Zenon DEF BoardInv, Up
<1>5. /\ j \in DOMAIN store.jobs /\ store.jobs[j].state = "STARTING" /\ j \notin Begun
  BY <1>1, <1>3, Zenon DEF BoardInv, LaunchOK, Begun
<1>6. \E id : Wrote(store, t, j, "RUNNING", id)
  BY <1>1
<1>7. /\ \A k \in Begun : k \in DOMAIN t.jobs /\ t.jobs[k] = store.jobs[k]
      /\ j \in DOMAIN t.jobs /\ t.jobs[j].state \in {"STARTING", "RUNNING"}
  BY <1>5, <1>6, Zenon DEF Wrote, OnlyOf, Begun
<1>8. Begun \subseteq Begun' /\ j \in Begun'
  BY <1>1, <1>4, <1>7, Zenon DEF Begun
<1>9. \A q \in DOMAIN by_pid : by_pid[q] \in Begun
  BY Zenon DEF ProcInv, PidsOK
<1>10. DOMAIN by_pid' = DOMAIN by_pid \cup {p} /\ by_pid'[p] = j
       /\ \A q \in DOMAIN by_pid : q # p => by_pid'[q] = by_pid[q]
  BY <1>3, Zenon DEF Set, Overlay
<1>11. \A q, r \in DOMAIN by_pid' : by_pid'[q] = by_pid'[r] => q = r
  BY <1>5, <1>9, <1>10, ZenonT(30) DEF EofInv
<1>12. DOMAIN supervised' = DOMAIN supervised \cup {j} /\ supervised'[j] = job
       /\ \A k \in DOMAIN supervised : k # j => supervised'[k] = supervised[k]
  BY <1>3, Zenon DEF Set, Overlay
<1>13. ASSUME NEW k \in DOMAIN supervised'
       PROVE  Ending(k)'
  <2>1. CASE k = j
    <3>1. job.exited = FALSE /\ job.adopted = FALSE /\ job.pump_done = FALSE
      BY <1>2, Zenon
    <3> QED BY <1>1, <1>7, <1>12, <2>1, <3>1, Zenon DEF Ending, is_terminal, Terminal
  <2>2. CASE k # j
    <3>1. k \in DOMAIN supervised /\ supervised'[k] = supervised[k] /\ k \in Begun /\ Ending(k)
      BY <1>12, <1>13, <2>2, Zenon DEF EofInv
    <3>2. store'.jobs[k] = store.jobs[k]
      BY <1>1, <1>7, <3>1, Zenon
    <3> QED BY <1>3, <1>10, <2>2, <3>1, <3>2, Zenon DEF Ending
  <2> QED BY <2>1, <2>2
<1>14. ASSUME NEW k \in DOMAIN streams'
       PROVE  k \in Begun' /\ (streams'[k] # "OPEN" => Closed(k)')
  <2>1. k \in Begun \/ k = j
    BY <1>1, <1>3, <1>14, Zenon DEF EofInv
  <2>2. streams[k] # "OPEN" => k # j /\ Closed(k)
    BY <1>1, <1>3, <1>14, Zenon DEF EofInv
  <2> QED BY <1>1, <1>3, <1>7, <1>8, <1>12, <2>1, <2>2, Zenon DEF Closed
<1>15. (DOMAIN supervised \cup pumping \cup done \subseteq Begun)' /\ (pumping \cap done = {})'
  BY <1>3, <1>5, <1>8, <1>12, Zenon DEF EofInv
<1> QED BY <1>4, <1>11, <1>13, <1>14, <1>15, Zenon DEF EofInv

-----------------------------------------------------------------------------
(* Every step.                                                              *)

(* In the beginning no job has been started.                                *)
LEMMA InitEof ==
  ASSUME Init
  PROVE  EofInv
BY Zenon DEF Init, EofInv, EmptyMap, Up

(* No step disturbs the streams.                                            *)
LEMMA NextEof ==
  ASSUME BoardInv, ProcInv, ProcFacts, WatchInv, EofInv, StoreEffects, Effects, Next
  PROVE  EofInv'
<1>1. CASE WorkerStep
  <2>1. CASE WaitForWakeup \/ ChannelDrained \/ PostWake \/ LaunchLoadFails
    BY <2>1, EasyEof
  <2>2. CASE \E created_ok, rollback_ok \in StoreOutcome : process_submit(created_ok, rollback_ok)
    BY <2>2, SubmitEof
  <2>3. CASE \E ok \in StoreOutcome, timer \in TimerOutcome : process_cancel(ok, timer)
    BY <2>3, CancelEof DEF TimerOutcome
  <2>4. CASE \E ok \in StoreOutcome : ScheduleOnWake(ok) \/ ScheduleOnGpuEvent(ok)
    BY <2>4, SchedulesEof
  <2>5. CASE \E ok \in StoreOutcome, now \in Clock : SpawnFails(ok, now)
    BY <2>5, LaunchFailsEof
  <2>6. CASE \E p \in Pid : Spawn(p)
    BY <2>6, SpawnEof, Zenon
  <2>7. CASE \E fault \in {"persist", "refused", "register", "attach"}, ok \in StoreOutcome,
               started, now \in Clock : PersistFails(fault, ok, started, now)
    BY <2>7, LaunchFailsEof
  <2>8. CASE \E now \in Clock : Supervise(now)
    BY <2>8, SuperviseEof, Zenon DEF StoreEffects
  <2>9. CASE \E ok \in StoreOutcome, now \in Clock : process_exit(ok, now)
    BY <2>9, ExitEof
  <2>10. CASE DropExit
    BY <2>10, DropExitEof
  <2>11. CASE \E j \in done : drain_pump_done(j)
    BY <2>11, PumpsEof
  <2> QED BY <1>1, <2>1, <2>2, <2>3, <2>4, <2>5, <2>6, <2>7, <2>8, <2>9, <2>10, <2>11, Zenon DEF WorkerStep
<1>2. CASE StartStep
  BY <1>2, StartEof, AdoptEof DEF StartStep
<1>3. CASE EnvironmentStep
  <2>1. CASE \E spec \in JobSpec : SubmitJob(spec)
    BY <2>1, EasyEof DEF SubmitJob
  <2>2. CASE \E j \in DOMAIN store.jobs : CancelJob(j)
    <3>1. \E command : Send(command)
      BY <2>2 DEF CancelJob
    <3> QED BY <3>1, EasyEof
  <2>3. CASE \E p \in DOMAIN proc, status \in ExitStatus : ProcessExit(p, status)
    BY <2>3, EasyEof
  <2>4. CASE \E j \in DOMAIN supervised : Escalate(j)
    BY <2>4, EscalateEof
  <2>5. CASE \E p \in DOMAIN registry : Scan(p)
    BY <2>5, EasyEof
  <2>6. CASE \E j \in pumping : PumpDone(j)
    BY <2>6, PumpDoneEof
  <2>7. CASE \E obs \in Observations : Sample(obs)
    BY <2>7, EasyEof
  <2>8. CASE Crash
    BY <2>8, CrashEof
  <2> QED BY <1>3, <2>1, <2>2, <2>3, <2>4, <2>5, <2>6, <2>7, <2>8, Zenon DEF EnvironmentStep
<1> QED BY <1>1, <1>2, <1>3 DEF Next

=============================================================================
