---------------------------- MODULE ProcessProofs ----------------------------
EXTENDS JobManagerInv, TLAPS
(***************************************************************************)
(* Every step of the job manager keeps ProcInv.  What a step does to the   *)
(* store is a hypothesis here (StoreEffects, LeasesKept): BoardProofs      *)
(* proves it.                                                              *)
(***************************************************************************)

-----------------------------------------------------------------------------
(* Fewer processes.                                                         *)

(* Taking processes away leaves fewer.                                      *)
LEMMA WithoutFewer ==
  ASSUME NEW s, NEW ps, NEW M, NEW S, ProcOK(s, ps, M)
  PROVE  Fewer(ps, ps) /\ Fewer(ps, Without(ps, S))
BY Zenon DEF Fewer, Without, ProcOK

(* What holds of the processes holds of fewer.                              *)
LEMMA FewerApart ==
  ASSUME NEW ps, NEW qs, Apart(ps), Fewer(ps, qs)
  PROVE  Apart(qs)
BY DEF Apart, OnlyAt, Fewer

(* Likewise of each of them by itself ...                                   *)
LEMMA FewerOK ==
  ASSUME NEW s, NEW ps, NEW qs, NEW M, ProcOK(s, ps, M), Fewer(ps, qs)
  PROVE  ProcOK(s, qs, M)
BY DEF ProcOK, Fewer

(* ... and of the exits that were reported and the pids that are looked up. *)
LEMMA FewerTracked ==
  ASSUME NEW B, NEW C, B \subseteq C, NEW es, NEW by, NEW reg, NEW ps, NEW qs,
         DOMAIN qs \subseteq DOMAIN ps, \A p \in DOMAIN qs : qs[p].job = ps[p].job
  PROVE  /\ RegistryOK(reg, B, ps) => RegistryOK(reg, C, qs)
         /\ EventsOK(es, B, ps) => EventsOK(es, C, qs)
         /\ PidsOK(by, B, ps) => PidsOK(by, C, qs)
<1>1. \A j, p : OnlyAt(j, p, ps) => OnlyAt(j, p, qs)
  BY DEF OnlyAt
<1>2. RegistryOK(reg, B, ps) => RegistryOK(reg, C, qs)
  BY <1>1, Zenon DEF RegistryOK
<1>3. EventsOK(es, B, ps) => EventsOK(es, C, qs)
  BY DEF EventsOK
<1>4. PidsOK(by, B, ps) => PidsOK(by, C, qs)
  BY <1>1, Zenon DEF PidsOK
<1> QED BY <1>2, <1>3, <1>4

(* So does the end of one, which stays as a zombie or not.                  *)
LEMMA EndedFewer ==
  ASSUME NEW s, NEW ps, NEW p \in DOMAIN ps, NEW status \in Status,
         NEW M, ProcOK(s, ps, M),
         NEW qs, qs = [ps EXCEPT ![p].alive = FALSE, ![p].status = status]
  PROVE  Fewer(ps, qs) /\ ~qs[p].alive
<1>1. ps[p] \in Process
  BY Zenon DEF ProcOK
<1>2. PICK r : r = [ps[p] EXCEPT !.alive = FALSE, !.status = status]
  OBVIOUS
<1>3. r \in Process /\ r.job = ps[p].job /\ r.gpu = ps[p].gpu /\ r.alive = FALSE
  BY <1>1, <1>2, Zenon DEF Process
<1>4. DOMAIN qs = DOMAIN ps /\ \A q \in DOMAIN ps : qs[q] = IF q = p THEN r ELSE ps[q]
  BY <1>2
<1> QED BY <1>3, <1>4, Zenon DEF Fewer, ProcOK

-----------------------------------------------------------------------------
(* The exit events.                                                         *)

(* A report of a process that is gone may be added to the channel, ...      *)
LEMMA EventAppended ==
  ASSUME NEW B, NEW ps, NEW es, EventsOK(es, B, ps), NEW e \in ExitEvent,
         e.ticks \in B, \A q \in DOMAIN ps : ps[q].job # e.ticks
  PROVE  EventsOK(Append(es, e), B, ps)
<1>1. es \in Seq(ExitEvent) /\ Append(es, e) \in Seq(ExitEvent)
  BY DEF EventsOK
<1>2. Len(Append(es, e)) = Len(es) + 1 /\ Len(es) \in Nat
  BY <1>1
<1>3. \A i \in 1 .. Len(es) + 1 : Append(es, e)[i] = IF i = Len(es) + 1 THEN e ELSE es[i]
  BY <1>1
<1> QED BY <1>1, <1>2, <1>3 DEF EventsOK

(* ... and the first one taken out.                                         *)
LEMMA EventTaken ==
  ASSUME NEW B, NEW ps, NEW es, EventsOK(es, B, ps), es # <<>>
  PROVE  /\ EventsOK(Tail(es), B, ps)
         /\ Head(es) \in ExitEvent /\ Head(es).ticks \in B
         /\ \A q \in DOMAIN ps : ps[q].job # Head(es).ticks
<1>1. es \in Seq(ExitEvent) /\ Tail(es) \in Seq(ExitEvent) /\ Len(es) \in Nat /\ Len(es) > 0
  BY DEF EventsOK
<1>2. Head(es) = es[1] /\ 1 \in 1 .. Len(es) /\ es[1] \in ExitEvent
  BY <1>1
<1>3. Len(Tail(es)) = Len(es) - 1 /\ \A i \in 1 .. Len(es) - 1 : Tail(es)[i] = es[i + 1]
  BY <1>1
<1>4. \A i \in 1 .. Len(es) - 1 : i + 1 \in 1 .. Len(es)
  BY <1>1
<1> QED BY <1>1, <1>2, <1>3, <1>4 DEF EventsOK

-----------------------------------------------------------------------------
(* Between two stores.                                                      *)

(* A write for one job touches the processes of no other.                   *)
LEMMA OthersKept ==
  ASSUME NEW s, NEW t, NEW j, NEW ps, NEW qs, StoreOK(s), LeasesKept(s, t), OnlyOf(s, t, j),
         NEW M, ProcOK(s, ps, M), Fewer(ps, qs), \A p \in DOMAIN qs : qs[p].job # j
  PROVE  ProcOK(t, qs, M)
<1>1. ProcOK(s, qs, M)
  BY FewerOK
<1> SUFFICES ASSUME NEW p \in DOMAIN qs
             PROVE  /\ p \in Pid /\ qs[p] \in Process
                    /\ qs[p].job \in DOMAIN t.jobs /\ t.jobs[qs[p].job].state # "QUEUED"
                    /\ t.jobs[qs[p].job].identity \in {NoIdentity, [pid |-> p, ticks |-> qs[p].job]}
                    /\ qs[p].alive => \/ Holds(t, qs[p].gpu, qs[p].job) \/ GivenUp(t, qs[p].job)
                                      \/ qs[p].job \in M
  BY DEF ProcOK
<1>2. PICK k : k = qs[p].job
  OBVIOUS
<1>3. k \in DOMAIN s.jobs /\ k \in DOMAIN t.jobs /\ t.jobs[k] = s.jobs[k]
  BY <1>1, <1>2, Zenon DEF ProcOK, OnlyOf
<1>4. Holds(s, qs[p].gpu, k) => Holds(t, qs[p].gpu, k)
  <2> SUFFICES ASSUME NEW g, g = qs[p].gpu, g \in DOMAIN s.leases, s.leases[g] = k
               PROVE  Holds(t, g, k)
    BY DEF Holds
  <2>1. leaseable(s.jobs[k].state)
    BY DEF StoreOK, LeaseMatrixHolds
  <2> QED BY <2>1, <1>3 DEF LeasesKept
<1>5. GivenUp(s, k) => GivenUp(t, k)
  BY <1>3 DEF GivenUp
<1> QED BY <1>1, <1>2, <1>3, <1>4, <1>5, Zenon DEF ProcOK

(* A job that goes on under its lease, with its identity or now known by    *)
(* it, keeps its process.                                                   *)
LEMMA OneKept ==
  ASSUME NEW s, NEW t, NEW j, NEW ps, NEW qs, StoreOK(s), LeasesKept(s, t), OnlyOf(s, t, j),
         NEW M, ProcOK(s, ps, M), Fewer(ps, qs), j \in DOMAIN s.jobs,
         leaseable(s.jobs[j].state), leaseable(t.jobs[j].state),
         \A p \in DOMAIN qs : qs[p].job = j =>
           t.jobs[j].identity \in {NoIdentity, [pid |-> p, ticks |-> j]}
  PROVE  ProcOK(t, qs, M)
<1>1. ProcOK(s, qs, M)
  BY FewerOK
<1> SUFFICES ASSUME NEW p \in DOMAIN qs
             PROVE  /\ p \in Pid /\ qs[p] \in Process
                    /\ qs[p].job \in DOMAIN t.jobs /\ t.jobs[qs[p].job].state # "QUEUED"
                    /\ t.jobs[qs[p].job].identity \in {NoIdentity, [pid |-> p, ticks |-> qs[p].job]}
                    /\ qs[p].alive => \/ Holds(t, qs[p].gpu, qs[p].job) \/ GivenUp(t, qs[p].job)
                                      \/ qs[p].job \in M
  BY Zenon DEF ProcOK
<1>2. PICK k : k = qs[p].job
  OBVIOUS
<1>3. k \in DOMAIN s.jobs /\ k \in DOMAIN t.jobs /\ (k # j => t.jobs[k] = s.jobs[k])
  BY <1>1, <1>2, Zenon DEF ProcOK, OnlyOf
<1>4. Holds(s, qs[p].gpu, k) => Holds(t, qs[p].gpu, k)
  <2> SUFFICES ASSUME NEW g, g = qs[p].gpu, g \in DOMAIN s.leases, s.leases[g] = k
               PROVE  Holds(t, g, k)
    BY DEF Holds
  <2>1. leaseable(s.jobs[k].state)
    BY DEF StoreOK, LeaseMatrixHolds
  <2>2. leaseable(t.jobs[k].state)
    BY <2>1, <1>3
  <2> QED BY <2>2 DEF LeasesKept
<1>5. GivenUp(s, k) => GivenUp(t, k)
  BY <1>3 DEF GivenUp, leaseable
<1>6. t.jobs[k].state # "QUEUED"
  BY <1>1, <1>2, <1>3, Zenon DEF ProcOK, leaseable
<1> QED BY <1>1, <1>2, <1>3, <1>4, <1>5, <1>6, Zenon DEF ProcOK

(* A job the worker is misled about may have ended under its process.       *)
LEMMA MisledKept ==
  ASSUME NEW s, NEW t, NEW j, NEW ps, NEW qs, StoreOK(s), LeasesKept(s, t), OnlyOf(s, t, j),
         NEW M, ProcOK(s, ps, M), Fewer(ps, qs),
         t.jobs[j].state # "QUEUED", t.jobs[j].identity = s.jobs[j].identity
  PROVE  ProcOK(t, qs, M \cup {j})
<1> DEFINE rest == Without(qs, {p \in DOMAIN qs : qs[p].job = j})
<1>1. ProcOK(s, qs, M)
  BY FewerOK
<1>2. Fewer(qs, rest) /\ \A p \in DOMAIN rest : rest[p].job # j
  BY <1>1, WithoutFewer, Zenon DEF Without
<1>3. \A p \in DOMAIN qs : qs[p].job # j => p \in DOMAIN rest /\ rest[p] = qs[p]
  BY Zenon DEF Without
<1> HIDE DEF rest
<1>4. ProcOK(t, rest, M)
  BY <1>1, <1>2, OthersKept, Zenon
<1>5. ASSUME NEW p \in DOMAIN qs, qs[p].job = j
      PROVE  j \in DOMAIN t.jobs
  BY <1>1, <1>5, Zenon DEF ProcOK, OnlyOf
<1> QED BY <1>1, <1>3, <1>4, <1>5, Zenon DEF ProcOK

(* A record stays a sound one.                                              *)
LEMMA WroteRecords ==
  ASSUME NEW s, NEW t, NEW j, NEW st, NEW id, RecordsOK(s), Wrote(s, t, j, st, id),
         id # NoIdentity => id.ticks = j
  PROVE  RecordsOK(t)
<1>1. CASE t = s
  BY <1>1
<1>2. CASE t # s
  <2>1. t.jobs[j].state # "QUEUED"
    BY <1>2 DEF Wrote, can_transition
  <2> QED BY <1>2, <2>1 DEF Wrote, RecordsOK, OnlyOf, has_identity
<1> QED BY <1>1, <1>2

(* The ids of stored jobs.                                                  *)
LEMMA StoredJobs ==
  ASSUME NEW s, StoreOK(s)
  PROVE  DOMAIN s.jobs \subseteq JobId
BY DEF StoreOK

(* The job being launched.                                                  *)
LEMMA LaunchFacts ==
  ASSUME BoardInv, ProcInv, pc \in {"spawn", "persist"}
  PROVE  /\ launch.job \in DOMAIN store.jobs /\ store.jobs[launch.job].state = "STARTING"
         /\ launch.job \in JobId \ Begun /\ launch.gpu \in GpuUuid
         /\ Holds(store, launch.gpu, launch.job) /\ ~has_identity(store.jobs[launch.job])
         /\ \A p \in DOMAIN proc : proc[p].job = launch.job => pc = "persist" /\ p = launch.pid
<1>1. launch.job \in DOMAIN store.jobs /\ store.jobs[launch.job].state = "STARTING"
  BY DEF BoardInv, LaunchOK
<1>2. launch.job \in JobId \ Begun
  BY <1>1, StoredJobs DEF BoardInv, Begun
<1>3. Holds(store, launch.gpu, launch.job) /\ ~has_identity(store.jobs[launch.job])
  BY DEF ProcInv, LaunchProc
<1>4. launch.gpu \in GpuUuid
  BY <1>3 DEF Holds, BoardInv, StoreOK
<1>5. \A p \in DOMAIN proc : proc[p].job = launch.job => pc = "persist" /\ p = launch.pid
  BY <1>2 DEF ProcInv
<1> QED BY <1>1, <1>2, <1>3, <1>4, <1>5

(* A survivor is watched by the pid of its own process.                     *)
LEMMA AdoptableFacts ==
  ASSUME BoardInv, ProcInv, pc = "adopt", NEW j \in Adoptable
  PROVE  /\ j \in Begun /\ pid_of(j) \in DOMAIN proc /\ proc[pid_of(j)].job = j
         /\ pid_of(j) \in Pid
<1>1. j \in DOMAIN store.jobs /\ verify_identity_via_proc(store.jobs[j].identity) = "VERIFIED"
  BY DEF BoardInv, PlanOK, Adoptable, Survivors
<1>2. PICK id : id = store.jobs[j].identity
  OBVIOUS
<1>3. id # NoIdentity /\ id.pid \in DOMAIN proc /\ proc[id.pid].job = id.ticks
  BY <1>1, <1>2 DEF verify_identity_via_proc
<1>4. id.ticks = j
  BY <1>1, <1>2, <1>3 DEF ProcInv, RecordsOK, has_identity
<1>5. pid_of(j) = id.pid
  BY <1>2 DEF pid_of
<1> QED BY <1>1, <1>3, <1>4, <1>5, Zenon DEF ProcInv, ProcOK, Begun

-----------------------------------------------------------------------------
(* The invariant over steps that leave the store alone.                     *)

(* The environment, the other threads and the loop.                         *)
LEMMA QuietProc ==
  ASSUME ProcInv, UNCHANGED <<store, misled>>, Fewer(proc, proc'),
         RegistryOK(registry', Begun, proc'), EventsOK(exits', Begun, proc'), PidsOK(by_pid', Begun, proc'),
         \/ /\ UNCHANGED <<pc, launch, plan>>
            /\ pc = "persist" => launch.pid \in DOMAIN proc' /\ proc'[launch.pid].child
         \/ pc' \notin {"spawn", "persist", "recover"}
  PROVE  ProcInv'
<1>1. RecordsOK(store)' /\ ProcOK(store, proc, misled)' /\ Apart(proc)'
  BY FewerOK, FewerApart, Zenon DEF ProcInv
<1>2. Begun \subseteq Begun'
  BY DEF Begun
<1>3. RegistryOK(registry, Begun, proc)' /\ EventsOK(exits, Begun, proc)' /\ PidsOK(by_pid, Begun, proc)'
  BY <1>2, FewerTracked
<1>4. \A p \in DOMAIN proc' : proc'[p].job \in Begun' \/ (pc' = "persist" /\ p = launch'.pid)
  <2> SUFFICES ASSUME NEW p \in DOMAIN proc'
               PROVE  proc'[p].job \in Begun' \/ (pc' = "persist" /\ p = launch'.pid)
    BY Zenon
  <2>1. p \in DOMAIN proc /\ proc'[p].job = proc[p].job
    BY DEF Fewer
  <2>2. proc[p].job \in DOMAIN store.jobs /\ store.jobs[proc[p].job].state # "QUEUED"
    BY <2>1, Zenon DEF ProcInv, ProcOK
  <2>3. proc[p].job \in Begun \/ (pc = "persist" /\ p = launch.pid)
    BY <2>1 DEF ProcInv
  <2> QED BY <2>1, <2>2, <2>3, <1>2, Zenon DEF Begun
<1>5. LaunchProc'
  BY Zenon DEF ProcInv, LaunchProc, Fewer
<1>6. PlanProc'
  BY DEF ProcInv, PlanProc, Fewer
<1> QED BY <1>1, <1>3, <1>4, <1>5, <1>6, Zenon DEF ProcInv

(* Steps that leave the processes and what names them alone as well.        *)
LEMMA StillProc ==
  ASSUME ProcInv, UNCHANGED <<store, misled, proc, registry, exits, by_pid>>,
         \/ UNCHANGED <<pc, launch, plan>>
         \/ pc' \notin {"spawn", "persist", "recover"}
  PROVE  ProcInv'
<1>1. Fewer(proc, proc')
  BY WithoutFewer DEF ProcInv
<1>2. RegistryOK(registry', Begun, proc') /\ EventsOK(exits', Begun, proc') /\ PidsOK(by_pid', Begun, proc')
  BY Zenon DEF ProcInv
<1>3. pc = "persist" => launch.pid \in DOMAIN proc' /\ proc'[launch.pid].child
  BY Zenon DEF ProcInv, LaunchProc
<1> QED BY <1>1, <1>2, <1>3, QuietProc

(* A process ends.                                                          *)
LEMMA ProcessExitProc ==
  ASSUME ProcInv, NEW p \in DOMAIN proc, NEW status \in ExitStatus, ProcessExit(p, status)
  PROVE  ProcInv' /\ Fewer(proc, proc')
<1>1. UNCHANGED <<store, misled, registry, exits, by_pid, pc, launch, plan>>
  BY DEF ProcessExit, monitors, channels, memory, control, history
<1>2. Fewer(proc, proc') /\ (pc = "persist" => launch.pid \in DOMAIN proc' /\ proc'[launch.pid].child)
  <2>1. CASE proc[p].child
    <3>1. proc' = [proc EXCEPT ![p].alive = FALSE, ![p].status = status] /\ status \in Status
      BY <2>1 DEF ProcessExit, Status
    <3>2. PICK ps : ps = proc'
      OBVIOUS
    <3>3. ProcOK(store, proc, misled)
      BY DEF ProcInv
    <3>4. Fewer(proc, ps)
      BY <3>1, <3>2, <3>3, EndedFewer, Zenon
    <3>5. \A q \in DOMAIN proc : proc'[q].child = proc[q].child /\ DOMAIN proc' = DOMAIN proc
      BY <3>1, <3>3 DEF ProcOK, Process
    <3> QED BY <3>2, <3>4, <3>5, Zenon DEF ProcInv, LaunchProc
  <2>2. CASE ~proc[p].child
    <3>1. proc' = Without(proc, {p})
      BY <2>2 DEF ProcessExit
    <3>2. Fewer(proc, proc')
      BY <3>1, WithoutFewer, Zenon DEF ProcInv
    <3> QED BY <2>2, <3>1, <3>2, Zenon DEF ProcInv, LaunchProc, Without
  <2> QED BY <2>1, <2>2, Zenon
<1>3. RegistryOK(registry', Begun, proc') /\ EventsOK(exits', Begun, proc') /\ PidsOK(by_pid', Begun, proc')
  BY <1>1, <1>2, FewerTracked, Zenon DEF ProcInv, Fewer
<1> QED BY <1>1, <1>2, <1>3, QuietProc, Zenon

(* A grace timer fires: SIGKILL to whatever has the pid.                    *)
LEMMA EscalateProc ==
  ASSUME ProcInv, NEW j, Escalate(j)
  PROVE  /\ ProcInv' /\ Fewer(proc, proc')
         /\ \A p \in DOMAIN proc' : p = supervised[j].pid => ~proc'[p].alive
<1>1. UNCHANGED <<store, misled, registry, exits, by_pid, pc, launch, plan>>
  BY DEF Escalate, monitors, channels, control, history
<1>2. PICK p : p = supervised[j].pid
  OBVIOUS
<1>3. ProcOK(store, proc, misled)
  BY Zenon DEF ProcInv
<1>4. Fewer(proc, proc') /\ (pc = "persist" => launch.pid \in DOMAIN proc' /\ proc'[launch.pid].child)
  <2>1. CASE p \notin DOMAIN proc
    <3>1. proc' = proc
      BY <1>2, <2>1 DEF Escalate
    <3> QED BY <1>3, <3>1, WithoutFewer, Zenon DEF ProcInv, LaunchProc
  <2>2. CASE p \in DOMAIN proc /\ proc[p].child
    <3>1. PICK status : status = IF proc[p].alive THEN "FAILURE" ELSE proc[p].status
      OBVIOUS
    <3>2. proc' = [proc EXCEPT ![p].alive = FALSE, ![p].status = status] /\ status \in Status
      <4>1. proc[p] \in Process
        BY <1>3, <2>2, Zenon DEF ProcOK
      <4>2. status \in Status
        BY <3>1, <4>1 DEF Process, Status
      <4>3. proc' = [proc EXCEPT ![p].alive = FALSE,
                       ![p].status = IF proc[p].alive THEN "FAILURE" ELSE @]
        BY <1>2, <2>2 DEF Escalate
      <4>4. [proc EXCEPT ![p].alive = FALSE, ![p].status = IF proc[p].alive THEN "FAILURE" ELSE @]
            = [proc EXCEPT ![p].alive = FALSE, ![p].status = status]
        BY <2>2, <3>1, <4>1 DEF Process
      <4> QED BY <4>2, <4>3, <4>4
    <3>3. PICK ps : ps = proc'
      OBVIOUS
    <3>4. Fewer(proc, ps)
      BY <1>3, <2>2, <3>2, <3>3, EndedFewer, Zenon
    <3>5. \A q \in DOMAIN proc : proc'[q].child = proc[q].child /\ DOMAIN proc' = DOMAIN proc
      BY <1>3, <3>2 DEF ProcOK, Process
    <3> QED BY <3>3, <3>4, <3>5, Zenon DEF ProcInv, LaunchProc
  <2>3. CASE p \in DOMAIN proc /\ ~proc[p].child
    <3>1. proc' = Without(proc, {p})
      BY <1>2, <2>3 DEF Escalate
    <3>2. Fewer(proc, proc')
      BY <1>3, <3>1, WithoutFewer
    <3> QED BY <2>3, <3>1, <3>2, Zenon DEF ProcInv, LaunchProc, Without
  <2> QED BY <2>1, <2>2, <2>3
<1>5. RegistryOK(registry', Begun, proc') /\ EventsOK(exits', Begun, proc') /\ PidsOK(by_pid', Begun, proc')
  BY <1>1, <1>4, FewerTracked, Zenon DEF ProcInv, Fewer
<1>6. \A q \in DOMAIN proc' : q = p => ~proc'[q].alive
  <2>1. CASE p \notin DOMAIN proc
    BY <1>2, <2>1 DEF Escalate
  <2>2. CASE p \in DOMAIN proc /\ proc[p].child
    <3>1. proc[p] \in Process
      BY <1>3, <2>2, Zenon DEF ProcOK
    <3> QED BY <1>2, <2>2, <3>1 DEF Escalate, Process
  <2>3. CASE p \in DOMAIN proc /\ ~proc[p].child
    BY <1>2, <2>3 DEF Escalate, Without
  <2> QED BY <2>1, <2>2, <2>3
<1> QED BY <1>1, <1>2, <1>4, <1>5, <1>6, QuietProc, Zenon

(* The reaper reports an exit: the process it was registered for is gone,   *)
(* whoever has its pid now.                                                 *)
LEMMA ScanProc ==
  ASSUME BoardInv, ProcInv, NEW p \in DOMAIN registry, Scan(p)
  PROVE  ProcInv' /\ Fewer(proc, proc')
<1>1. UNCHANGED <<store, misled, by_pid, pc, launch, plan>>
  BY DEF Scan, Reaped, memory, control, history
<1>2. PICK j : j = registry[p].ticks
  OBVIOUS
<1>3. j \in Begun /\ p \in Pid /\ j \in JobId /\ OnlyAt(j, p, proc)
  BY <1>2, StoredJobs, Zenon DEF ProcInv, RegistryOK, Begun, BoardInv
<1>4. PICK e : e = IF p \in DOMAIN proc /\ proc[p].job = j
                   THEN Event(p, TRUE, proc[p].status) ELSE Event(p, FALSE, "FAILURE")
  BY Zenon
<1>5. exits' = Append(exits, e) /\ registry' = Without(registry, {p})
      /\ proc' = IF p \in DOMAIN proc /\ proc[p].job = j THEN Without(proc, {p}) ELSE proc
  BY <1>2, <1>4, Zenon DEF Scan, Reaped
<1>6. p \in DOMAIN proc => proc[p] \in Process
  BY Zenon DEF ProcInv, ProcOK
<1>7. \A q \in DOMAIN proc' : proc'[q].job # j
  BY <1>3, <1>5 DEF Without, OnlyAt
<1>8. Fewer(proc, proc')
  BY <1>5, WithoutFewer, Zenon DEF ProcInv
<1>9. e \in ExitEvent /\ e.ticks = j
  BY <1>2, <1>3, <1>4, <1>6, Zenon DEF Event, ExitEvent, Process, Status
<1>10. /\ RegistryOK(registry, Begun, proc') /\ EventsOK(exits, Begun, proc')
       /\ PidsOK(by_pid, Begun, proc')
  BY <1>8, FewerTracked, Zenon DEF ProcInv, Fewer
<1>11. RegistryOK(registry', Begun, proc')
  BY <1>5, <1>10, Zenon DEF RegistryOK, Without
<1>12. EventsOK(exits', Begun, proc')
  BY <1>3, <1>5, <1>7, <1>9, <1>10, EventAppended, Zenon
<1>13. pc = "persist" => launch.pid \in DOMAIN proc' /\ proc'[launch.pid].child
  <2> SUFFICES ASSUME pc = "persist" PROVE launch.pid \in DOMAIN proc' /\ proc'[launch.pid].child
    OBVIOUS
  <2>1. launch.pid \in DOMAIN proc /\ proc[launch.pid].job = launch.job /\ proc[launch.pid].child
    BY Zenon DEF ProcInv, LaunchProc
  <2>2. launch.job \notin Begun
    BY DEF Begun
  <2>3. launch.pid # p \/ proc' = proc
    BY <1>3, <1>5, <2>1, <2>2
  <2> QED BY <1>5, <2>1, <2>3 DEF Without
<1> QED BY <1>1, <1>8, <1>10, <1>11, <1>12, <1>13, QuietProc, Zenon

(* The pump, the clients, the GPU manager and the worker's loop.            *)
LEMMA LoopProc ==
  ASSUME BoardInv, ProcInv,
         \/ \E j \in pumping : PumpDone(j)
         \/ \E command : Send(command)
         \/ \E obs : Sample(obs)
         \/ WaitForWakeup \/ ChannelDrained \/ PostWake
         \/ LaunchLoadFails
  PROVE  ProcInv'
<1>1. CASE \E j \in pumping : PumpDone(j)
  BY <1>1, StillProc DEF PumpDone, Drained, persistent, memory, control, history
<1>2. CASE \E command : Send(command)
  BY <1>2, StillProc DEF Send, monitors, memory, control, history
<1>3. CASE WaitForWakeup
  BY <1>3, StillProc DEF WaitForWakeup, Goto, persistent, monitors, memory, history
<1>4. CASE ChannelDrained
  BY <1>4, StillProc, Zenon DEF ChannelDrained, Goto, persistent, channels, monitors, memory, history
<1>5. CASE PostWake
  BY <1>5, StillProc DEF PostWake, Goto, persistent, monitors, memory, history, BoardInv
<1>6. CASE LaunchLoadFails
  BY <1>6, StillProc DEF LaunchLoadFails, Return, channels, monitors, memory, history, BoardInv
<1>7. CASE \E obs : Sample(obs)
  BY <1>7, StillProc DEF Sample, persistent, memory, control
<1> QED BY <1>1, <1>2, <1>3, <1>4, <1>5, <1>6, <1>7

(* The daemon goes away: nothing is named by its pid but by the store.      *)
LEMMA CrashProc ==
  ASSUME ProcInv, Crash
  PROVE  ProcInv' /\ Fewer(proc, proc')
<1>1. /\ UNCHANGED <<store, misled>> /\ pc' = "down"
      /\ registry' = EmptyMap /\ exits' = <<>> /\ by_pid' = EmptyMap
      /\ proc' = [p \in {q \in DOMAIN proc : proc[q].alive} |-> [proc[p] EXCEPT !.child = FALSE]]
  BY DEF Crash
<1>2. Fewer(proc, proc')
  <2>1. \A p \in DOMAIN proc : proc[p] \in Process
    BY Zenon DEF ProcInv, ProcOK
  <2>2. \A r \in Process : /\ [r EXCEPT !.child = FALSE] \in Process
                           /\ [r EXCEPT !.child = FALSE].job = r.job
                           /\ [r EXCEPT !.child = FALSE].gpu = r.gpu
                           /\ [r EXCEPT !.child = FALSE].alive = r.alive
    BY Zenon DEF Process
  <2>3. DOMAIN proc' \subseteq DOMAIN proc
        /\ \A p \in DOMAIN proc' : proc'[p] = [proc[p] EXCEPT !.child = FALSE]
    BY <1>1
  <2> QED BY <2>1, <2>2, <2>3, Zenon DEF Fewer
<1>3. RegistryOK(registry', Begun, proc') /\ EventsOK(exits', Begun, proc') /\ PidsOK(by_pid', Begun, proc')
  BY <1>1 DEF RegistryOK, EventsOK, PidsOK, EmptyMap
<1> QED BY <1>1, <1>2, <1>3, QuietProc

(* An event nobody waits for.                                               *)
LEMMA DropExitProc ==
  ASSUME ProcInv, DropExit
  PROVE  ProcInv'
<1>1. PICK p : p = Head(exits).pid
  OBVIOUS
<1>2. /\ UNCHANGED <<store, misled, proc, registry, pc, launch, plan>>
      /\ exits # <<>> /\ exits' = Tail(exits) /\ by_pid' = Without(by_pid, {p})
  BY <1>1, Zenon DEF DropExit, persistent, monitors, control, history
<1>3. EventsOK(exits', Begun, proc')
  BY <1>2, EventTaken, Zenon DEF ProcInv
<1>4. RegistryOK(registry', Begun, proc') /\ PidsOK(by_pid', Begun, proc')
  BY <1>2, Zenon DEF ProcInv, PidsOK, Without
<1>5. Fewer(proc, proc')
  BY <1>2, WithoutFewer, Zenon DEF ProcInv
<1>6. pc = "persist" => launch.pid \in DOMAIN proc' /\ proc'[launch.pid].child
  BY <1>2, Zenon DEF ProcInv, LaunchProc
<1> QED BY <1>2, <1>3, <1>4, <1>5, <1>6, QuietProc, Zenon

(* drain_pump_done.                                                         *)
LEMMA PumpsProc ==
  ASSUME ProcInv, NEW j, drain_pump_done(j)
  PROVE  ProcInv' /\ Fewer(proc, proc')
<1>1. UNCHANGED <<store, misled, registry, exits, by_pid, pc, launch, plan>> /\ pc = "pumps"
  BY DEF drain_pump_done, monitors, control, history
<1>2. proc' = proc \/ \E p : proc' = Without(proc, {p})
  BY Zenon DEF drain_pump_done, Release, Killed
<1>3. Fewer(proc, proc')
  BY <1>2, WithoutFewer, Zenon DEF ProcInv
<1>4. RegistryOK(registry', Begun, proc') /\ EventsOK(exits', Begun, proc') /\ PidsOK(by_pid', Begun, proc')
  BY <1>1, <1>3, FewerTracked, Zenon DEF ProcInv, Fewer
<1> QED BY <1>1, <1>3, <1>4, QuietProc, Zenon

(* The record of j, and no other, changes; j is not put back into the queue *)
(* and not given up.                                                        *)
Settled(s, t, j) ==
  /\ OnlyOf(s, t, j)
  /\ j \in DOMAIN s.jobs => t.jobs[j] = s.jobs[j] \/ t.jobs[j].state \notin {"QUEUED", "LOST"}

(* A write to any state but LOST.                                           *)
LEMMA WroteSettled ==
  ASSUME NEW s, NEW t, NEW j, NEW st, NEW id, Wrote(s, t, j, st, id), st # "LOST"
  PROVE  Settled(s, t, j)
<1>1. CASE t = s
  BY <1>1, Zenon DEF Settled, OnlyOf
<1>2. CASE t # s
  BY <1>2, Zenon DEF Wrote, Settled, can_transition
<1> QED BY <1>1, <1>2

(* A step of the worker that writes the record of one job.                  *)
LEMMA WriteProc ==
  ASSUME ProcInv, pc' # "recover",
         NEW j, Settled(store, store', j), RecordsOK(store'), ProcOK(store', proc', misled'),
         Fewer(proc, proc'), pc' \notin {"spawn", "persist"} \/ launch'.job \notin Begun,
         \A p \in DOMAIN proc' : proc'[p].job \in Begun \/ pc' \notin {"spawn", "persist"},
         RegistryOK(registry', Begun', proc'), EventsOK(exits', Begun', proc'),
         PidsOK(by_pid', Begun', proc'), LaunchProc'
  PROVE  Begun \subseteq Begun' /\ ProcInv'
<1>1. Begun \subseteq Begun'
  BY Zenon DEF Begun, Settled, OnlyOf
<1>2. Apart(proc)'
  BY FewerApart, Zenon DEF ProcInv
<1>3. \A p \in DOMAIN proc' : proc'[p].job \in Begun' \/ (pc' = "persist" /\ p = launch'.pid)
  BY <1>1, Zenon DEF ProcOK, Begun
<1>4. PlanProc'
  BY Zenon DEF PlanProc
<1> QED BY <1>1, <1>2, <1>3, <1>4, Zenon DEF ProcInv

(* Such a step back into the loop that leaves alone what names processes.   *)
LEMMA LoopWriteProc ==
  ASSUME ProcInv, pc' \notin {"spawn", "persist", "recover"}, UNCHANGED <<registry, exits, by_pid>>,
         NEW j, Settled(store, store', j), RecordsOK(store'), ProcOK(store', proc', misled'),
         Fewer(proc, proc')
  PROVE  ProcInv'
<1>1. Begun \subseteq Begun'
  BY Zenon DEF Begun, Settled, OnlyOf
<1>2. RegistryOK(registry', Begun', proc') /\ EventsOK(exits', Begun', proc') /\ PidsOK(by_pid', Begun', proc')
  BY <1>1, FewerTracked, Zenon DEF ProcInv, Fewer
<1>3. LaunchProc'
  BY Zenon DEF LaunchProc
<1> QED BY <1>2, <1>3, WriteProc, Zenon

(* process_submit: a new job has no process.                                *)
LEMMA SubmitProc ==
  ASSUME BoardInv, ProcInv, LeasesKept(store, store'), Submitted(store, store'),
         NEW created_ok, NEW rollback_ok, process_submit(created_ok, rollback_ok)
  PROVE  ProcInv'
<1>1. /\ UNCHANGED <<misled, proc, registry, exits, by_pid, launch, plan>>
      /\ pc = "commands" /\ pc' = "post"
  BY Zenon DEF process_submit, Receive, Post, monitors
<1>2. CASE store' = store
  BY <1>1, <1>2, StillProc
<1>3. CASE store' # store
  <2>1. PICK j : /\ j \notin DOMAIN store.jobs /\ DOMAIN store'.jobs = DOMAIN store.jobs \cup {j}
                 /\ \A k \in DOMAIN store.jobs : store'.jobs[k] = store.jobs[k]
                 /\ ~has_identity(store'.jobs[j])
    BY <1>3 DEF Submitted
  <2>2. RecordsOK(store') /\ OnlyOf(store, store', j) /\ Settled(store, store', j)
    BY <2>1, Zenon DEF ProcInv, RecordsOK, OnlyOf, Settled
  <2>3. StoreOK(store) /\ ProcOK(store, proc, misled)
    BY Zenon DEF BoardInv, ProcInv
  <2>4. Fewer(proc, proc') /\ \A p \in DOMAIN proc' : proc'[p].job # j
    BY <1>1, <2>1, <2>3, WithoutFewer, Zenon DEF ProcOK
  <2>5. ProcOK(store', proc', misled')
    BY <1>1, <2>2, <2>3, <2>4, OthersKept
  <2> QED BY <1>1, <2>2, <2>4, <2>5, LoopWriteProc
<1> QED BY <1>2, <1>3

(* process_cancel: a queued job has no process, an active one keeps its own *)
(* and its lease.                                                           *)
LEMMA CancelProc ==
  ASSUME BoardInv, ProcInv, LeasesKept(store, store'), CancelStore,
         NEW ok, NEW timer, process_cancel(ok, timer)
  PROVE  ProcInv'
<1>1. PICK j, t : j = Head(commands).job /\ t = store'
  OBVIOUS
<1>2. /\ UNCHANGED <<misled, proc, registry, exits, by_pid, launch, plan>>
      /\ pc = "commands" /\ pc' = "post"
  BY Zenon DEF process_cancel, Receive, Post, monitors
<1>3. Cancelled(store, t, j)
  BY <1>1 DEF CancelStore
<1>4. CASE t = store
  BY <1>1, <1>2, <1>4, StillProc
<1>5. CASE t # store
  <2>1. StoreOK(store) /\ RecordsOK(store) /\ ProcOK(store, proc, misled) /\ LeasesKept(store, t)
    BY <1>1, Zenon DEF BoardInv, ProcInv
  <2>2. /\ j \in DOMAIN store.jobs /\ DOMAIN t.jobs = DOMAIN store.jobs /\ OnlyOf(store, t, j)
        /\ t.jobs[j].identity = store.jobs[j].identity
        /\ \/ store.jobs[j].state = "QUEUED" /\ t.jobs[j].state = "CANCELLED"
           \/ store.jobs[j].state \in {"STARTING", "RUNNING"} /\ t.jobs[j].state = "STOPPING"
    BY <1>3, <1>5, Zenon DEF Cancelled
  <2>3. RecordsOK(t) /\ Settled(store, t, j)
    BY <2>1, <2>2 DEF RecordsOK, OnlyOf, Settled, has_identity
  <2>4. Fewer(proc, proc)
    BY <2>1, WithoutFewer
  <2>5. ProcOK(t, proc, misled)
    <3>1. CASE store.jobs[j].state = "QUEUED"
      <4>1. \A p \in DOMAIN proc : proc[p].job # j
        BY <2>1, <3>1, Zenon DEF ProcOK
      <4> QED BY <2>1, <2>2, <2>4, <4>1, OthersKept, Zenon
    <3>2. CASE store.jobs[j].state # "QUEUED"
      <4>1. leaseable(store.jobs[j].state) /\ leaseable(t.jobs[j].state)
        BY <2>2, <3>2, Zenon DEF leaseable
      <4>2. \A p \in DOMAIN proc : proc[p].job = j =>
              t.jobs[j].identity \in {NoIdentity, [pid |-> p, ticks |-> j]}
        BY <2>1, <2>2, Zenon DEF ProcOK
      <4> QED BY <2>1, <2>2, <2>4, <4>1, <4>2, OneKept, Zenon
    <3> QED BY <3>1, <3>2
  <2> QED BY <1>1, <1>2, <2>3, <2>4, <2>5, LoopWriteProc
<1> QED BY <1>4, <1>5

(* schedule_now: the job chosen has no process and gets its lease.          *)
LEMMA ScheduleProc ==
  ASSUME BoardInv, ProcInv, ScheduleStore, LeasesKept(store, store'),
         pc \in {"commands", "gpu"}, pc' # "recover",
         UNCHANGED <<misled, registry, exits, by_pid, proc>>
  PROVE  ProcInv' /\ Scheduled
<1>1. CASE store' = store /\ pc' \notin {"spawn", "persist"}
  BY <1>1, StillProc DEF Scheduled
<1>2. CASE /\ pc' = "spawn" /\ DOMAIN launch' = {"job", "gpu", "pid"}
           /\ Started(store, store', launch'.job, launch'.gpu)
  <2>1. PICK j, g, t : j = launch'.job /\ g = launch'.gpu /\ t = store'
    OBVIOUS
  <2>2. Started(store, t, j, g)
    BY <1>2, <2>1, Zenon
  <2>3. StoreOK(store) /\ RecordsOK(store) /\ ProcOK(store, proc, misled) /\ LeasesKept(store, t)
    BY <2>1, Zenon DEF BoardInv, ProcInv
  <2>4. OnlyOf(store, t, j) /\ ~has_identity(t.jobs[j]) /\ j \notin Begun
    BY <2>2, <2>3, Zenon DEF Started, RecordsOK, has_identity, Begun
  <2>5. Settled(store, t, j) /\ RecordsOK(t)
    BY <2>2, <2>3, <2>4, Zenon DEF Started, Settled, OnlyOf, RecordsOK
  <2>6. ProcOK(t, proc, misled) /\ Fewer(proc, proc)
    <3>1. \A p \in DOMAIN proc : proc[p].job # j
      BY <2>2, <2>3, Zenon DEF ProcOK, Started
    <3>2. Fewer(proc, proc)
      BY <2>3, WithoutFewer
    <3> QED BY <2>3, <2>4, <3>1, <3>2, OthersKept, Zenon
  <2>7. Begun \subseteq Begun'
    BY <2>1, <2>4, <2>5, Zenon DEF Begun, Settled, OnlyOf
  <2>8. /\ RegistryOK(registry', Begun', proc') /\ EventsOK(exits', Begun', proc')
        /\ PidsOK(by_pid', Begun', proc')
    BY <2>7, FewerTracked, Zenon DEF ProcInv
  <2>9. LaunchProc'
    <3>1. Holds(t, g, j)
      BY <2>2, Zenon DEF Holds, Started, Put
    <3> QED BY <1>2, <2>1, <2>4, <3>1, Zenon DEF LaunchProc
  <2>10. \A p \in DOMAIN proc' : proc'[p].job \in Begun
    BY Zenon DEF ProcInv
  <2>11. /\ Settled(store, store', j) /\ RecordsOK(store') /\ ProcOK(store', proc', misled')
         /\ Fewer(proc, proc') /\ launch'.job \notin Begun
    BY <2>1, <2>4, <2>5, <2>6, Zenon
  <2>12. Scheduled
    BY <1>2, <2>1, <2>4, Zenon DEF Scheduled
  <2> QED BY <1>2, <2>8, <2>9, <2>10, <2>11, <2>12, WriteProc, Zenon
<1> QED BY <1>1, <1>2, Zenon DEF ScheduleStore

(* Its two callers.                                                         *)
LEMMA SchedulesProc ==
  ASSUME BoardInv, ProcInv, ScheduleStore, LeasesKept(store, store'),
         NEW ok, ScheduleOnWake(ok) \/ ScheduleOnGpuEvent(ok)
  PROVE  ProcInv' /\ Scheduled
<1>1. /\ UNCHANGED <<misled, registry, exits, by_pid, proc>> /\ pc \in {"commands", "gpu"}
      /\ pc' # "recover"
  BY Zenon DEF ScheduleOnWake, ScheduleOnGpuEvent, Receive, schedule_now, monitors
<1> QED BY <1>1, ScheduleProc

(* A launch that fails before there is a process.                           *)
LEMMA SpawnFailsProc ==
  ASSUME BoardInv, ProcInv, LeasesKept(store, store'),
         Wrote(store, store', launch.job, "FAILED", store.jobs[launch.job].identity),
         NEW ok, NEW now, SpawnFails(ok, now)
  PROVE  ProcInv' /\ OnlyOf(store, store', launch.job)
<1>1. PICK j, t : j = launch.job /\ t = store'
  BY Zenon
<1>2. pc = "spawn" /\ pc' = ret /\ UNCHANGED <<misled, proc, registry, exits, by_pid>>
  BY DEF SpawnFails, fail_launch, Return, channels, monitors, history
<1>3. \A p \in DOMAIN proc : proc[p].job # j
  BY <1>1, <1>2, LaunchFacts, Zenon
<1>4. StoreOK(store) /\ RecordsOK(store) /\ ProcOK(store, proc, misled) /\ LeasesKept(store, t)
  BY <1>1, Zenon DEF BoardInv, ProcInv
<1>5. PICK id : id = store.jobs[j].identity
  BY Zenon
<1>6. Wrote(store, t, j, "FAILED", id) /\ ~has_identity(store.jobs[j])
  BY <1>1, <1>2, <1>5, LaunchFacts, Zenon
<1>7. RecordsOK(t) /\ Settled(store, t, j)
  <2>1. id = NoIdentity
    BY <1>5, <1>6, Zenon DEF has_identity
  <2>2. RecordsOK(t)
    BY <1>4, <1>6, <2>1, WroteRecords, Zenon
  <2>3. Settled(store, t, j)
    BY <1>6, WroteSettled, Zenon
  <2> QED BY <2>2, <2>3, Zenon
<1>8. Fewer(proc, proc) /\ OnlyOf(store, t, j)
  BY <1>4, <1>7, WithoutFewer, Zenon DEF Settled
<1>9. ProcOK(t, proc, misled)
  BY <1>3, <1>4, <1>8, OthersKept, Zenon
<1>10. pc' \in {"wait", "commands", "exits"}
  BY <1>2, Zenon DEF BoardInv
<1> QED BY <1>1, <1>2, <1>7, <1>8, <1>9, <1>10, LoopWriteProc, Zenon

(* The process is started: its job has never had one, so no queued exit and *)
(* no entry by pid means that job.                                          *)
LEMMA SpawnProc ==
  ASSUME BoardInv, ProcInv, NEW p \in Pid, Spawn(p)
  PROVE  ProcInv'
<1>1. PICK j, g, new : /\ j = launch.job /\ g = launch.gpu
                       /\ new = [job |-> j, gpu |-> g, child |-> TRUE, alive |-> TRUE, status |-> "SUCCESS"]
  BY Zenon
<1>2. /\ UNCHANGED <<store, misled, registry, exits, by_pid>> /\ pc = "spawn" /\ pc' = "persist"
      /\ p \notin DOMAIN proc /\ proc' = Set(proc, p, new) /\ launch' = [launch EXCEPT !.pid = p]
  BY <1>1 DEF Spawn, Goto, channels, monitors, history
<1>3. /\ j \in DOMAIN store.jobs /\ store.jobs[j].state = "STARTING" /\ j \in JobId \ Begun
      /\ g \in GpuUuid /\ Holds(store, g, j) /\ ~has_identity(store.jobs[j])
  BY <1>1, <1>2, LaunchFacts
<1>4. DOMAIN proc' = DOMAIN proc \cup {p} /\ proc'[p] = new /\ \A q \in DOMAIN proc : proc'[q] = proc[q]
  BY <1>2 DEF Set, Overlay
<1>5. new \in Process /\ new.job = j /\ new.gpu = g /\ new.child = TRUE /\ new.alive = TRUE
  BY <1>1, <1>3, Zenon DEF Process, Status
<1>6. /\ DOMAIN launch' = {"job", "gpu", "pid"} /\ launch'.job = j /\ launch'.gpu = g
      /\ launch'.pid = p
  <2>1. DOMAIN launch = {"job", "gpu", "pid"}
    BY <1>2 DEF ProcInv, LaunchProc
  <2> QED BY <1>1, <1>2, <2>1
<1>7. Begun' = Begun
  BY <1>1, <1>2, <1>6 DEF Begun
<1>8. ProcOK(store', proc', misled')
  <2>1. ProcOK(store, proc, misled) /\ store' = store /\ store.jobs[j].identity = NoIdentity
    BY <1>2, <1>3 DEF ProcInv, has_identity
  <2>2. store.jobs[j].state # "QUEUED" /\ misled' = misled
    BY <1>2, <1>3, Zenon
  <2> QED BY <1>3, <1>4, <1>5, <2>1, <2>2, Zenon DEF ProcOK
<1>9. \A q \in DOMAIN proc : proc[q].job \in Begun /\ proc[q].job # j
  BY <1>1, <1>2, <1>3 DEF ProcInv
<1>10. \A k, q : k # j /\ OnlyAt(k, q, proc) => OnlyAt(k, q, proc')
  BY <1>4, <1>5, Zenon DEF OnlyAt
<1>11. Apart(proc')
  <2>1. OnlyAt(j, p, proc')
    BY <1>4, <1>5, <1>9, Zenon DEF OnlyAt
  <2>2. \A q \in DOMAIN proc : OnlyAt(proc[q].job, q, proc)
    BY Zenon DEF ProcInv, Apart
  <2> QED BY <1>4, <1>5, <1>9, <1>10, <2>1, <2>2, Zenon DEF Apart
<1>12. \A q \in DOMAIN proc' : proc'[q].job \in Begun' \/ (pc' = "persist" /\ q = launch'.pid)
  BY <1>2, <1>4, <1>6, <1>7, <1>9
<1>13. RegistryOK(registry', Begun', proc') /\ PidsOK(by_pid', Begun', proc')
  BY <1>2, <1>3, <1>7, <1>10, Zenon DEF ProcInv, RegistryOK, PidsOK
<1>14. EventsOK(exits', Begun', proc')
  <2>1. EventsOK(exits, Begun, proc)
    BY Zenon DEF ProcInv
  <2>2. \A k \in Begun : (\A q \in DOMAIN proc : proc[q].job # k) => \A q \in DOMAIN proc' : proc'[q].job # k
    BY <1>3, <1>4, <1>5, Zenon
  <2> QED BY <1>2, <1>7, <2>1, <2>2 DEF EventsOK
<1>15. LaunchProc' /\ PlanProc' /\ RecordsOK(store')
  BY <1>2, <1>3, <1>4, <1>5, <1>6 DEF LaunchProc, PlanProc, ProcInv
<1> QED BY <1>8, <1>11, <1>12, <1>13, <1>14, <1>15, Zenon DEF ProcInv

(* The process just started: its exit can be reported.                      *)
LEMMA LaunchedProcess ==
  ASSUME BoardInv, ProcInv, pc = "persist"
  PROVE  /\ launch.pid \in Pid
         /\ [pid |-> launch.pid, ticks |-> launch.job, verified |-> TRUE,
             status |-> proc[launch.pid].status] \in ExitEvent
<1>1. launch.pid \in DOMAIN proc /\ proc[launch.pid].job = launch.job
  BY Zenon DEF ProcInv, LaunchProc
<1>2. proc[launch.pid] \in Process /\ launch.pid \in Pid
  BY <1>1, Zenon DEF ProcInv, ProcOK
<1>3. launch.job \in JobId
  BY <1>1, <1>2, Zenon DEF Process
<1> QED BY <1>2, <1>3, Zenon DEF ExitEvent, Process

(* A launch that fails with the process started: it is killed, and the exit *)
(* that may be queued already is that of a process that is gone.            *)
LEMMA PersistFailsProc ==
  ASSUME BoardInv, ProcInv, LeasesKept(store, store'), PersistStore,
         NEW fault, NEW ok, NEW started, NEW now, PersistFails(fault, ok, started, now)
  PROVE  ProcInv' /\ OnlyOf(store, store', launch.job)
<1>1. PICK j, p, t : j = launch.job /\ p = launch.pid /\ t = store'
  OBVIOUS
<1>2. PICK e : e = [pid |-> p, ticks |-> j, verified |-> TRUE, status |-> proc[p].status]
  BY Zenon
<1>3. /\ pc = "persist" /\ pc' = ret /\ UNCHANGED <<misled, registry, by_pid>>
      /\ proc' = Without(proc, {p}) /\ exits' \in {exits, Append(exits, e)}
  BY <1>1, <1>2 DEF PersistFails, fail_launch, Return, Killed, monitors, history
<1>4. /\ j \in DOMAIN store.jobs /\ store.jobs[j].state = "STARTING"
      /\ \A q \in DOMAIN proc : proc[q].job = j => q = p
  BY <1>1, <1>3, LaunchFacts, Zenon
<1>5. e \in ExitEvent /\ e.ticks = j
  BY <1>1, <1>2, <1>3, LaunchedProcess, Zenon
<1>6. StoreOK(store) /\ RecordsOK(store) /\ ProcOK(store, proc, misled) /\ LeasesKept(store, t)
  BY <1>1, Zenon DEF BoardInv, ProcInv
<1>7. PICK id : id = [pid |-> p, ticks |-> j]
  BY Zenon
<1>8. PICK s : Wrote(store, s, j, "RUNNING", id) /\ Wrote(s, t, j, "FAILED", s.jobs[j].identity)
  BY <1>1, <1>7, Zenon DEF PersistStore, LaunchedIdentity
<1>9. RecordsOK(s) /\ j \in DOMAIN s.jobs
  <2>1. RecordsOK(s)
    BY <1>6, <1>7, <1>8, WroteRecords
  <2> QED BY <1>4, <1>8, <2>1, Zenon DEF Wrote
<1>10. RecordsOK(t)
  <2>1. PICK was : was = s.jobs[j].identity
    OBVIOUS
  <2>2. was # NoIdentity => was.ticks = j
    BY <1>9, <2>1, Zenon DEF RecordsOK, has_identity
  <2> QED BY <1>8, <1>9, <2>1, <2>2, WroteRecords
<1>11. Settled(store, t, j)
  <2>1. Settled(store, s, j) /\ Settled(s, t, j)
    BY <1>8, WroteSettled, Zenon
  <2> QED BY <1>4, <1>9, <2>1, Zenon DEF Settled, OnlyOf
<1>12. Fewer(proc, proc') /\ OnlyOf(store, t, j) /\ \A q \in DOMAIN proc' : proc'[q].job # j
  <2>1. \A q \in DOMAIN proc' : proc'[q].job # j
    BY <1>3, <1>4, Zenon DEF Without
  <2> QED BY <1>3, <1>6, <1>11, <2>1, WithoutFewer, Zenon DEF Settled
<1>13. ProcOK(t, proc', misled)
  BY <1>6, <1>12, OthersKept, Zenon
<1>14. pc' \in {"wait", "commands", "exits"}
  BY <1>3 DEF BoardInv
<1>15. Begun \subseteq Begun' /\ j \in Begun'
  <2>1. t.jobs[j].state # "QUEUED" /\ j \in DOMAIN t.jobs
    BY <1>4, <1>11, Zenon DEF Settled, OnlyOf
  <2> QED BY <1>1, <1>11, <1>14, <2>1, Zenon DEF Begun, Settled, OnlyOf
<1>16. /\ RegistryOK(registry', Begun', proc') /\ EventsOK(exits, Begun', proc')
       /\ PidsOK(by_pid', Begun', proc')
  BY <1>3, <1>12, <1>15, FewerTracked, Zenon DEF ProcInv, Fewer
<1>17. EventsOK(exits', Begun', proc')
  BY <1>3, <1>5, <1>12, <1>15, <1>16, EventAppended, Zenon
<1>18. LaunchProc'
  BY <1>14, Zenon DEF LaunchProc
<1> QED BY <1>1, <1>3, <1>10, <1>11, <1>12, <1>13, <1>14, <1>16, <1>17, <1>18, WriteProc, Zenon

(* A launch that succeeds: the record, the exit monitor and by_pid all know *)
(* the process by its pid.                                                  *)
LEMMA SuperviseProc ==
  ASSUME BoardInv, ProcInv, LeasesKept(store, store'),
         Wrote(store, store', launch.job, "RUNNING", LaunchedIdentity),
         NEW now, Supervise(now)
  PROVE  ProcInv'
<1>1. PICK j, p, t : j = launch.job /\ p = launch.pid /\ t = store'
  OBVIOUS
<1>2. PICK e : e = [pid |-> p, ticks |-> j, verified |-> TRUE, status |-> proc[p].status]
  BY Zenon
<1>3. PICK entry : entry = [ticks |-> j, adopted |-> FALSE]
  BY Zenon
<1>4. /\ pc = "persist" /\ pc' = ret /\ misled' = misled /\ by_pid' = Set(by_pid, p, j)
      /\ \/ registry' = Set(registry, p, entry) /\ UNCHANGED <<exits, proc>>
         \/ /\ exits' = Append(exits, e) /\ proc' = Without(proc, {p}) /\ registry' = registry
  BY <1>1, <1>2, <1>3, Zenon DEF Supervise, register_process, Return, history
<1>5. /\ j \in DOMAIN store.jobs /\ store.jobs[j].state = "STARTING"
      /\ store.jobs[j].identity = NoIdentity
      /\ \A q \in DOMAIN proc : proc[q].job = j => q = p
  BY <1>1, <1>4, LaunchFacts, Zenon DEF has_identity
<1>6. e \in ExitEvent /\ e.ticks = j /\ p \in Pid
  BY <1>1, <1>2, <1>4, LaunchedProcess, Zenon
<1>7. StoreOK(store) /\ RecordsOK(store) /\ ProcOK(store, proc, misled) /\ LeasesKept(store, t)
  BY <1>1, Zenon DEF BoardInv, ProcInv
<1>8. PICK id : id = [pid |-> p, ticks |-> j]
  BY Zenon
<1>9. Wrote(store, t, j, "RUNNING", id) /\ RecordsOK(t)
  <2>1. Wrote(store, t, j, "RUNNING", id) /\ id.ticks = j
    BY <1>1, <1>8, Zenon DEF LaunchedIdentity
  <2> QED BY <1>7, <2>1, WroteRecords, Zenon
<1>10. Settled(store, t, j)
  BY <1>9, WroteSettled
<1>11. Fewer(proc, proc') /\ OnlyOf(store, t, j)
  BY <1>4, <1>7, <1>10, WithoutFewer, Zenon DEF Settled
<1>12. \A q \in DOMAIN proc' : proc'[q].job = j => q = p
  BY <1>5, <1>11, Zenon DEF Fewer
<1>13. ProcOK(t, proc', misled)
  <2>1. leaseable(store.jobs[j].state) /\ leaseable(t.jobs[j].state)
    BY <1>5, <1>9, Zenon DEF Wrote, leaseable
  <2>2. t.jobs[j].identity \in {NoIdentity, id}
    BY <1>5, <1>9, Zenon DEF Wrote
  <2>3. \A q \in DOMAIN proc' : proc'[q].job = j =>
          t.jobs[j].identity \in {NoIdentity, [pid |-> q, ticks |-> j]}
    BY <1>8, <1>12, <2>2, Zenon
  <2> QED BY <1>5, <1>7, <1>11, <2>1, <2>3, OneKept, Zenon
<1>14. pc' \in {"wait", "commands", "exits"}
  BY <1>4, Zenon DEF BoardInv
<1>15. Begun \subseteq Begun' /\ j \in Begun'
  <2>1. t.jobs[j].state # "QUEUED" /\ j \in DOMAIN t.jobs
    BY <1>5, <1>10, Zenon DEF Settled, OnlyOf
  <2> QED BY <1>1, <1>10, <1>14, <2>1, Zenon DEF Begun, Settled, OnlyOf
<1>16. RegistryOK(registry, Begun', proc') /\ EventsOK(exits, Begun', proc') /\ PidsOK(by_pid, Begun', proc')
  BY <1>11, <1>15, FewerTracked, Zenon DEF ProcInv, Fewer
<1>17. EventsOK(exits', Begun', proc')
  <2>1. CASE exits' = exits
    BY <1>16, <2>1
  <2>2. CASE exits' = Append(exits, e) /\ proc' = Without(proc, {p})
    <3>1. \A q \in DOMAIN proc' : proc'[q].job # j
      BY <1>12, <2>2, Zenon DEF Without
    <3> QED BY <1>6, <1>15, <1>16, <2>2, <3>1, EventAppended, Zenon
  <2> QED BY <1>4, <2>1, <2>2, Zenon
<1>18. RegistryOK(registry', Begun', proc')
  <2>1. entry.ticks = j
    BY <1>3
  <2>2. OnlyAt(j, p, proc')
    BY <1>12, Zenon DEF OnlyAt
  <2> QED BY <1>4, <1>6, <1>15, <1>16, <2>1, <2>2, Zenon DEF RegistryOK, Set, Overlay
<1>19. PidsOK(by_pid', Begun', proc')
  BY <1>4, <1>12, <1>15, <1>16, Zenon DEF PidsOK, OnlyAt, Set, Overlay
<1>20. LaunchProc'
  BY <1>14, Zenon DEF LaunchProc
<1> QED BY <1>1, <1>4, <1>9, <1>10, <1>11, <1>13, <1>14, <1>17, <1>18, <1>19, <1>20, WriteProc, Zenon

(* process_exit: the job it ends has no process any more, unless the worker *)
(* is misled.                                                               *)
LEMMA ExitProc ==
  ASSUME BoardInv, ProcInv, LeasesKept(store, store'), ExitStore,
         NEW ok, NEW now, process_exit(ok, now)
  PROVE  ProcInv' /\ EndedByExit(by_pid[Head(exits).pid])
<1>1. PICK event, p, j, st, t :
        /\ event = Head(exits) /\ p = event.pid /\ j = by_pid[p]
        /\ st = TerminalOf(supervised[j], event) /\ t = store'
  BY Zenon
<1>2. /\ pc = "exits" /\ pc' = "post" /\ registry' = registry
      /\ exits # <<>> /\ p \in DOMAIN by_pid /\ j \in DOMAIN supervised
      /\ exits' = Tail(exits) /\ by_pid' = Without(by_pid, {p})
      /\ proc' \in {proc, Without(proc, {supervised[j].pid})}
      /\ misled' = IF event.ticks = j THEN misled ELSE misled \cup {j}
  BY <1>1, Zenon DEF process_exit, Release, Killed, Post, monitors
<1>3. EventsOK(exits', Begun, proc) /\ \A q \in DOMAIN proc : proc[q].job # event.ticks
  BY <1>1, <1>2, EventTaken, Zenon DEF ProcInv
<1>4. /\ j \in Begun /\ j \in DOMAIN store.jobs
      /\ event.ticks = j => \A q \in DOMAIN proc : proc[q].job # j
  BY <1>1, <1>2, <1>3, Zenon DEF ProcInv, PidsOK, Begun
<1>5. st \in {"CANCELLED", "FINISHED", "FAILED"}
  <2>1. supervised[j].cancelling \in BOOLEAN
    BY <1>2, Zenon DEF BoardInv, SupervisedOK
  <2> QED BY <1>1, <2>1, Zenon DEF TerminalOf
<1>6. StoreOK(store) /\ RecordsOK(store) /\ ProcOK(store, proc, misled) /\ LeasesKept(store, t)
  BY <1>1, Zenon DEF BoardInv, ProcInv
<1>7. PICK id : id = store.jobs[j].identity
  OBVIOUS
<1>8. Wrote(store, t, j, st, id)
  BY <1>1, <1>7, Zenon DEF ExitStore
<1>9. RecordsOK(t) /\ Settled(store, t, j)
  BY <1>4, <1>5, <1>6, <1>7, <1>8, WroteRecords, WroteSettled, Zenon DEF RecordsOK, has_identity
<1>10. Fewer(proc, proc') /\ OnlyOf(store, t, j)
  BY <1>2, <1>6, <1>9, WithoutFewer, Zenon DEF Settled
<1>11. ProcOK(t, proc', misled')
  <2>1. CASE event.ticks = j
    <3>1. \A q \in DOMAIN proc' : proc'[q].job # j
      BY <1>4, <1>10, <2>1, Zenon DEF Fewer
    <3>2. misled' = misled
      BY <1>2, <2>1, Zenon
    <3> QED BY <1>6, <1>10, <3>1, <3>2, OthersKept, Zenon
  <2>2. CASE event.ticks # j
    <3>1. t.jobs[j].state # "QUEUED" /\ t.jobs[j].identity = store.jobs[j].identity
      BY <1>4, <1>5, <1>7, <1>8 DEF Wrote, Begun
    <3>2. misled' = misled \cup {j}
      BY <1>2, <2>2, Zenon
    <3> QED BY <1>6, <1>10, <3>1, <3>2, MisledKept, Zenon
  <2> QED BY <2>1, <2>2, Zenon
<1>12. Begun \subseteq Begun'
  BY <1>1, <1>2, <1>9, Zenon DEF Begun, Settled, OnlyOf
<1>13. /\ RegistryOK(registry', Begun', proc') /\ EventsOK(exits', Begun', proc')
       /\ PidsOK(by_pid, Begun', proc')
  BY <1>2, <1>3, <1>10, <1>12, FewerTracked, Zenon DEF ProcInv, Fewer
<1>14. PidsOK(by_pid', Begun', proc')
  BY <1>2, <1>13, Zenon DEF PidsOK, Without
<1>15. LaunchProc'
  BY <1>2, Zenon DEF LaunchProc
<1>16. EndedByExit(j)
  BY <1>1, <1>2, <1>4, <1>8, <1>10, Zenon DEF EndedByExit, Wrote
<1> QED BY <1>1, <1>2, <1>9, <1>10, <1>11, <1>13, <1>14, <1>15, <1>16, WriteProc, Zenon

-----------------------------------------------------------------------------
(* The start of a daemon.                                                   *)

(* The plan: a job whose identity is stored is given up only if its process *)
(* is gone.                                                                 *)
LEMMA PlanProcStep ==
  ASSUME BoardInv, ProcInv, NEW now, Plan(now)
  PROVE  ProcInv'
<1>1. PICK decision : decision = [j \in DOMAIN store.jobs |->
        RecoveryDecision(store.jobs[j], verify_identity_via_proc(store.jobs[j].identity))]
  BY Zenon
<1>2. /\ plan' = [decision |-> decision, todo |-> NeedsWrite(store.jobs, decision), now |-> now]
      /\ pc = "down" /\ pc' = "recover"
      /\ UNCHANGED <<store, proc, registry, exits, by_pid, misled>>
  BY <1>1, Zenon DEF Plan, Goto, persistent, channels, memory, monitors, history
<1>3. plan'.decision = decision
  BY <1>2
<1>4. ASSUME NEW j \in DOMAIN store.jobs, NEW p \in DOMAIN proc, decision[j] = "LOST",
             has_identity(store.jobs[j]), proc[p].job = j
      PROVE  FALSE
  <2>1. PICK r, id : r = store.jobs[j] /\ id = r.identity
    OBVIOUS
  <2>2. id = [pid |-> p, ticks |-> j] /\ id # NoIdentity
    BY <1>4, <2>1, Zenon DEF ProcInv, ProcOK, has_identity
  <2>3. id.pid = p /\ id.ticks = j
    BY <2>2, Zenon
  <2>4. verify_identity_via_proc(id) = "VERIFIED"
    BY <1>4, <2>2, <2>3 DEF verify_identity_via_proc
  <2>5. decision[j] = RecoveryDecision(r, "VERIFIED")
    BY <1>1, <2>1, <2>4
  <2>6. has_identity(r) => RecoveryDecision(r, "VERIFIED") # "LOST"
    BY DEF RecoveryDecision, is_active
  <2> QED BY <1>4, <2>1, <2>5, <2>6, Zenon
<1>5. PlanProc'
  BY <1>2, <1>3, <1>4, Zenon DEF PlanProc
<1>6. Begun' = Begun /\ LaunchProc'
  BY <1>2, Zenon DEF Begun, LaunchProc
<1>7. \A p \in DOMAIN proc : proc[p].job \in Begun
  BY <1>2, Zenon DEF ProcInv
<1> QED BY <1>2, <1>5, <1>6, <1>7, Zenon DEF ProcInv

(* A chunk of the plan: a job without a known process is given up with the  *)
(* process it may have, any other keeps its lease or has none.              *)
LEMMA RecoverProc ==
  ASSUME BoardInv, ProcInv, LeasesKept(store, store'), RecoverStore,
         NEW ok, RecoverChunk(ok)
  PROVE  ProcInv'
<1>1. PICK decision, t : decision = plan.decision /\ t = store'
  OBVIOUS
<1>2. pc = "recover" /\ UNCHANGED <<misled, proc, registry, exits, by_pid>>
  BY DEF RecoverChunk, channels, memory, monitors, history
<1>3. StoreOK(store) /\ ProcOK(store, proc, misled) /\ RecordsOK(store) /\ LeasesKept(store, t)
  BY <1>1, Zenon DEF BoardInv, ProcInv
<1>4. CASE store' = store /\ pc' = "down"
  <2>1. Fewer(proc, proc')
    BY <1>2, <1>3, WithoutFewer
  <2>2. RegistryOK(registry', Begun, proc') /\ EventsOK(exits', Begun, proc') /\ PidsOK(by_pid', Begun, proc')
    BY <1>2, Zenon DEF ProcInv
  <2> QED BY <1>2, <1>4, <2>1, <2>2, QuietProc, Zenon
<1>5. CASE \E chunk \in SUBSET plan.todo :
             /\ Chunked(store, store', chunk, plan.decision)
             /\ pc' = pc /\ plan' = [plan EXCEPT !.todo = @ \ chunk]
  <2>1. PICK chunk : /\ Chunked(store, t, chunk, decision) /\ pc' = "recover"
                     /\ plan' = [plan EXCEPT !.todo = @ \ chunk]
    BY <1>1, <1>2, <1>5
  <2>2. plan'.decision = decision
    BY <1>1, <1>2, <2>1 DEF BoardInv, PlanOK
  <2>3. \A j \in DOMAIN store.jobs : t.jobs[j].identity = store.jobs[j].identity
    BY <2>1 DEF Chunked
  <2>4. /\ DOMAIN t.jobs = DOMAIN store.jobs
        /\ \A j \in DOMAIN store.jobs :
             t.jobs[j] = store.jobs[j] \/ (j \in chunk /\ t.jobs[j].state \in {"RUNNING", "LOST"})
    BY <2>1 DEF Chunked
  <2>5. RecordsOK(t)
    BY <1>3, <2>3, <2>4, Zenon DEF RecordsOK, has_identity
  <2>6. ASSUME NEW p \in DOMAIN proc, proc[p].alive
        PROVE  Holds(t, proc[p].gpu, proc[p].job) \/ GivenUp(t, proc[p].job) \/ proc[p].job \in misled
    <3>1. PICK k, g : k = proc[p].job /\ g = proc[p].gpu
      OBVIOUS
    <3>2. k \in DOMAIN store.jobs /\ (Holds(store, g, k) \/ GivenUp(store, k) \/ k \in misled)
      BY <1>3, <2>6, <3>1, Zenon DEF ProcOK
    <3>3. Holds(store, g, k) /\ leaseable(t.jobs[k].state) => Holds(t, g, k)
      BY <1>3, Zenon DEF LeasesKept, Holds
    <3>4. CASE t.jobs[k] = store.jobs[k]
      <4>1. GivenUp(store, k) => GivenUp(t, k)
        BY <3>4, Zenon DEF GivenUp
      <4>2. Holds(store, g, k) => leaseable(store.jobs[k].state)
        BY <1>3, Zenon DEF Holds, StoreOK, LeaseMatrixHolds
      <4> QED BY <3>1, <3>2, <3>3, <3>4, <4>1, <4>2, Zenon
    <3>5. CASE k \in chunk /\ decision[k] = "LOST"
      <4>1. t.jobs[k].state = "LOST"
        BY <2>1, <3>5 DEF Chunked
      <4>2. ~has_identity(store.jobs[k])
        BY <1>1, <1>2, <3>1, <3>2, <3>5, Zenon DEF ProcInv, PlanProc
      <4> QED BY <2>3, <3>1, <3>2, <4>1, <4>2, Zenon DEF GivenUp, has_identity
    <3>6. CASE k \in chunk /\ decision[k] # "LOST"
      <4>1. t.jobs[k].state = "RUNNING" /\ can_transition(store.jobs[k].state, "RUNNING")
        BY <2>1, <3>6 DEF Chunked
      <4>2. ~GivenUp(store, k) /\ leaseable(t.jobs[k].state)
        BY <4>1, Zenon DEF can_transition, GivenUp, leaseable
      <4> QED BY <3>1, <3>2, <3>3, <4>2, Zenon
    <3> QED BY <2>4, <3>2, <3>4, <3>5, <3>6, Zenon
  <2>7. ProcOK(t, proc, misled)
    <3>1. \A k \in DOMAIN store.jobs : store.jobs[k].state # "QUEUED" =>
            k \in DOMAIN t.jobs /\ t.jobs[k].state # "QUEUED"
      BY <2>4, Zenon
    <3> QED BY <1>3, <2>3, <2>6, <3>1, Zenon DEF ProcOK
  <2>8. Begun \subseteq Begun'
    BY <1>1, <1>2, <2>1, <2>4 DEF Begun
  <2>9. RegistryOK(registry', Begun', proc') /\ EventsOK(exits', Begun', proc') /\ PidsOK(by_pid', Begun', proc')
    BY <1>2, <2>8, FewerTracked, Zenon DEF ProcInv
  <2>10. \A p \in DOMAIN proc' : proc'[p].job \in Begun'
    BY <1>2, <2>8, Zenon DEF ProcInv
  <2>11. PlanProc'
    BY <1>1, <1>2, <2>2, <2>3, <2>4, ZenonT(30) DEF ProcInv, PlanProc, has_identity
  <2>12. LaunchProc'
    BY <2>1 DEF LaunchProc
  <2> QED BY <1>1, <1>2, <2>5, <2>7, <2>9, <2>10, <2>11, <2>12, Zenon DEF ProcInv
<1> QED BY <1>4, <1>5 DEF RecoverStore

(* The queue is restored and the GPUs looked at.                            *)
LEMMA RestoreProc ==
  ASSUME ProcInv, NEW obs, RestoreQueue(obs)
  PROVE  ProcInv'
<1>1. pc' \in {"adopt", "down"} /\ UNCHANGED <<store, misled, proc, registry, exits, by_pid>>
  BY Zenon DEF RestoreQueue, persistent, channels, history
<1> QED BY <1>1, StillProc

(* The survivors are supervised and watched again.                          *)
LEMMA AdoptProc ==
  ASSUME BoardInv, ProcInv, NEW unloaded, NEW unregistered, NEW refused,
         Adopt(unloaded, unregistered, refused)
  PROVE  ProcInv'
<1>1. PICK adopted, P : /\ adopted = Adoptable \ (unloaded \cup unregistered)
                        /\ P = {pid_of(j) : j \in adopted}
  BY Zenon
<1>2. PICK owner : owner = [p \in P |-> CHOOSE j \in adopted : pid_of(j) = p]
  BY Zenon
<1>3. /\ pc = "adopt" /\ pc' = "wait" /\ UNCHANGED <<store, misled, exits>>
      /\ \E S : proc' = Without(proc, S)
      /\ by_pid' = owner
      /\ registry' = [p \in P |-> [ticks |-> CHOOSE j \in adopted : pid_of(j) = p, adopted |-> TRUE]]
  <2>1. pc = "adopt" /\ pc' = "wait" /\ UNCHANGED <<store, misled, exits>>
        /\ \E S : proc' = Without(proc, S)
    BY Zenon DEF Adopt, Goto
  <2>2. by_pid' = [p \in {pid_of(j) : j \in Adoptable \ (unloaded \cup unregistered)} |->
                    CHOOSE j \in Adoptable \ (unloaded \cup unregistered) : pid_of(j) = p]
    BY DEF Adopt
  <2>3. registry' = [p \in {pid_of(j) : j \in Adoptable \ (unloaded \cup unregistered)} |->
          [ticks |-> CHOOSE j \in Adoptable \ (unloaded \cup unregistered) : pid_of(j) = p, adopted |-> TRUE]]
    BY DEF Adopt
  <2>4. by_pid' = owner
    BY <1>1, <1>2, <2>2
  <2>5. registry' = [p \in P |-> [ticks |-> CHOOSE j \in adopted : pid_of(j) = p, adopted |-> TRUE]]
    BY <1>1, <2>3, Zenon
  <2> QED BY <2>1, <2>4, <2>5, Zenon
<1>4. ASSUME NEW p \in P
      PROVE  owner[p] \in Begun /\ p \in Pid /\ OnlyAt(owner[p], p, proc)
  <2>1. PICK j : j = CHOOSE k \in adopted : pid_of(k) = p
    OBVIOUS
  <2>2. j \in adopted /\ pid_of(j) = p
    BY <1>1, <1>4, <2>1
  <2>3. /\ j \in Begun /\ p \in DOMAIN proc /\ proc[p].job = j /\ p \in Pid
    BY <1>1, <1>3, <2>2, AdoptableFacts, Zenon
  <2>4. owner[p] = j
    BY <1>2, <2>1
  <2> QED BY <2>3, <2>4, Zenon DEF ProcInv, Apart
<1>5. Fewer(proc, proc')
  BY <1>3, WithoutFewer, Zenon DEF ProcInv
<1>6. \A j, p : OnlyAt(j, p, proc) => OnlyAt(j, p, proc')
  BY <1>5, Zenon DEF OnlyAt, Fewer
<1>7. EventsOK(exits', Begun, proc')
  BY <1>3, <1>5, FewerTracked, Zenon DEF ProcInv, Fewer
<1>8. PidsOK(by_pid', Begun, proc')
  <2>1. DOMAIN owner = P
    BY <1>2
  <2> QED BY <1>3, <1>4, <1>6, <2>1, Zenon DEF PidsOK
<1>9. RegistryOK(registry', Begun, proc')
  <2>1. DOMAIN registry' = P /\ \A p \in P : registry'[p].ticks = owner[p]
    BY <1>2, <1>3
  <2> QED BY <1>4, <1>6, <2>1, Zenon DEF RegistryOK
<1> QED BY <1>3, <1>5, <1>7, <1>8, <1>9, QuietProc, Zenon

-----------------------------------------------------------------------------
(* The invariant, and what it says.                                         *)

(* It holds at the start.                                                   *)
LEMMA InitProc == Init => ProcInv
<1> SUFFICES ASSUME Init PROVE ProcInv
  OBVIOUS
<1>1. store.jobs = EmptyMap /\ proc = EmptyMap /\ registry = EmptyMap /\ by_pid = EmptyMap
      /\ exits = <<>> /\ pc = "wait"
  BY Zenon DEF Init, EmptyStore
<1>2. RecordsOK(store) /\ ProcOK(store, proc, misled) /\ Apart(proc) /\ \A p \in DOMAIN proc : FALSE
  BY <1>1, Zenon DEF EmptyMap, RecordsOK, ProcOK, Apart
<1>3. RegistryOK(registry, Begun, proc) /\ EventsOK(exits, Begun, proc) /\ PidsOK(by_pid, Begun, proc)
  BY <1>1 DEF EmptyMap, RegistryOK, EventsOK, PidsOK
<1>4. LaunchProc /\ PlanProc
  BY <1>1, Zenon DEF LaunchProc, PlanProc
<1> QED BY <1>2, <1>3, <1>4, Zenon DEF ProcInv

(* Every step keeps it.                                                     *)
LEMMA NextProc ==
  ASSUME BoardInv, ProcInv, LeasesKept(store, store'), StoreEffects, Next
  PROVE  ProcInv'
<1>1. CASE WorkerStep
  <2>1. CASE WaitForWakeup \/ ChannelDrained \/ PostWake \/ LaunchLoadFails
    BY <2>1, LoopProc
  <2>2. CASE \E created_ok, rollback_ok \in StoreOutcome : process_submit(created_ok, rollback_ok)
    BY <2>2, SubmitProc, Zenon DEF StoreEffects
  <2>3. CASE \E ok \in StoreOutcome, timer \in TimerOutcome : process_cancel(ok, timer)
    BY <2>3, CancelProc, Zenon DEF StoreEffects
  <2>4. CASE \E ok \in StoreOutcome : ScheduleOnWake(ok) \/ ScheduleOnGpuEvent(ok)
    BY <2>4, SchedulesProc, Zenon DEF StoreEffects
  <2>5. CASE \E ok \in StoreOutcome, now \in Clock : SpawnFails(ok, now)
    BY <2>5, SpawnFailsProc, Zenon DEF StoreEffects
  <2>6. CASE \E p \in Pid : Spawn(p)
    BY <2>6, SpawnProc, Zenon
  <2>7. CASE \E fault \in {"persist", "refused", "register", "attach"}, ok \in StoreOutcome,
               started, now \in Clock : PersistFails(fault, ok, started, now)
    BY <2>7, PersistFailsProc, Zenon DEF StoreEffects
  <2>8. CASE \E now \in Clock : Supervise(now)
    BY <2>8, SuperviseProc, Zenon DEF StoreEffects
  <2>9. CASE \E ok \in StoreOutcome, now \in Clock : process_exit(ok, now)
    BY <2>9, ExitProc, Zenon DEF StoreEffects
  <2>10. CASE DropExit
    BY <2>10, DropExitProc
  <2>11. CASE \E j \in done : drain_pump_done(j)
    BY <2>11, PumpsProc
  <2> QED BY <1>1, <2>1, <2>2, <2>3, <2>4, <2>5, <2>6, <2>7, <2>8, <2>9, <2>10, <2>11, Zenon DEF WorkerStep
<1>2. CASE StartStep
  BY <1>2, PlanProcStep, RecoverProc, RestoreProc, AdoptProc, Zenon DEF StartStep, StoreEffects
<1>3. CASE EnvironmentStep
  <2>1. CASE \E spec \in JobSpec : SubmitJob(spec)
    BY <2>1, LoopProc, Zenon DEF SubmitJob
  <2>2. CASE \E j \in DOMAIN store.jobs : CancelJob(j)
    BY <2>2, LoopProc DEF CancelJob
  <2>3. CASE \E j \in pumping : PumpDone(j)
    BY <2>3, LoopProc
  <2>4. CASE \E obs \in Observations : Sample(obs)
    BY <2>4, LoopProc
  <2> QED BY <1>3, <2>1, <2>2, <2>3, <2>4, ProcessExitProc, EscalateProc, ScanProc, CrashProc, Zenon
          DEF EnvironmentStep
<1> QED BY <1>1, <1>2, <1>3 DEF Next

(* What the steps do to the records and the processes, in one place.        *)
LEMMA StepEffects ==
  ASSUME BoardInv, ProcInv, LeasesKept(store, store'), StoreEffects
  PROVE  Effects
<1>1. \A created_ok, rollback_ok : process_submit(created_ok, rollback_ok) => Grown(store, store')
  BY Zenon DEF StoreEffects, Submitted, Grown
<1>2. \A ok, timer : process_cancel(ok, timer) => CancelStore
  BY Zenon DEF StoreEffects
<1>3. \A ok : ScheduleOnWake(ok) \/ ScheduleOnGpuEvent(ok) => Scheduled
  BY SchedulesProc, Zenon DEF StoreEffects
<1>4. \A ok, now : SpawnFails(ok, now) => OnlyOf(store, store', launch.job)
  BY SpawnFailsProc, Zenon DEF StoreEffects
<1>5. \A fault, ok, started, now : PersistFails(fault, ok, started, now) =>
        OnlyOf(store, store', launch.job)
  BY PersistFailsProc, Zenon DEF StoreEffects
<1>6. \A ok, now : process_exit(ok, now) => EndedByExit(by_pid[Head(exits).pid])
  BY ExitProc, Zenon DEF StoreEffects
<1>7. \A p \in DOMAIN proc, status \in ExitStatus : ProcessExit(p, status) => Fewer(proc, proc')
  BY ProcessExitProc
<1>8. \A j \in DOMAIN supervised : Escalate(j) =>
        /\ Fewer(proc, proc')
        /\ \A p \in DOMAIN proc' : p = supervised[j].pid => ~proc'[p].alive
  BY EscalateProc, Zenon
<1>9. \A p \in DOMAIN registry : Scan(p) => Fewer(proc, proc')
  BY ScanProc
<1> QED BY <1>1, <1>2, <1>3, <1>4, <1>5, <1>6, <1>7, <1>8, <1>9, Zenon DEF Effects

(* What the other proofs use of the invariant.                              *)
LEMMA ProcKnows ==
  ASSUME BoardInv, ProcInv
  PROVE  ProcFacts
<1>1. Fewer(proc, proc) /\ \A S : Fewer(proc, Without(proc, S))
  BY WithoutFewer, Zenon DEF ProcInv
<1>2. pc \in {"spawn", "persist"} =>
        \A p \in DOMAIN proc : proc[p].job = launch.job => pc = "persist" /\ p = launch.pid
  BY LaunchFacts, Zenon
<1>3. pc = "adopt" =>
        \A j \in Adoptable : j \in Begun /\ pid_of(j) \in DOMAIN proc /\ proc[pid_of(j)].job = j
  BY AdoptableFacts, Zenon
<1> QED BY <1>1, <1>2, <1>3, Zenon DEF ProcFacts

(* A stuttering step is a still one.                                        *)
LEMMA StutterProc ==
  ASSUME ProcInv, UNCHANGED vars
  PROVE  ProcInv'
BY StillProc, Zenon DEF vars, persistent, channels, monitors, memory, control, history

=============================================================================
