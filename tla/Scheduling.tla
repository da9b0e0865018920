----------------------------- MODULE Scheduling -----------------------------
(***************************************************************************)
(* The store, the derived queue and the scheduler as the daemon composes   *)
(* them.  JobManager's single worker runs one handler after the other, so  *)
(* each handler is one step; a store write may fail inside any of them.    *)
(* Processes are not modelled here: a launched job ends when it ends.      *)
(* A crash inside a handler is the handler with its remaining writes       *)
(* failing, followed by Stop.                                              *)
(***************************************************************************)
EXTENDS StoreWrites

CONSTANTS
  Clock,        \* the readings of the system clock
  Observation   \* the GPU observations that may be published

ASSUME ClockAssumption == Clock \subseteq Nat

(* A device may be missing from an observation.                             *)
ASSUME ObservationAssumption == \A o \in Observation : IsMap(o, GpuUuid, ObservedState)

VARIABLES
  store,      \* the persistent state [jobs, leases, revision]
  queue,      \* GlobalJobQueue's entries
  observed,   \* the GPU observation the scheduler reads
  serving     \* the daemon runs (FALSE: it is down or starting)

vars == <<store, queue, observed, serving>>

Init ==
  /\ store = EmptyStore
  /\ queue = <<>>
  /\ observed \in Observation
  /\ serving = TRUE

(* process_submit: create the record, admit it, and when the queue refuses, *)
(* write CANCELLED as the rollback.                                         *)
Submit(spec, reachable) ==
  LET j       == next_job_id(store.jobs)
      create  == CreateMutation(store, j, spec)
      created == Applied(store, create, TRUE)
      record  == created.jobs[j]
  IN  /\ serving
      /\ j \in JobId
      /\ Written(store, create, TRUE)
      /\ IF AdmitAccepted(queue, j, record)
         THEN /\ store' = created
              /\ queue' = Admitted(queue, Entry(j, record))
         ELSE /\ store' = Applied(created, MoveMutation(created, j, "CANCELLED"), reachable)
              /\ UNCHANGED queue
      /\ UNCHANGED <<observed, serving>>

(* process_cancel of a queued job: the write first, then the queue, where   *)
(* a missing entry is tolerated.                                            *)
CancelQueued(j) ==
  LET m == MoveMutation(store, j, "CANCELLED") IN
  /\ serving
  /\ store.jobs[j].state = "QUEUED"
  /\ Written(store, m, TRUE)
  /\ store' = Applied(store, m, TRUE)
  /\ queue' = Removed(queue, j)
  /\ UNCHANGED <<observed, serving>>

(* FifoScheduler::run_once: remove from the queue, write STARTING and the   *)
(* lease, and admit the job again when the write fails.                     *)
RunOnce(reachable) ==
  LET d == Decision(queue, store.jobs, store.leases, observed)
      m == StartMutation(store.jobs, store.revision, d.job, d.gpu)
  IN  /\ serving
      /\ d.code = "SELECTED"
      /\ store' = Applied(store, m, reachable)
      /\ queue' = IF Written(store, m, reachable)
                  THEN Removed(queue, d.job)
                  ELSE Admitted(Removed(queue, d.job), Entry(d.job, store.jobs[d.job]))
      /\ UNCHANGED <<observed, serving>>

(* launch_scheduled succeeds: identity and start time are persisted.        *)
Launched(j, identity, now) ==
  LET m == RewriteMutation(store, j, Running(store.jobs[j], identity, now), {}) IN
  /\ serving
  /\ store.jobs[j].state = "STARTING"
  /\ Written(store, m, TRUE)
  /\ store' = Applied(store, m, TRUE)
  /\ UNCHANGED <<queue, observed, serving>>

(* fail_launch and process_exit: the job ends and its GPU is given back.    *)
End(j, state, exit, now) ==
  \E g \in leases_of(store.leases, j) :
    LET m == EndMutation(store, j, g, state, exit, now) IN
    /\ serving
    /\ Written(store, m, TRUE)
    /\ store' = Applied(store, m, TRUE)
    /\ UNCHANGED <<queue, observed, serving>>

(* The GPU manager publishes another observation.                           *)
Observe(obs) ==
  /\ observed' = obs
  /\ UNCHANGED <<store, queue, serving>>

(* The daemon stops or crashes: its queue is gone, the store stays.         *)
Stop ==
  /\ serving
  /\ serving' = FALSE
  /\ queue' = <<>>
  /\ UNCHANGED <<store, observed>>

(* A start reaches JobRecovery, which decides about the active jobs from    *)
(* the identity verdicts and writes them chunk by chunk.  A write that      *)
(* fails ends the start with nothing changed: the daemon stays down, with   *)
(* the chunks written so far, until it is started again.                    *)
RecoverChunk(verdict, now) ==
  LET decision == [j \in DOMAIN store.jobs |-> RecoveryDecision(store.jobs[j], verdict[j])]
      chunk    == NextChunk(store.leases, NeedsWrite(store.jobs, decision), decision)
      m        == RecoveryMutation(store, chunk, decision, now)
  IN  /\ ~serving
      /\ chunk # {}
      /\ Written(store, m, TRUE)
      /\ store' = Applied(store, m, TRUE)
      /\ UNCHANGED <<queue, observed, serving>>

(* Recovery has nothing left to write: it rebuilds the queue from the       *)
(* store.  When the restore is refused the daemon does not serve.           *)
Start(verdict) ==
  LET decision == [j \in DOMAIN store.jobs |-> RecoveryDecision(store.jobs[j], verdict[j])]
  IN  /\ ~serving
      /\ NeedsWrite(store.jobs, decision) = {}
      /\ RestoreAccepted(store.jobs, store.leases, store.revision)
      /\ serving' = TRUE
      /\ queue' = Restored(store.jobs)
      /\ UNCHANGED <<store, observed>>

Next ==
  \/ \E spec \in JobSpec, reachable \in BOOLEAN : Submit(spec, reachable)
  \/ \E j \in DOMAIN store.jobs : CancelQueued(j)
  \/ \E reachable \in BOOLEAN : RunOnce(reachable)
  \/ \E j \in DOMAIN store.jobs, identity \in Identity, now \in Clock :
       Launched(j, identity, now)
  \/ \E j \in DOMAIN store.jobs, state \in {"FINISHED", "FAILED"}, now \in Clock :
       End(j, state, NoExit, now)
  \/ \E obs \in Observation : Observe(obs)
  \/ Stop
  \/ \E verdict \in [DOMAIN store.jobs -> {"VERIFIED", "GONE"}] :
       \/ \E now \in Clock : RecoverChunk(verdict, now)
       \/ Start(verdict)

Spec == Init /\ [][Next]_vars

-----------------------------------------------------------------------------
(* Properties.                                                              *)

(* The type invariant.                                                      *)
TypeOK ==
  /\ IsMap(store.jobs, JobId, StoredJob)
  /\ IsMap(store.leases, GpuUuid, JobId)
  /\ store.revision \in 0 .. MaxRevision
  /\ \A i \in DOMAIN queue : queue[i] \in QueueEntry
  /\ Len(queue) <= QueueCapacity
  /\ observed \in Observation
  /\ serving \in BOOLEAN

(* The stored job k was submitted before the stored job j, in the order the *)
(* design promises: submit time, then job id.                               *)
Before(k, j) == entry_less(Entry(k, store.jobs[k]), Entry(j, store.jobs[j]))

FreeGpus == {g \in DOMAIN observed : observed[g] = "FREE" /\ g \notin DOMAIN store.leases}

(* The GPUs job j may run on at all.                                        *)
Acceptable(j) ==
  IF store.jobs[j].spec.mode = "REQUIRED" THEN store.jobs[j].spec.devices ELSE GpuUuid

Starts(j) == store.jobs[j].state = "QUEUED" /\ store'.jobs[j].state = "STARTING"

(* The queue is the strictly sorted list of stored QUEUED jobs, with at     *)
(* most a job missing whose rollback write was lost: it never holds a job   *)
(* the store does not, holds none twice and is never out of FIFO order,     *)
(* whatever submits, cancels, failed starts and restarts came before.       *)
QueueMirrorsStore ==
  /\ \A i \in DOMAIN queue :
       /\ queue[i].job_id \in Queued(store.jobs)
       /\ queue[i] = Entry(queue[i].job_id, store.jobs[queue[i].job_id])
  /\ \A i, k \in DOMAIN queue : i < k => entry_less(queue[i], queue[k])

(* The queue and the store part only at a refused admission, when the queue *)
(* is full and the rollback write is lost: no other handler lets a QUEUED   *)
(* job slip out of the queue, which would stop all scheduling.              *)
DivergesOnlyWhenFull ==
  [][Diverged(queue, store.jobs)' /\ ~Diverged(queue, store.jobs) =>
       \/ Len(queue) = QueueCapacity /\ DOMAIN store.jobs # DOMAIN store'.jobs
       \/ ~serving']_vars

(* FIFO up to placement (DEC-012): a job starts only if every job submitted *)
(* before it and still waiting could not have used any free GPU.            *)
NoOvertaking ==
  [][\A j \in DOMAIN store.jobs : Starts(j) =>
       \A k \in Queued(store.jobs) : Before(k, j) =>
         Acceptable(k) \cap FreeGpus = {}]_vars

(* The devices named by the REQUIRED jobs waiting within the scan window.   *)
Wanted ==
  UNION {store.jobs[k].spec.devices : k \in
    {i \in Queued(store.jobs) :
       /\ store.jobs[i].spec.mode = "REQUIRED"
       /\ Cardinality({h \in Queued(store.jobs) : Before(h, i)}) < ScanWindow}}

(* A job starts on a GPU that is observed free, that nobody holds, and that *)
(* its placement accepts: REQUIRED never falls back outside its set, and    *)
(* ANY takes a GPU that a waiting REQUIRED job names only when no other is  *)
(* free (soft affinity protection, DEC-013).                                *)
PlacementRespected ==
  [][\A j \in DOMAIN store.jobs : Starts(j) =>
       /\ leases_of(store'.leases, j) \subseteq FreeGpus \cap Acceptable(j)
       /\ store.jobs[j].spec.mode = "ANY" /\ leases_of(store'.leases, j) \cap Wanted # {}
            => FreeGpus \subseteq Wanted]_vars

(* A daemon that serves again does so with exactly the stored QUEUED jobs,  *)
(* in submit order, whatever it lost when it went down; and once recovery's *)
(* writes are through, only more QUEUED jobs than the queue holds, left by  *)
(* lost rollbacks, keep it from serving.                                    *)
RestartRestoresQueue ==
  /\ [][~serving /\ serving' =>
          QueueMirrorsStore' /\ ~Diverged(queue, store.jobs)']_vars
  /\ [](Cardinality(Queued(store.jobs)) <= QueueCapacity =>
          RestoreAccepted(store.jobs, store.leases, store.revision))

=============================================================================
