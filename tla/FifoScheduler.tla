--------------------------- MODULE FifoScheduler ---------------------------
(***************************************************************************)
(* The decision of FifoScheduler::run_once (src/scheduler/scheduler.cpp):  *)
(* which queued job, if any, is started next and on which GPU, given the   *)
(* queue, the stored jobs and leases and a GPU observation.  One call      *)
(* advances at most one job.                                               *)
(*                                                                         *)
(* A JobSpec carries submit_time and the GPU placement: mode "ANY",        *)
(* "REQUIRED" (any device of the set devices) or "PREFERRED" (one device,  *)
(* falling back to any).  An observation is a function from the observed   *)
(* GPUs to "FREE", "EXTERNAL_BUSY" or "UNAVAILABLE".                       *)
(***************************************************************************)
EXTENDS JobQueue

CONSTANTS
  ScanWindow,   \* SchedulerConfig::scan_window
  GpuIndex,     \* the physical index of each GPU
  NoGpu         \* no device selected

ASSUME GpuIndexAssumption == GpuIndex \in [GpuUuid -> Nat]

ASSUME ScanAssumption == ScanWindow \in Nat /\ NoGpu \notin GpuUuid

ObservedState == {"FREE", "EXTERNAL_BUSY", "UNAVAILABLE"}

(* Observed FREE and not leased: the lease is the scheduling fact, the      *)
(* observation only filters (RULE-05).                                      *)
Available(obs, leases) == {g \in DOMAIN obs : obs[g] = "FREE" /\ g \notin DOMAIN leases}

LowestIndex(S) ==
  IF S = {} THEN NoGpu ELSE CHOOSE g \in S : \A h \in S : GpuIndex[g] <= GpuIndex[h]

Window(q) == IF Len(q) < ScanWindow THEN Len(q) ELSE ScanWindow

(* The devices named by the REQUIRED jobs waiting inside the scan window.   *)
collect_affinity_targets(q, jobs) ==
  UNION {jobs[q[i].job_id].spec.devices :
           i \in {k \in 1 .. Window(q) : jobs[q[k].job_id].spec.mode = "REQUIRED"}}

(* Soft protection: prefer an available GPU nobody requires, else any.      *)
select_any_gpu(available, targets) ==
  IF available \ targets # {} THEN LowestIndex(available \ targets)
                              ELSE LowestIndex(available)

(* A mutated selection that falls back outside the required set.            *)
select_required_gpu_Fallback(available, devices) ==
  IF available \cap devices # {} THEN LowestIndex(available \cap devices)
                                 ELSE LowestIndex(available)

select_required_gpu(available, devices) == LowestIndex(available \cap devices)

Select(spec, available, targets) ==
  CASE spec.mode = "REQUIRED"  -> select_required_gpu(available, spec.devices)
    [] spec.mode = "PREFERRED" -> IF available \cap spec.devices # {}
                                  THEN LowestIndex(available \cap spec.devices)
                                  ELSE select_any_gpu(available, targets)
    [] OTHER                   -> select_any_gpu(available, targets)

(* The derived queue no longer matches the QUEUED jobs of the store.        *)
Diverged(q, jobs) ==
  \/ Cardinality(Queued(jobs)) # Len(q)
  \/ \E i \in DOMAIN q :
       \/ q[i].job_id \notin Queued(jobs)
       \/ /\ i <= Window(q)
          /\ \/ jobs[q[i].job_id].spec.submit_time # q[i].submit_time
             \/ jobs[q[i].job_id].revision # 0

(* What the scan of the window finds.                                       *)
Decision(q, jobs, leases, obs) ==
  LET available == Available(obs, leases)
      targets   == collect_affinity_targets(q, jobs)
      Choice(i) == Select(jobs[q[i].job_id].spec, available, targets)
      found     == {i \in 1 .. Window(q) : Choice(i) # NoGpu}
      first     == CHOOSE i \in found : \A k \in found : i <= k
  IN  CASE Diverged(q, jobs) -> [code |-> "DIVERGED", job |-> 0, gpu |-> NoGpu]
        [] ~Diverged(q, jobs) /\ found = {} ->
             [code |-> "NO_CANDIDATE", job |-> 0, gpu |-> NoGpu]
        [] ~Diverged(q, jobs) /\ found # {} ->
             [code |-> "SELECTED", job |-> q[first].job_id, gpu |-> Choice(first)]

(* Why a REQUIRED job waits: a lease on one of its devices comes first,     *)
(* then outside use, then whatever else keeps them from being free.         *)
required_wait_reason(devices, leases, obs) ==
  CASE devices \cap DOMAIN leases # {} -> "AFFINITY_GPU_ALLOCATED"
    [] /\ devices \cap DOMAIN leases = {}
       /\ \E g \in devices \cap DOMAIN obs : obs[g] = "EXTERNAL_BUSY" -> "AFFINITY_GPU_EXTERNAL"
    [] OTHER -> "AFFINITY_GPU_STATE"

Skip(j, spec, leases, obs) ==
  IF spec.mode = "REQUIRED"
  THEN [job |-> j, reason |-> required_wait_reason(spec.devices, leases, obs),
        target |-> LowestIndex(spec.devices \cap DOMAIN obs)]
  ELSE [job |-> j, reason |-> "NO_FREE_GPU", target |-> NoGpu]

(* The evaluation of one scan: the jobs of the window it passed over, up to *)
(* the one it selected.                                                     *)
Evaluation(q, jobs, leases, obs) ==
  LET d    == Decision(q, jobs, leases, obs)
      last == IF d.code = "SELECTED"
              THEN (CHOOSE i \in DOMAIN q : q[i].job_id = d.job) - 1 ELSE Window(q)
  IN  {Skip(q[i].job_id, jobs[q[i].job_id].spec, leases, obs) : i \in 1 .. last}

(* QUEUED -> STARTING together with the lease, one mutation.                *)
StartMutation(jobs, revision, j, g) ==
  [expected_revision |-> revision,
   create_jobs       |-> EmptyMap,
   update_jobs       |-> [k \in {j} |-> [jobs[j] EXCEPT
                            !.state = "STARTING", !.revision = @ + 1]],
   release_leases    |-> {},
   acquire_leases    |-> [h \in {g} |-> j]]

=============================================================================
