---------------------------- MODULE StoreWrites ----------------------------
(***************************************************************************)
(* The store as one value [jobs, leases, revision], and the mutations the  *)
(* daemon's components compose: JobManager's submit, cancel, launch and    *)
(* exit paths (src/runtime/job_manager.cpp), FifoScheduler's start and the *)
(* recovery plan (src/recovery/job_recovery.cpp).                          *)
(***************************************************************************)
EXTENDS FifoScheduler

(* There is an id for every job the store may hold: when the jobs 1 to n    *)
(* leave room for one more, as CreatesAccepted counts, n + 1 is an id.      *)
ASSUME JobIdsAssumption ==
  \A n \in JobId \cup {0} : Cardinality(1 .. n + 1) <= MaxJobs => n + 1 \in JobId

EmptyStore == [jobs |-> EmptyMap, leases |-> EmptyMap, revision |-> 0]

(* One write through StoreTaskRunner; reachable = FALSE is a backend fault. *)
Written(s, m, reachable) == reachable /\ Accepts(s.jobs, s.leases, s.revision, m)

Applied(s, m, reachable) ==
  IF Written(s, m, reachable)
  THEN [jobs     |-> next_jobs(s.jobs, m),
        leases   |-> next_leases(s.leases, m),
        revision |-> s.revision + 1]
  ELSE s

(* JobIds grow from the largest one stored, so a terminal id is not reused. *)
next_job_id(jobs) ==
  (CHOOSE m \in DOMAIN jobs \cup {0} : \A j \in DOMAIN jobs : j <= m) + 1

CreateMutation(s, j, spec) ==
  [expected_revision |-> s.revision,
   create_jobs       |-> [k \in {j} |-> NewJob(spec)],
   update_jobs       |-> EmptyMap,
   release_leases    |-> {},
   acquire_leases    |-> EmptyMap]

(* rewrite_job: load, change one record, release at most one lease, write.  *)
RewriteMutation(s, j, record, release) ==
  [expected_revision |-> s.revision,
   create_jobs       |-> EmptyMap,
   update_jobs       |-> [k \in {j} |-> record],
   release_leases    |-> release,
   acquire_leases    |-> EmptyMap]

Moved(record, state) == [record EXCEPT !.state = state, !.revision = @ + 1]

Running(record, identity, now) ==
  [Moved(record, "RUNNING") EXCEPT !.identity = identity, !.start_time = now]

Ended(record, state, exit, now) ==
  [Moved(record, state) EXCEPT !.exit = exit, !.end_time = now]

MoveMutation(s, j, state) == RewriteMutation(s, j, Moved(s.jobs[j], state), {})

(* fail_launch and process_exit: a job already terminal is written back     *)
(* unchanged (and refused by the store), any other ends and gives its GPU   *)
(* back in the same mutation.                                               *)
EndMutation(s, j, g, state, exit, now) ==
  IF is_terminal(s.jobs[j].state)
  THEN RewriteMutation(s, j, s.jobs[j], {})
  ELSE RewriteMutation(s, j, Ended(s.jobs[j], state, exit, now), {g})

-----------------------------------------------------------------------------
(* Recovery: what becomes of each job that was active when the daemon went  *)
(* down.  verdict[j] is the identity verification of its process.           *)

is_active(record) == record.state \in {"STARTING", "RUNNING", "STOPPING"}

RecoveryDecision(record, verdict) ==
  CASE ~is_active(record) -> "UNTOUCHED"
    [] is_active(record) /\ (~has_identity(record) \/ verdict # "VERIFIED") -> "LOST"
    [] is_active(record) /\ has_identity(record) /\ verdict = "VERIFIED" ->
         CASE record.state = "STARTING" -> "PROMOTED"
           [] record.state = "RUNNING"  -> "ADOPTED"
           [] record.state = "STOPPING" -> "RECANCEL"

RecoveredRecord(record, decision, now) ==
  IF decision = "PROMOTED" THEN Moved(record, "RUNNING")
                           ELSE Ended(record, "LOST", NoExit, now)

leases_of(leases, j) == {g \in DOMAIN leases : leases[g] = j}

(* The jobs of plan() that need a write, in the order of the snapshot; a    *)
(* chunk takes as many of them as one mutation may hold.                    *)
NeedsWrite(jobs, decision) == {j \in DOMAIN jobs : decision[j] \in {"LOST", "PROMOTED"}}

(* The leases one chunk releases: those of its LOST jobs.                   *)
Released(leases, chunk, decision) ==
  UNION {leases_of(leases, j) : j \in {k \in chunk : decision[k] = "LOST"}}

NextChunk(leases, pending, decision) ==
  LET Upto(j) == {k \in pending : k <= j}
      fitting == {j \in pending :
                    Cardinality(Upto(j)) + Cardinality(Released(leases, Upto(j), decision))
                      <= MaxEntries}
  IN  UNION {Upto(j) : j \in fitting}

RecoveryMutation(s, chunk, decision, now) ==
  [expected_revision |-> s.revision,
   create_jobs       |-> EmptyMap,
   update_jobs       |-> [j \in chunk |-> RecoveredRecord(s.jobs[j], decision[j], now)],
   release_leases    |-> Released(s.leases, chunk, decision),
   acquire_leases    |-> EmptyMap]

=============================================================================
