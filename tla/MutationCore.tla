---------------------------- MODULE MutationCore ----------------------------
(***************************************************************************)
(* The pure core of the state store (src/store/mutation_core.cpp): given   *)
(* the stored jobs, the GPU leases and the store revision, which mutations *)
(* are accepted and what the store holds afterwards.  A mutation is all or *)
(* nothing.                                                                *)
(*                                                                         *)
(* jobs and leases are the two maps of the code: finite functions from job *)
(* ids to records and from GPU uuids to the job holding the lease.  The    *)
(* four entry lists of a StateMutation are represented by functions and a  *)
(* set, so one mutation names a job or a GPU at most once per list, as     *)
(* every caller in src/ does.                                              *)
(***************************************************************************)
EXTENDS Job, Naturals, FiniteSets

CONSTANTS
  JobId,        \* job identifiers
  GpuUuid,      \* stable GPU identities
  JobSpec,      \* valid job specifications: records with at least a submit_time
  Identity,     \* process identities (pid, pgid, start ticks)
  NoIdentity,   \* the blank identity
  ExitStatus,   \* exit statuses
  NoExit,       \* no exit status recorded
  NoTime,       \* no time recorded
  MaxJobs,      \* ValidationConfig::max_jobs
  MaxLeases,    \* ValidationConfig::max_leases
  MaxEntries,   \* StateMutation::kMaxEntries
  MaxRevision   \* the largest store revision (2^64 - 1 in the code)

ASSUME NullAssumption ==
  /\ NoIdentity \notin Identity
  /\ NoExit \notin ExitStatus
  /\ NoTime \notin Nat

ASSUME BoundAssumption ==
  /\ MaxJobs \in Nat
  /\ MaxLeases \in Nat
  /\ MaxEntries \in Nat
  /\ MaxRevision \in Nat

ASSUME SpecAssumption == \A s \in JobSpec : s.submit_time \in Nat

(* StoredJob and its JobExecutionRecord.  log_path and failure_reason only  *)
(* follow end_time and are left out.                                        *)
StoredJob ==
  [spec       : JobSpec,
   state      : JobState,
   revision   : Nat,
   identity   : Identity \cup {NoIdentity},
   start_time : Nat \cup {NoTime},
   end_time   : Nat \cup {NoTime},
   exit       : ExitStatus \cup {NoExit}]

(* f is a finite map from S to T: a function on a subset of S.              *)
IsMap(f, S, T) == DOMAIN f \subseteq S /\ f \in [DOMAIN f -> T]

EmptyMap == [x \in {} |-> x]

(* A record as submitted: QUEUED, revision 0, an empty execution record.    *)
NewJob(spec) ==
  [spec |-> spec, state |-> "QUEUED", revision |-> 0, identity |-> NoIdentity,
   start_time |-> NoTime, end_time |-> NoTime, exit |-> NoExit]

has_identity(record) == record.identity # NoIdentity

(* The states that own exactly one GPU lease.                               *)
leaseable(state) == state \in {"STARTING", "RUNNING", "STOPPING"}

validate_execution(record) ==
  /\ record.state = "QUEUED" => ~has_identity(record)
  /\ record.state \in {"RUNNING", "STOPPING"} => has_identity(record)
  /\ record.exit # NoExit => is_terminal(record.state)
  /\ record.start_time # NoTime =>
       /\ has_identity(record)
       /\ record.start_time >= record.spec.submit_time
  /\ record.end_time # NoTime =>
       /\ is_terminal(record.state)
       /\ record.start_time # NoTime => record.end_time >= record.start_time

(* The function f with the bindings of g added or replaced.                 *)
Overlay(f, g) ==
  [x \in DOMAIN f \cup DOMAIN g |-> IF x \in DOMAIN g THEN g[x] ELSE f[x]]

Without(f, S) == [x \in DOMAIN f \ S |-> f[x]]

entry_count(m) ==
  Cardinality(DOMAIN m.create_jobs) + Cardinality(DOMAIN m.update_jobs)
    + Cardinality(m.release_leases) + Cardinality(DOMAIN m.acquire_leases)

CreatesAccepted(jobs, m) ==
  /\ \A j \in DOMAIN m.create_jobs :
       /\ m.create_jobs[j].state = "QUEUED"
       /\ m.create_jobs[j].revision = 0
       /\ validate_execution(m.create_jobs[j])
       /\ j \notin DOMAIN jobs
  /\ DOMAIN m.create_jobs # {} =>
       Cardinality(DOMAIN jobs \cup DOMAIN m.create_jobs) <= MaxJobs

(* A mutated check of an update that ignores the record's revision.         *)
UpdateAccepted_NoRevision(old, new) ==
  /\ validate_execution(new)
  /\ new.spec = old.spec
  /\ can_transition(old.state, new.state)

(* One update against the record it replaces.                               *)
UpdateAccepted(old, new) ==
  /\ validate_execution(new)
  /\ new.revision = old.revision + 1
  /\ new.spec = old.spec
  /\ can_transition(old.state, new.state)

UpdatesAccepted(jobs, m) ==
  \A j \in DOMAIN m.update_jobs :
    j \in DOMAIN jobs /\ UpdateAccepted(jobs[j], m.update_jobs[j])

(* Acquisitions are checked against the jobs after the updates and the      *)
(* leases left after the releases.                                          *)
AcquiresAccepted(jobs, leases, m) ==
  /\ \A g \in DOMAIN m.acquire_leases :
       LET j == m.acquire_leases[g] IN
       /\ g \notin DOMAIN leases
       /\ j \in DOMAIN jobs
       /\ leaseable(jobs[j].state)
       /\ \A h \in DOMAIN leases : leases[h] # j
       /\ \A h \in DOMAIN m.acquire_leases : m.acquire_leases[h] = j => h = g
  /\ DOMAIN m.acquire_leases # {} =>
       Cardinality(DOMAIN leases \cup DOMAIN m.acquire_leases) <= MaxLeases

(* The lease matrix the core re-establishes over the whole next state: a    *)
(* STARTING, RUNNING or STOPPING job has exactly one lease, any other none. *)
LeaseMatrixHolds(jobs, leases) ==
  /\ \A g \in DOMAIN leases :
       leases[g] \in DOMAIN jobs /\ leaseable(jobs[leases[g]].state)
  /\ \A j \in DOMAIN jobs : leaseable(jobs[j].state) =>
       \E g \in DOMAIN leases :
         leases[g] = j /\ \A h \in DOMAIN leases : leases[h] = j => h = g

next_jobs(jobs, m) == Overlay(Overlay(jobs, m.create_jobs), m.update_jobs)

next_leases(leases, m) ==
  Overlay(Without(leases, m.release_leases), m.acquire_leases)

(* The checks of apply_mutation on the entries of a mutation.               *)
AcceptsEntries(jobs, leases, revision, m) ==
  /\ entry_count(m) \in 1 .. MaxEntries
  /\ revision # MaxRevision
  /\ CreatesAccepted(jobs, m)
  /\ UpdatesAccepted(Overlay(jobs, m.create_jobs), m)
  /\ m.release_leases \subseteq DOMAIN leases
  /\ AcquiresAccepted(next_jobs(jobs, m), Without(leases, m.release_leases), m)

(* A mutated apply_mutation without the revision check.                     *)
Accepts_AnyRevision(jobs, leases, revision, m) ==
  /\ AcceptsEntries(jobs, leases, revision, m)
  /\ LeaseMatrixHolds(next_jobs(jobs, m), next_leases(leases, m))

(* apply_mutation returns kNone.                                            *)
Accepts(jobs, leases, revision, m) ==
  /\ m.expected_revision = revision
  /\ AcceptsEntries(jobs, leases, revision, m)
  /\ LeaseMatrixHolds(next_jobs(jobs, m), next_leases(leases, m))

=============================================================================
