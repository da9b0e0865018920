----------------------------- MODULE StateStore -----------------------------
(***************************************************************************)
(* The state store under concurrent callers.  SerialStateStore             *)
(* (src/runtime/serial_state_store.cpp) serialises load() and apply() with *)
(* a mutex, so each is one step; between the two a caller holds a snapshot *)
(* that may be stale.  A caller composes its mutation from the snapshot it *)
(* loaded, the way JobManager's rewrite_job and FifoScheduler do, and the  *)
(* revision check is what keeps a stale caller out.                        *)
(*                                                                         *)
(* The stored state survives a restart; the snapshots do not.              *)
(***************************************************************************)
EXTENDS MutationCore

CONSTANTS
  Client,       \* threads that load and apply
  NoSnapshot,   \* the caller holds no snapshot
  Edit          \* the edits a caller may want to make to what it loaded

(* What an edit does to one record of the snapshot.  bump = 0 is the        *)
(* "updated = current" path of process_exit and fail_launch.  A null field  *)
(* keeps the value of the snapshot.                                         *)
Change ==
  [state      : JobState,
   bump       : {0, 1},
   identity   : Identity \cup {NoIdentity},
   start_time : Nat \cup {NoTime},
   end_time   : Nat \cup {NoTime},
   exit       : ExitStatus \cup {NoExit}]

IsEdit(e) ==
  /\ DOMAIN e = {"create", "update", "release", "acquire"}
  /\ IsMap(e.create, JobId, JobSpec)
  /\ IsMap(e.update, JobId, Change)
  /\ e.release \subseteq GpuUuid
  /\ IsMap(e.acquire, GpuUuid, JobId)

ASSUME EditAssumption == \A e \in Edit : IsEdit(e)

VARIABLES
  jobs,       \* the stored jobs: a finite function on JobId
  leases,     \* the GPU leases: a finite function from GpuUuid to JobId
  revision,   \* the store revision
  snapshot    \* per client: the last snapshot loaded and not yet used

vars == <<jobs, leases, revision, snapshot>>

IsState(js, ls, r) ==
  /\ IsMap(js, JobId, StoredJob)
  /\ IsMap(ls, GpuUuid, JobId)
  /\ r \in 0 .. MaxRevision

(* The one type invariant: the store and the snapshots hold well-formed     *)
(* maps, and the revision stays within its width.                           *)
TypeOK ==
  /\ IsState(jobs, leases, revision)
  /\ DOMAIN snapshot = Client
  /\ \A c \in Client : snapshot[c] # NoSnapshot =>
       IsState(snapshot[c].jobs, snapshot[c].leases, snapshot[c].revision)

-----------------------------------------------------------------------------

Or(value, null, kept) == IF value = null THEN kept ELSE value

Changed(record, change) ==
  [spec       |-> record.spec,
   state      |-> change.state,
   revision   |-> record.revision + change.bump,
   identity   |-> Or(change.identity, NoIdentity, record.identity),
   start_time |-> Or(change.start_time, NoTime, record.start_time),
   end_time   |-> Or(change.end_time, NoTime, record.end_time),
   exit       |-> Or(change.exit, NoExit, record.exit)]

(* The mutation a caller composes from the snapshot s.                      *)
Compose(s, e) ==
  [expected_revision |-> s.revision,
   create_jobs       |-> [j \in DOMAIN e.create |-> NewJob(e.create[j])],
   update_jobs       |-> [j \in DOMAIN e.update |-> Changed(s.jobs[j], e.update[j])],
   release_leases    |-> e.release,
   acquire_leases    |-> e.acquire]

Init ==
  /\ jobs = EmptyMap
  /\ leases = EmptyMap
  /\ revision = 0
  /\ snapshot = [c \in Client |-> NoSnapshot]

(* StateStore::load.                                                        *)
Load(c) ==
  /\ snapshot' = [snapshot EXCEPT ![c] =
       [jobs |-> jobs, leases |-> leases, revision |-> revision]]
  /\ UNCHANGED <<jobs, leases, revision>>

Commit(m) ==
  /\ jobs' = next_jobs(jobs, m)
  /\ leases' = next_leases(leases, m)
  /\ revision' = revision + 1

(* StateStore::apply of the mutation composed from the caller's snapshot.   *)
(* A caller that does not find its job in the snapshot does not write.  A   *)
(* rejected mutation leaves the store alone.                                *)
Apply(c, e) ==
  /\ snapshot[c] # NoSnapshot
  /\ DOMAIN e.update \subseteq DOMAIN snapshot[c].jobs
  /\ LET m == Compose(snapshot[c], e) IN
       IF Accepts(jobs, leases, revision, m)
       THEN Commit(m)
       ELSE UNCHANGED <<jobs, leases, revision>>
  /\ snapshot' = [snapshot EXCEPT ![c] = NoSnapshot]

(* StateStore::apply fails in the backend, whatever the mutation.           *)
Unavailable(c) ==
  /\ snapshot[c] # NoSnapshot
  /\ snapshot' = [snapshot EXCEPT ![c] = NoSnapshot]
  /\ UNCHANGED <<jobs, leases, revision>>

(* The daemon stops or crashes: the callers and their snapshots are gone,   *)
(* the committed state is found again by the next daemon.                   *)
Restart ==
  /\ snapshot' = [c \in Client |-> NoSnapshot]
  /\ UNCHANGED <<jobs, leases, revision>>

Next ==
  \/ \E c \in Client : Load(c)
  \/ \E c \in Client, e \in Edit : Apply(c, e)
  \/ \E c \in Client : Unavailable(c)
  \/ Restart

Spec == Init /\ [][Next]_vars

-----------------------------------------------------------------------------
(* Properties.                                                              *)

(* A snapshot whose revision is the store's revision is the store's content,*)
(* and no snapshot is ahead of the store: what makes the optimistic         *)
(* revision check of apply_mutation sufficient against lost updates.        *)
SnapshotCurrent ==
  \A c \in Client : snapshot[c] # NoSnapshot =>
    /\ snapshot[c].revision <= revision
    /\ snapshot[c].revision = revision =>
         snapshot[c].jobs = jobs /\ snapshot[c].leases = leases

(* No lost update: a caller's mutation only takes effect on exactly the     *)
(* jobs and leases the caller had read.                                     *)
NoLostUpdate ==
  [][\A c \in Client :
       snapshot[c] # NoSnapshot /\ snapshot'[c] = NoSnapshot
         /\ <<jobs, leases>>' # <<jobs, leases>> =>
       snapshot[c].jobs = jobs /\ snapshot[c].leases = leases]_vars

(* Every GPU is leased to at most one job, and exactly the STARTING,        *)
(* RUNNING and STOPPING jobs own a lease, one each.                         *)
LeaseMatrix == LeaseMatrixHolds(jobs, leases)

(* RULE-04: a job in a terminal state is never touched again, whatever late *)
(* results callers still try to write, and no record ever disappears.       *)
TerminalFrozen ==
  [][\A j \in DOMAIN jobs :
       /\ j \in DOMAIN jobs'
       /\ is_terminal(jobs[j].state) => jobs'[j] = jobs[j]]_vars

=============================================================================
