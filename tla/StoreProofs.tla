----------------------------- MODULE StoreProofs -----------------------------
(***************************************************************************)
(* Machine-checked proofs about the state store, for any jobs, GPUs,       *)
(* callers and edits: first about StateStore, then that the SQLite backend *)
(* implements it, whatever the point of failure.                           *)
(***************************************************************************)
EXTENDS SqliteStateStore, TLAPS

(* Adding or replacing bindings of a map yields a map.                      *)
LEMMA OverlayIsMap ==
  ASSUME NEW S, NEW T, NEW f, NEW g, IsMap(f, S, T), IsMap(g, S, T)
  PROVE  IsMap(Overlay(f, g), S, T)
BY DEF IsMap, Overlay

(* Removing bindings of a map yields a map.                                 *)
LEMMA WithoutIsMap ==
  ASSUME NEW S, NEW T, NEW f, NEW R, IsMap(f, S, T)
  PROVE  IsMap(Without(f, R), S, T)
BY DEF IsMap, Without

(* A record changed by a caller is still a well-formed record.              *)
LEMMA ChangedIsStoredJob ==
  ASSUME NEW r \in StoredJob, NEW ch \in Change
  PROVE  Changed(r, ch) \in StoredJob
BY DEF Changed, Change, StoredJob, Or

(* A submitted record is well formed.                                       *)
LEMMA NewJobIsStoredJob ==
  ASSUME NEW s \in JobSpec
  PROVE  NewJob(s) \in StoredJob
BY DEF NewJob, StoredJob, JobState

(* The entry lists of a composed mutation are well-formed maps.             *)
LEMMA ComposeIsTyped ==
  ASSUME NEW s, NEW e, IsMap(s.jobs, JobId, StoredJob), IsEdit(e),
         DOMAIN e.update \subseteq DOMAIN s.jobs
  PROVE  /\ IsMap(Compose(s, e).create_jobs, JobId, StoredJob)
         /\ IsMap(Compose(s, e).update_jobs, JobId, StoredJob)
         /\ IsMap(Compose(s, e).acquire_leases, GpuUuid, JobId)
<1> DEFINE cj == [j \in DOMAIN e.create |-> NewJob(e.create[j])]
           uj == [j \in DOMAIN e.update |-> Changed(s.jobs[j], e.update[j])]
<1>1. IsMap(cj, JobId, StoredJob)
  <2>1. \A j \in DOMAIN e.create : NewJob(e.create[j]) \in StoredJob
    BY NewJobIsStoredJob DEF IsEdit, IsMap
  <2> QED BY <2>1 DEF IsMap, IsEdit
<1>2. IsMap(uj, JobId, StoredJob)
  <2>1. \A j \in DOMAIN e.update : Changed(s.jobs[j], e.update[j]) \in StoredJob
    <3> SUFFICES ASSUME NEW j \in DOMAIN e.update
                 PROVE  Changed(s.jobs[j], e.update[j]) \in StoredJob
      OBVIOUS
    <3>1. s.jobs[j] \in StoredJob /\ e.update[j] \in Change
      BY DEF IsMap, IsEdit
    <3> QED BY <3>1, ChangedIsStoredJob
  <2> QED BY <2>1 DEF IsMap, IsEdit
<1> QED BY <1>1, <1>2 DEF Compose, IsEdit

(* What a commit leaves in the store is well formed.                        *)
LEMMA CommitIsTyped ==
  ASSUME NEW js, NEW ls, NEW r, NEW m,
         IsState(js, ls, r), r # MaxRevision,
         IsMap(m.create_jobs, JobId, StoredJob),
         IsMap(m.update_jobs, JobId, StoredJob),
         IsMap(m.acquire_leases, GpuUuid, JobId)
  PROVE  IsState(next_jobs(js, m), next_leases(ls, m), r + 1)
<1>1. IsMap(Overlay(js, m.create_jobs), JobId, StoredJob)
  BY OverlayIsMap DEF IsState
<1>2. IsMap(next_jobs(js, m), JobId, StoredJob)
  BY <1>1, OverlayIsMap DEF next_jobs
<1>3. IsMap(Without(ls, m.release_leases), GpuUuid, JobId)
  BY WithoutIsMap DEF IsState
<1>4. IsMap(next_leases(ls, m), GpuUuid, JobId)
  BY <1>3, OverlayIsMap DEF next_leases
<1>5. r + 1 \in 0 .. MaxRevision
  BY BoundAssumption DEF IsState
<1> QED BY <1>2, <1>4, <1>5 DEF IsState

(* What an Apply step can do: commit an accepted mutation composed from the *)
(* caller's snapshot, or leave the store alone; the snapshot is used up.    *)
LEMMA ApplyCases ==
  ASSUME TypeOK, NEW c \in Client, NEW e \in Edit, Apply(c, e)
  PROVE  /\ snapshot' = [snapshot EXCEPT ![c] = NoSnapshot]
         /\ \/ UNCHANGED <<jobs, leases, revision>>
            \/ LET m == Compose(snapshot[c], e) IN
               /\ Accepts(jobs, leases, revision, m)
               /\ Commit(m)
               /\ snapshot[c].revision = revision
               /\ IsMap(m.create_jobs, JobId, StoredJob)
               /\ IsMap(m.update_jobs, JobId, StoredJob)
               /\ IsMap(m.acquire_leases, GpuUuid, JobId)
<1> DEFINE m == Compose(snapshot[c], e)
<1>1. CASE ~Accepts(jobs, leases, revision, m)
  BY <1>1 DEF Apply
<1>2. CASE Accepts(jobs, leases, revision, m)
  <2>1. Commit(m) /\ snapshot' = [snapshot EXCEPT ![c] = NoSnapshot]
    BY <1>2 DEF Apply
  <2>2. m.expected_revision = snapshot[c].revision
    BY DEF Compose
  <2>3. snapshot[c].revision = revision
    BY <1>2, <2>2 DEF Accepts
  <2>4. IsEdit(e)
    BY EditAssumption
  <2>5. IsMap(snapshot[c].jobs, JobId, StoredJob)
          /\ DOMAIN e.update \subseteq DOMAIN snapshot[c].jobs
    BY DEF Apply, TypeOK, IsState
  <2> QED BY <1>2, <2>1, <2>3, <2>4, <2>5, ComposeIsTyped
<1> QED BY <1>1, <1>2

-----------------------------------------------------------------------------
(* Every step keeps the store and the snapshots well formed.                *)
LEMMA TypeStep == TypeOK /\ [Next]_vars => TypeOK'
<1> SUFFICES ASSUME TypeOK, [Next]_vars PROVE TypeOK'
  OBVIOUS
<1>1. ASSUME NEW c \in Client, Load(c) PROVE TypeOK'
  BY <1>1 DEF Load, TypeOK
<1>2. ASSUME NEW c \in Client, NEW e \in Edit, Apply(c, e) PROVE TypeOK'
  <2>1. IsState(jobs', leases', revision')
    <3>1. CASE UNCHANGED <<jobs, leases, revision>>
      BY <3>1 DEF TypeOK
    <3>2. CASE ~UNCHANGED <<jobs, leases, revision>>
      <4> DEFINE m == Compose(snapshot[c], e)
      <4>1. /\ Accepts(jobs, leases, revision, m)
            /\ Commit(m)
            /\ IsMap(m.create_jobs, JobId, StoredJob)
            /\ IsMap(m.update_jobs, JobId, StoredJob)
            /\ IsMap(m.acquire_leases, GpuUuid, JobId)
        BY <1>2, <3>2, ApplyCases
      <4>2. revision # MaxRevision
        BY <4>1 DEF Accepts, AcceptsEntries
      <4>3. IsState(jobs, leases, revision)
        BY DEF TypeOK
      <4> HIDE DEF m
      <4>4. IsState(next_jobs(jobs, m), next_leases(leases, m), revision + 1)
        BY <4>1, <4>2, <4>3, CommitIsTyped
      <4> QED BY <4>1, <4>4 DEF Commit
    <3> QED BY <3>1, <3>2
  <2>2. snapshot' = [snapshot EXCEPT ![c] = NoSnapshot]
    BY <1>2 DEF Apply
  <2> QED BY <2>1, <2>2 DEF TypeOK
<1>3. ASSUME NEW c \in Client, Unavailable(c) PROVE TypeOK'
  BY <1>3 DEF Unavailable, TypeOK
<1>4. CASE Restart
  BY <1>4 DEF Restart, TypeOK
<1>5. CASE UNCHANGED vars
  BY <1>5 DEF vars, TypeOK
<1> QED BY <1>1, <1>2, <1>3, <1>4, <1>5 DEF Next

(* Type correctness: whatever edits the callers make, the store and every   *)
(* snapshot hold well-formed maps and the revision never leaves its width.  *)
THEOREM TypeCorrect == Spec => []TypeOK
<1>1. Init => TypeOK
  BY BoundAssumption DEF Init, TypeOK, IsState, IsMap, EmptyMap
<1> QED BY <1>1, TypeStep, PTL DEF Spec

(* The lease matrix of mutation_core.cpp holds in every reachable state.    *)
THEOREM LeaseMatrixInvariant == Spec => []LeaseMatrix
<1>1. Init => LeaseMatrix
  BY DEF Init, LeaseMatrix, LeaseMatrixHolds, EmptyMap
<1>2. TypeOK /\ LeaseMatrix /\ [Next]_vars => LeaseMatrix'
  <2> SUFFICES ASSUME TypeOK, LeaseMatrix, [Next]_vars PROVE LeaseMatrix'
    OBVIOUS
  <2>1. CASE UNCHANGED <<jobs, leases>>
    BY <2>1 DEF LeaseMatrix
  <2>2. CASE ~UNCHANGED <<jobs, leases>>
    <3>1. PICK c \in Client, e \in Edit : Apply(c, e)
      BY <2>2 DEF Next, vars, Load, Unavailable, Restart
    <3> DEFINE m == Compose(snapshot[c], e)
    <3>2. Accepts(jobs, leases, revision, m) /\ Commit(m)
      BY <2>2, <3>1, ApplyCases
    <3> QED BY <3>2 DEF Accepts, Commit, LeaseMatrix
  <2> QED BY <2>1, <2>2
<1> QED BY <1>1, <1>2, TypeCorrect, PTL DEF Spec

(* A caller holding a snapshot of the current revision holds the current    *)
(* content: the optimistic revision check is sound.                         *)
THEOREM SnapshotCurrentInvariant == Spec => []SnapshotCurrent
<1>1. Init => SnapshotCurrent
  BY DEF Init, SnapshotCurrent
<1>2. TypeOK /\ SnapshotCurrent /\ [Next]_vars => SnapshotCurrent'
  <2> SUFFICES ASSUME TypeOK, SnapshotCurrent, [Next]_vars PROVE SnapshotCurrent'
    OBVIOUS
  <2>0. revision \in Nat
    BY BoundAssumption DEF TypeOK, IsState
  <2>1. ASSUME NEW c \in Client, Load(c) PROVE SnapshotCurrent'
    BY <2>0, <2>1 DEF Load, SnapshotCurrent, TypeOK
  <2>2. ASSUME NEW c \in Client, NEW e \in Edit, Apply(c, e) PROVE SnapshotCurrent'
    <3>1. snapshot' = [snapshot EXCEPT ![c] = NoSnapshot]
      BY <2>2, ApplyCases
    <3>2. CASE UNCHANGED <<jobs, leases, revision>>
      BY <3>1, <3>2 DEF SnapshotCurrent, TypeOK
    <3>3. CASE ~UNCHANGED <<jobs, leases, revision>>
      <4>1. revision' = revision + 1
        BY <2>2, <3>3, ApplyCases DEF Commit
      <4> SUFFICES ASSUME NEW d \in Client, snapshot'[d] # NoSnapshot
                   PROVE  /\ snapshot'[d].revision \in Nat
                          /\ snapshot'[d].revision < revision'
        BY <4>1, <2>0 DEF SnapshotCurrent
      <4>2. snapshot'[d] = snapshot[d] /\ snapshot[d] # NoSnapshot
        BY <3>1 DEF TypeOK
      <4>3. snapshot[d].revision \in Nat /\ snapshot[d].revision <= revision
        BY <4>2, BoundAssumption DEF TypeOK, IsState, SnapshotCurrent
      <4> QED BY <2>0, <4>1, <4>2, <4>3
    <3> QED BY <3>2, <3>3
  <2>3. ASSUME NEW c \in Client, Unavailable(c) PROVE SnapshotCurrent'
    BY <2>3 DEF Unavailable, SnapshotCurrent, TypeOK
  <2>4. CASE Restart
    BY <2>4 DEF Restart, SnapshotCurrent
  <2>5. CASE UNCHANGED vars
    BY <2>5 DEF vars, SnapshotCurrent
  <2> QED BY <2>1, <2>2, <2>3, <2>4, <2>5 DEF Next
<1> QED BY <1>1, <1>2, TypeCorrect, PTL DEF Spec

(* Any step that changes the stored jobs or leases is an accepted mutation  *)
(* of one caller whose snapshot carries the current revision.               *)
LEMMA ChangeIsCommit ==
  ASSUME TypeOK, [Next]_vars, ~UNCHANGED <<jobs, leases>>
  PROVE  \E c \in Client, e \in Edit :
           /\ snapshot' = [snapshot EXCEPT ![c] = NoSnapshot]
           /\ snapshot[c] # NoSnapshot
           /\ snapshot[c].revision = revision
           /\ Accepts(jobs, leases, revision, Compose(snapshot[c], e))
           /\ Commit(Compose(snapshot[c], e))
<1>1. PICK c \in Client, e \in Edit : Apply(c, e)
  BY DEF Next, vars, Load, Unavailable, Restart
<1>2. snapshot[c] # NoSnapshot
  BY <1>1 DEF Apply
<1> QED BY <1>1, <1>2, ApplyCases

(* Optimistic concurrency is sound: a caller's write takes effect only on   *)
(* exactly the jobs and leases the caller had read.                         *)
THEOREM WritesSeeWhatTheyRead == Spec => NoLostUpdate
<1> DEFINE Step == \A c \in Client :
             snapshot[c] # NoSnapshot /\ snapshot'[c] = NoSnapshot
               /\ <<jobs, leases>>' # <<jobs, leases>> =>
             snapshot[c].jobs = jobs /\ snapshot[c].leases = leases
<1>1. TypeOK /\ SnapshotCurrent /\ [Next]_vars => [Step]_vars
  <2> SUFFICES ASSUME TypeOK, SnapshotCurrent, [Next]_vars,
                      NEW c \in Client, snapshot[c] # NoSnapshot,
                      snapshot'[c] = NoSnapshot,
                      ~UNCHANGED <<jobs, leases>>
               PROVE  snapshot[c].jobs = jobs /\ snapshot[c].leases = leases
    OBVIOUS
  <2>1. PICK d \in Client : /\ snapshot' = [snapshot EXCEPT ![d] = NoSnapshot]
                            /\ snapshot[d].revision = revision
    BY ChangeIsCommit
  <2>2. c = d
    BY <2>1 DEF TypeOK
  <2> QED BY <2>1, <2>2 DEF SnapshotCurrent
<1> QED BY <1>1, TypeCorrect, SnapshotCurrentInvariant, PTL DEF Spec, NoLostUpdate

(* An accepted mutation keeps every record and every terminal record as is. *)
LEMMA AcceptedKeepsTerminal ==
  ASSUME NEW js, NEW ls, NEW r, NEW m, Accepts(js, ls, r, m),
         NEW j \in DOMAIN js
  PROVE  /\ j \in DOMAIN next_jobs(js, m)
         /\ is_terminal(js[j].state) => next_jobs(js, m)[j] = js[j]
<1>1. j \notin DOMAIN m.create_jobs
  BY DEF Accepts, AcceptsEntries, CreatesAccepted
<1>2. Overlay(js, m.create_jobs)[j] = js[j]
  BY <1>1 DEF Overlay
<1>3. j \in DOMAIN next_jobs(js, m)
  BY DEF next_jobs, Overlay
<1>4. ASSUME is_terminal(js[j].state) PROVE j \notin DOMAIN m.update_jobs
  <2> SUFFICES ASSUME j \in DOMAIN m.update_jobs PROVE FALSE
    OBVIOUS
  <2>1. can_transition(js[j].state, m.update_jobs[j].state)
    BY <1>2 DEF Accepts, AcceptsEntries, UpdatesAccepted, UpdateAccepted
  <2> QED BY <1>4, <2>1 DEF can_transition, is_terminal, Terminal
<1>5. ASSUME is_terminal(js[j].state) PROVE next_jobs(js, m)[j] = js[j]
  BY <1>2, <1>4, <1>5 DEF next_jobs, Overlay
<1> QED BY <1>3, <1>5

(* RULE-04 for every caller and every interleaving: no late or repeated     *)
(* write changes a terminal job, and no job record is ever lost.            *)
THEOREM TerminalJobsAreFrozen == Spec => TerminalFrozen
<1> DEFINE Step == \A j \in DOMAIN jobs :
             /\ j \in DOMAIN jobs'
             /\ is_terminal(jobs[j].state) => jobs'[j] = jobs[j]
<1>1. TypeOK /\ [Next]_vars => [Step]_vars
  <2> SUFFICES ASSUME TypeOK, [Next]_vars, NEW j \in DOMAIN jobs
               PROVE  /\ j \in DOMAIN jobs'
                      /\ is_terminal(jobs[j].state) => jobs'[j] = jobs[j]
    OBVIOUS
  <2>1. CASE UNCHANGED <<jobs, leases>>
    BY <2>1
  <2>2. CASE ~UNCHANGED <<jobs, leases>>
    <3>1. PICK m : Accepts(jobs, leases, revision, m) /\ Commit(m)
      BY <2>2, ChangeIsCommit
    <3> QED BY <3>1, AcceptedKeepsTerminal DEF Commit
  <2> QED BY <2>1, <2>2
<1> QED BY <1>1, TypeCorrect, PTL DEF Spec, TerminalFrozen

-----------------------------------------------------------------------------
(* The SQLite backend.                                                      *)

(* The set D and one more key.                                              *)
Plus(D, k) == D \cup {k}

(* Writing one more row of a list of entries.                               *)
LEMMA OverlayOneMore ==
  ASSUME NEW f, NEW g, NEW D, NEW k
  PROVE  Overlay(Overlay(f, Only(g, D)), One(k, g[k])) = Overlay(f, Only(g, Plus(D, k)))
BY DEF Overlay, Only, One, Plus

(* Nothing written yet: the view is the map it started from.                *)
LEMMA OverlayNone ==
  ASSUME NEW f, NEW g, NEW h
  PROVE  /\ Overlay(Overlay(f, h), Only(g, {})) = Overlay(f, h)
         /\ Overlay(Without(f, h), Only(g, {})) = Without(f, h)
BY DEF Overlay, Only, Without

(* A map is what its own restrictions make it.                              *)
LEMMA UntouchedMap ==
  ASSUME NEW S, NEW T, NEW f, NEW g, NEW h, IsMap(f, S, T)
  PROVE  /\ Overlay(Overlay(f, Only(g, {})), Only(h, {})) = f
         /\ Overlay(Without(f, {}), Only(h, {})) = f
BY DEF Overlay, Only, Without, IsMap

(* Everything written: the view is the overlay of the whole list.           *)
LEMMA OverlayAll ==
  ASSUME NEW f, NEW g
  PROVE  Overlay(f, Only(g, DOMAIN g)) = Overlay(f, g)
BY DEF Overlay, Only

(* Deleting one more row.                                                   *)
LEMMA WithoutOneMore ==
  ASSUME NEW f, NEW R, NEW k
  PROVE  Without(Without(f, R), {k}) = Without(f, Plus(R, k))
BY DEF Without, Plus

-----------------------------------------------------------------------------
(* A transaction that has written nothing sees the committed tables.        *)
LEMMA SeenAtBegin ==
  ASSUME NEW js, NEW ls, NEW m,
         IsMap(js, JobId, StoredJob), IsMap(ls, GpuUuid, JobId)
  PROVE  SeenJobs(js, m, Rows(m)) = js /\ SeenLeases(ls, m, Rows(m)) = ls
<1>1. /\ Done(Rows(m), "create", DOMAIN m.create_jobs) = {}
      /\ Done(Rows(m), "update", DOMAIN m.update_jobs) = {}
      /\ Done(Rows(m), "release", m.release_leases) = {}
      /\ Done(Rows(m), "acquire", DOMAIN m.acquire_leases) = {}
  BY DEF Done, Rows, RowsOf
<1> QED BY <1>1, UntouchedMap DEF SeenJobs, SeenLeases

(* A transaction that has written every row sees apply_mutation's result.   *)
LEMMA SeenAtCommit ==
  ASSUME NEW js, NEW ls, NEW m
  PROVE  SeenJobs(js, m, {}) = next_jobs(js, m) /\ SeenLeases(ls, m, {}) = next_leases(ls, m)
<1>1. \A kind, keys : Done({}, kind, keys) = keys
  BY DEF Done
<1> QED BY <1>1, OverlayAll DEF SeenJobs, SeenLeases, next_jobs, next_leases

(* The statements of a mutation, by kind.                                   *)
LEMMA RowShape ==
  ASSUME NEW m, NEW row \in Rows(m)
  PROVE  /\ row = [kind |-> row.kind, key |-> row.key]
         /\ \/ row.kind = "create" /\ row.key \in DOMAIN m.create_jobs
            \/ row.kind = "update" /\ row.key \in DOMAIN m.update_jobs
            \/ row.kind = "release" /\ row.key \in m.release_leases
            \/ row.kind = "acquire" /\ row.key \in DOMAIN m.acquire_leases
            \/ row.kind = "revision" /\ row.key = 0
BY DEF Rows, RowsOf

(* Writing a row marks no key of another kind as written.                   *)
LEMMA DoneOtherKind ==
  ASSUME NEW rows, NEW row, NEW kind, NEW keys, row.kind # kind
  PROVE  Done(rows \ {row}, kind, keys) = Done(rows, kind, keys)
BY DEF Done

(* No row of a later kind is written while a row of an earlier kind is due. *)
LEMMA NothingLaterDone ==
  ASSUME NEW m, NEW rows, NEW row \in rows,
         \A r \in Rows(m) \ rows, other \in rows : Rank(r.kind) <= Rank(other.kind)
  PROVE  /\ row.kind = "create" => Done(rows, "update", DOMAIN m.update_jobs) = {}
         /\ row.kind = "release" => Done(rows, "acquire", DOMAIN m.acquire_leases) = {}
<1>1. \A k \in DOMAIN m.update_jobs : [kind |-> "update", key |-> k] \in Rows(m)
  BY DEF Rows, RowsOf
<1>2. \A k \in DOMAIN m.acquire_leases : [kind |-> "acquire", key |-> k] \in Rows(m)
  BY DEF Rows, RowsOf
<1>3. Rank("create") = 1 /\ Rank("update") = 2 /\ Rank("release") = 3 /\ Rank("acquire") = 4
  BY DEF Rank
<1> QED BY <1>1, <1>2, <1>3 DEF Done

(* One statement moves the view of the jobs table by at most its row.       *)
LEMMA SeenJobsAfterWrite ==
  ASSUME NEW js, NEW m, NEW rows, NEW row \in rows,
         rows \subseteq Rows(m),
         \A r \in Rows(m) \ rows, other \in rows : Rank(r.kind) <= Rank(other.kind)
  PROVE  SeenJobs(js, m, rows \ {row}) = JobsAfter(SeenJobs(js, m, rows), m, row)
<1> DEFINE C == Done(rows, "create", DOMAIN m.create_jobs)
           U == Done(rows, "update", DOMAIN m.update_jobs)
<1>0. row = [kind |-> row.kind, key |-> row.key]
  BY RowShape
<1>1. CASE row.kind = "create"
  <2>1. row.key \in DOMAIN m.create_jobs
    BY <1>1, RowShape
  <2>2. /\ Done(rows \ {row}, "create", DOMAIN m.create_jobs) = Plus(C, row.key)
        /\ Done(rows \ {row}, "update", DOMAIN m.update_jobs) = U
    BY <1>0, <1>1, <2>1 DEF Done, Plus
  <2>3. U = {}
    BY <1>1, NothingLaterDone
  <2> HIDE DEF C, U
  <2>4. SeenJobs(js, m, rows) = Overlay(js, Only(m.create_jobs, C))
    BY <2>3, OverlayNone DEF SeenJobs, C, U
  <2>5. SeenJobs(js, m, rows \ {row}) = Overlay(js, Only(m.create_jobs, Plus(C, row.key)))
    BY <2>2, <2>3 DEF SeenJobs, Overlay, Only
  <2>6. SeenJobs(js, m, rows \ {row})
          = Overlay(SeenJobs(js, m, rows), One(row.key, m.create_jobs[row.key]))
    BY <2>4, <2>5, OverlayOneMore
  <2> QED BY <1>1, <2>6 DEF JobsAfter
<1>2. CASE row.kind = "update"
  <2>1. row.key \in DOMAIN m.update_jobs
    BY <1>2, RowShape
  <2>2. /\ Done(rows \ {row}, "update", DOMAIN m.update_jobs) = Plus(U, row.key)
        /\ Done(rows \ {row}, "create", DOMAIN m.create_jobs) = C
    BY <1>0, <1>2, <2>1 DEF Done, Plus
  <2>3. SeenJobs(js, m, rows)
          = Overlay(Overlay(js, Only(m.create_jobs, C)), Only(m.update_jobs, U))
    BY DEF SeenJobs
  <2> HIDE DEF C, U
  <2>4. SeenJobs(js, m, rows \ {row})
          = Overlay(Overlay(js, Only(m.create_jobs, C)),
                    Only(m.update_jobs, Plus(U, row.key)))
    BY <2>2 DEF SeenJobs
  <2>5. SeenJobs(js, m, rows \ {row})
          = Overlay(SeenJobs(js, m, rows), One(row.key, m.update_jobs[row.key]))
    BY <2>3, <2>4, OverlayOneMore
  <2> QED BY <1>2, <2>5 DEF JobsAfter
<1>3. CASE row.kind \notin {"create", "update"}
  <2>1. SeenJobs(js, m, rows \ {row}) = SeenJobs(js, m, rows)
    BY <1>3, DoneOtherKind DEF SeenJobs
  <2> QED BY <1>3, <2>1 DEF JobsAfter
<1> QED BY <1>1, <1>2, <1>3

(* One statement moves the view of the lease table by at most its row.      *)
LEMMA SeenLeasesAfterWrite ==
  ASSUME NEW ls, NEW m, NEW rows, NEW row \in rows,
         rows \subseteq Rows(m),
         \A r \in Rows(m) \ rows, other \in rows : Rank(r.kind) <= Rank(other.kind)
  PROVE  SeenLeases(ls, m, rows \ {row}) = LeasesAfter(SeenLeases(ls, m, rows), m, row)
<1> DEFINE R == Done(rows, "release", m.release_leases)
           A == Done(rows, "acquire", DOMAIN m.acquire_leases)
<1>0. row = [kind |-> row.kind, key |-> row.key]
  BY RowShape
<1>1. CASE row.kind = "release"
  <2>1. row.key \in m.release_leases
    BY <1>1, RowShape
  <2>2. /\ Done(rows \ {row}, "release", m.release_leases) = Plus(R, row.key)
        /\ Done(rows \ {row}, "acquire", DOMAIN m.acquire_leases) = A
    BY <1>0, <1>1, <2>1 DEF Done, Plus
  <2>3. A = {}
    BY <1>1, NothingLaterDone
  <2> HIDE DEF R, A
  <2>4. SeenLeases(ls, m, rows) = Without(ls, R)
    BY <2>3 DEF SeenLeases, R, A, Overlay, Only, Without
  <2>5. SeenLeases(ls, m, rows \ {row}) = Without(ls, Plus(R, row.key))
    BY <2>2, <2>3 DEF SeenLeases, Overlay, Only, Without
  <2>6. SeenLeases(ls, m, rows \ {row}) = Without(SeenLeases(ls, m, rows), {row.key})
    BY <2>4, <2>5, WithoutOneMore
  <2> QED BY <1>1, <2>6 DEF LeasesAfter
<1>2. CASE row.kind = "acquire"
  <2>1. row.key \in DOMAIN m.acquire_leases
    BY <1>2, RowShape
  <2>2. /\ Done(rows \ {row}, "acquire", DOMAIN m.acquire_leases) = Plus(A, row.key)
        /\ Done(rows \ {row}, "release", m.release_leases) = R
    BY <1>0, <1>2, <2>1 DEF Done, Plus
  <2>3. SeenLeases(ls, m, rows) = Overlay(Without(ls, R), Only(m.acquire_leases, A))
    BY DEF SeenLeases
  <2> HIDE DEF R, A
  <2>4. SeenLeases(ls, m, rows \ {row})
          = Overlay(Without(ls, R), Only(m.acquire_leases, Plus(A, row.key)))
    BY <2>2 DEF SeenLeases
  <2>5. SeenLeases(ls, m, rows \ {row})
          = Overlay(SeenLeases(ls, m, rows), One(row.key, m.acquire_leases[row.key]))
    BY <2>3, <2>4, OverlayOneMore
  <2> QED BY <1>2, <2>5 DEF LeasesAfter
<1>3. CASE row.kind \notin {"release", "acquire"}
  <2>1. SeenLeases(ls, m, rows \ {row}) = SeenLeases(ls, m, rows)
    BY <1>3, DoneOtherKind DEF SeenLeases
  <2> QED BY <1>3, <2>1 DEF LeasesAfter
<1> QED BY <1>1, <1>2, <1>3

(* BEGIN opens a transaction that has written nothing.                      *)
LEMMA BeginKeepsTxView ==
  ASSUME TypeOK, NEW c \in Client, NEW e \in Edit, Begin(c, e)
  PROVE  TxView'
<1>1. PICK m : m = Compose(snapshot[c], e)
  OBVIOUS
<1>2. /\ snapshot[c] # NoSnapshot
      /\ DOMAIN e.update \subseteq DOMAIN snapshot[c].jobs
      /\ Accepts(jobs, leases, revision, m)
      /\ UNCHANGED <<jobs, leases, revision, snapshot>>
      /\ tx' = [client |-> c, m |-> m, rows |-> Rows(m),
                jobs |-> jobs, leases |-> leases, revision |-> revision]
  BY <1>1 DEF Begin, Checked, vars
<1>3. SeenJobs(jobs, m, Rows(m)) = jobs /\ SeenLeases(leases, m, Rows(m)) = leases
  BY SeenAtBegin DEF TypeOK, IsState
<1>4. RevisionRow \in Rows(m)
  BY DEF Rows, RowsOf, RevisionRow
<1> QED BY <1>1, <1>2, <1>3, <1>4 DEF TxView

(* A statement keeps the transaction in step with the mutation.             *)
LEMMA WriteKeepsTxView ==
  ASSUME TxView, tx # NoTx, NEW row \in tx.rows, WriteRow(row)
  PROVE  TxView'
<1>1. PICK c, m, rows : c = tx.client /\ m = tx.m /\ rows = tx.rows
  OBVIOUS
<1>2. /\ UNCHANGED <<jobs, leases, revision, snapshot>>
      /\ \A other \in rows : Rank(row.kind) <= Rank(other.kind)
  BY <1>1 DEF WriteRow, Due, vars
<1>3. /\ rows \subseteq Rows(m) /\ row \in rows
      /\ \A r \in Rows(m) \ rows, other \in rows : Rank(r.kind) <= Rank(other.kind)
      /\ tx = [client   |-> c,
               m        |-> m,
               rows     |-> rows,
               jobs     |-> SeenJobs(jobs, m, rows),
               leases   |-> SeenLeases(leases, m, rows),
               revision |-> IF RevisionRow \in rows THEN revision ELSE revision + 1]
  BY <1>1 DEF TxView
<1>4. tx' = [client   |-> c,
             m        |-> m,
             rows     |-> rows \ {row},
             jobs     |-> SeenJobs(jobs, m, rows \ {row}),
             leases   |-> SeenLeases(leases, m, rows \ {row}),
             revision |-> IF RevisionRow \in rows \ {row} THEN revision ELSE revision + 1]
  <2>1. row.kind = "revision" <=> row = RevisionRow
    BY <1>3, RowShape DEF RevisionRow
  <2>2. tx' = [client   |-> c,
               m        |-> m,
               rows     |-> rows \ {row},
               jobs     |-> tx'.jobs,
               leases   |-> tx'.leases,
               revision |-> tx'.revision]
    BY <1>1, <1>3 DEF WriteRow
  <2>3. tx'.jobs = JobsAfter(SeenJobs(jobs, m, rows), m, row)
    BY <1>1, <1>3 DEF WriteRow
  <2>4. tx'.leases = LeasesAfter(SeenLeases(leases, m, rows), m, row)
    BY <1>1, <1>3 DEF WriteRow
  <2>5. tx'.revision = IF RevisionRow \in rows \ {row} THEN revision ELSE revision + 1
    BY <1>1, <1>3, <2>1 DEF WriteRow, RevisionAfter
  <2> QED BY <1>3, <2>2, <2>3, <2>4, <2>5, SeenJobsAfterWrite, SeenLeasesAfterWrite
<1>5. \A r \in Rows(m) \ (rows \ {row}), other \in rows \ {row} :
        Rank(r.kind) <= Rank(other.kind)
  BY <1>2, <1>3
<1>6. /\ c \in Client
      /\ snapshot[c] # NoSnapshot
      /\ \E e \in Edit : /\ DOMAIN e.update \subseteq DOMAIN snapshot[c].jobs
                        /\ m = Compose(snapshot[c], e)
      /\ Accepts(jobs, leases, revision, m)
  BY <1>1 DEF TxView
<1> QED BY <1>2, <1>3, <1>4, <1>5, <1>6 DEF TxView

(* TxView is inductive.                                                     *)
LEMMA TxViewStep == TypeOK /\ TxView /\ [SqlNext]_sqlVars => TxView'
<1> SUFFICES ASSUME TypeOK, TxView, [SqlNext]_sqlVars PROVE TxView'
  OBVIOUS
<1>1. ASSUME NEW c \in Client, SqlLoad(c) PROVE TxView'
  BY <1>1 DEF SqlLoad, TxView
<1>2. ASSUME NEW c \in Client, NEW e \in Edit, Begin(c, e) PROVE TxView'
  BY <1>2, BeginKeepsTxView
<1>3. ASSUME NEW c \in Client, NEW e \in Edit, Refuse(c, e) PROVE TxView'
  BY <1>3 DEF Refuse, TxView
<1>4. ASSUME tx # NoTx, NEW row \in tx.rows, WriteRow(row) PROVE TxView'
  BY <1>4, WriteKeepsTxView
<1>5. CASE CommitTx \/ Rollback \/ Crash
  BY <1>5 DEF CommitTx, Rollback, Crash, TxView
<1>6. CASE UNCHANGED sqlVars
  BY <1>6 DEF sqlVars, TxView
<1> QED BY <1>1, <1>2, <1>3, <1>4, <1>5, <1>6 DEF SqlNext

(* Every step of the backend is a step of the atomic store, or leaves it    *)
(* alone.                                                                   *)
LEMMA StepSimulates == TypeOK /\ TxView /\ [SqlNext]_sqlVars => [Next]_vars
<1> SUFFICES ASSUME TypeOK, TxView, [SqlNext]_sqlVars PROVE [Next]_vars
  OBVIOUS
<1>1. ASSUME NEW c \in Client, SqlLoad(c) PROVE Next
  BY <1>1 DEF SqlLoad, Next
<1>2. ASSUME NEW c \in Client, NEW e \in Edit, Begin(c, e) PROVE UNCHANGED vars
  BY <1>2 DEF Begin
<1>3. ASSUME NEW c \in Client, NEW e \in Edit, Refuse(c, e) PROVE Next
  BY <1>3 DEF Refuse, Next
<1>4. ASSUME NEW row \in tx.rows, WriteRow(row) PROVE UNCHANGED vars
  BY <1>4 DEF WriteRow
<1>5. CASE CommitTx
  <2>1. PICK c, m : c = tx.client /\ m = tx.m
    OBVIOUS
  <2>2. /\ c \in Client
        /\ snapshot[c] # NoSnapshot
        /\ Accepts(jobs, leases, revision, m)
        /\ tx.jobs = SeenJobs(jobs, m, {})
        /\ tx.leases = SeenLeases(leases, m, {})
        /\ tx.revision = revision + 1
    BY <1>5, <2>1 DEF CommitTx, TxView
  <2>3. PICK e \in Edit : /\ DOMAIN e.update \subseteq DOMAIN snapshot[c].jobs
                          /\ m = Compose(snapshot[c], e)
    BY <1>5, <2>1 DEF CommitTx, TxView
  <2>4. /\ jobs' = next_jobs(jobs, m)
        /\ leases' = next_leases(leases, m)
        /\ revision' = revision + 1
        /\ snapshot' = [snapshot EXCEPT ![c] = NoSnapshot]
    BY <1>5, <2>1, <2>2, SeenAtCommit DEF CommitTx
  <2>5. Apply(c, e)
    BY <2>2, <2>3, <2>4 DEF Apply, Commit
  <2> QED BY <2>2, <2>5 DEF Next
<1>6. CASE Rollback
  BY <1>6 DEF Rollback, TxView, Next
<1>7. CASE Crash
  BY <1>7 DEF Crash, Next
<1>8. CASE UNCHANGED sqlVars
  BY <1>8 DEF sqlVars, vars
<1> QED BY <1>1, <1>2, <1>3, <1>4, <1>5, <1>6, <1>7, <1>8 DEF SqlNext

-----------------------------------------------------------------------------
(* The inductive invariant of the backend.                                  *)
THEOREM TransactionView == SqlSpec => [](TypeOK /\ TxView)
<1>1. SqlInit => TypeOK /\ TxView
  BY BoundAssumption DEF SqlInit, Init, TypeOK, IsState, IsMap, EmptyMap, TxView
<1>2. TypeOK /\ TxView /\ [SqlNext]_sqlVars => (TypeOK /\ TxView)'
  BY StepSimulates, TypeStep, TxViewStep
<1> QED BY <1>1, <1>2, PTL DEF SqlSpec

(* SqliteStateStore::apply is atomic: row by row, with a failure or a crash *)
(* at any statement, the database moves as the abstract store does.         *)
THEOREM SqliteImplementsStateStore == SqlSpec => ImplementsStateStore
<1>1. SqlInit => Init
  BY DEF SqlInit
<1> QED BY <1>1, StepSimulates, TransactionView, PTL DEF SqlSpec, Spec, ImplementsStateStore

(* The schema's PRIMARY KEY and UNIQUE never refuse a lease that            *)
(* apply_mutation accepted.                                                 *)
THEOREM AcceptedRowsFit == SqlSpec => []NoConstraintFailure
<1>1. TxView => NoConstraintFailure
  <2> SUFFICES ASSUME TxView, tx # NoTx, NEW row \in tx.rows, Due(row), row.kind = "acquire"
               PROVE  /\ row.key \notin DOMAIN tx.leases
                      /\ \A g \in DOMAIN tx.leases :
                           tx.leases[g] # tx.m.acquire_leases[row.key]
    BY DEF NoConstraintFailure, InsertAllowed
  <2>1. PICK m, rows : m = tx.m /\ rows = tx.rows
    OBVIOUS
  <2>2. row = [kind |-> "acquire", key |-> row.key] /\ row.key \in DOMAIN m.acquire_leases
    BY <2>1, RowShape DEF TxView
  <2>3. Done(rows, "release", m.release_leases) = m.release_leases
    <3>1. Rank("release") = 3 /\ Rank("acquire") = 4
      BY DEF Rank
    <3>2. \A k : [kind |-> "release", key |-> k] \notin rows
      BY <2>1, <3>1 DEF Due
    <3> QED BY <3>2 DEF Done
  <2>4. row.key \notin Done(rows, "acquire", DOMAIN m.acquire_leases)
    BY <2>1, <2>2 DEF Done
  <2>5. tx.leases = Overlay(Without(leases, m.release_leases),
                            Only(m.acquire_leases, Done(rows, "acquire", DOMAIN m.acquire_leases)))
    BY <2>1, <2>3 DEF TxView, SeenLeases
  <2>6. AcquiresAccepted(next_jobs(jobs, m), Without(leases, m.release_leases), m)
    BY <2>1 DEF TxView, Accepts, AcceptsEntries
  <2>7. Done(rows, "acquire", DOMAIN m.acquire_leases) \subseteq DOMAIN m.acquire_leases
    BY DEF Done
  <2> QED BY <2>1, <2>2, <2>4, <2>5, <2>6, <2>7 DEF AcquiresAccepted, Overlay, Only
<1> QED BY <1>1, TransactionView, PTL

(* Whatever apply_mutation accepts, decode_state reads back.                *)
LEMMA AcceptedIsReadable ==
  ASSUME NEW js, NEW ls, NEW r, NEW m, IsMap(js, JobId, StoredJob), Decodes(js, ls),
         Accepts(js, ls, r, m)
  PROVE  Decodes(next_jobs(js, m), next_leases(ls, m))
<1> DEFINE ok(rec) == (rec.state = "QUEUED" <=> rec.revision = 0) /\ validate_execution(rec)
           base == Overlay(js, m.create_jobs)
<1>1. \A j \in DOMAIN base : ok(base[j]) /\ base[j].revision \in Nat
  BY DEF Overlay, IsMap, StoredJob, Decodes, Accepts, AcceptsEntries, CreatesAccepted
<1>2. \A j \in DOMAIN m.update_jobs : ok(m.update_jobs[j])
  <2> SUFFICES ASSUME NEW j \in DOMAIN m.update_jobs PROVE ok(m.update_jobs[j])
    OBVIOUS
  <2>1. j \in DOMAIN base /\ UpdateAccepted(base[j], m.update_jobs[j])
    BY DEF Accepts, AcceptsEntries, UpdatesAccepted
  <2>2. base[j].revision \in Nat
    BY <1>1, <2>1
  <2> HIDE DEF base
  <2>3. m.update_jobs[j].revision # 0 /\ validate_execution(m.update_jobs[j])
    BY <2>1, <2>2 DEF UpdateAccepted
  <2>4. m.update_jobs[j].state # "QUEUED"
    BY <2>1 DEF UpdateAccepted, can_transition, is_terminal, Terminal
  <2> QED BY <2>3, <2>4
<1>3. \A j \in DOMAIN next_jobs(js, m) : ok(next_jobs(js, m)[j])
  <2> HIDE DEF ok
  <2> QED BY <1>1, <1>2 DEF next_jobs, Overlay
<1> QED BY <1>3 DEF Decodes, Accepts

(* The daemon can always read its own database back: no sequence of         *)
(* accepted writes, failures and crashes commits a state load() refuses.    *)
THEOREM CommittedStateIsReadable == SqlSpec => []Readable
<1>1. SqlInit => Readable
  BY DEF SqlInit, Init, Readable, Decodes, EmptyMap, LeaseMatrixHolds
<1>2. TypeOK /\ TxView /\ Readable /\ [SqlNext]_sqlVars => Readable'
  <2> SUFFICES ASSUME TypeOK, TxView, Readable, [SqlNext]_sqlVars PROVE Readable'
    OBVIOUS
  <2>1. CASE UNCHANGED <<jobs, leases>>
    BY <2>1 DEF Readable
  <2>2. CASE ~UNCHANGED <<jobs, leases>>
    <3>1. PICK m : Accepts(jobs, leases, revision, m) /\ Commit(m)
      BY <2>2, StepSimulates, ChangeIsCommit
    <3>2. IsMap(jobs, JobId, StoredJob)
      BY DEF TypeOK, IsState
    <3> QED BY <3>1, <3>2, AcceptedIsReadable DEF Readable, Commit
  <2> QED BY <2>1, <2>2
<1> QED BY <1>1, <1>2, TransactionView, PTL DEF SqlSpec

=============================================================================
