-------------------------- MODULE SqliteStateStore --------------------------
(***************************************************************************)
(* The SQLite backend of the state store (src/store/sqlite_state_store.cpp)*)
(* behind SerialStateStore's mutex.  The variables of StateStore are what  *)
(* the database holds committed; apply() changes it row by row inside a    *)
(* transaction that commits, fails or is cut off by a crash at any row.    *)
(*                                                                         *)
(* apply() decides with apply_mutation's in-memory result but writes the   *)
(* rows of the mutation, so that the two agree is a property, not a        *)
(* definition.                                                             *)
(***************************************************************************)
EXTENDS StateStore

CONSTANTS
  NoTx,      \* no transaction is open
  MaxInt64   \* the largest revision an SQLite INTEGER holds

ASSUME Int64Assumption == MaxInt64 \in Nat

VARIABLE tx  \* the open transaction: caller, mutation, rows to write, and its view

sqlVars == <<jobs, leases, revision, snapshot, tx>>

(* A mutated order of the statements: leases are inserted before the        *)
(* released ones are deleted.                                               *)
Rank_InsertFirst(kind) ==
  CASE kind = "create"  -> 1 [] kind = "update"  -> 2
    [] kind = "acquire" -> 3 [] kind = "release" -> 4
    [] kind = "revision" -> 5

(* The order of apply()'s statements.                                       *)
Rank(kind) ==
  CASE kind = "create"  -> 1 [] kind = "update"  -> 2
    [] kind = "release" -> 3 [] kind = "acquire" -> 4
    [] kind = "revision" -> 5

RowsOf(kind, keys) == {[kind |-> kind, key |-> k] : k \in keys}

(* The rows apply() writes for a mutation.                                  *)
Rows(m) ==
  RowsOf("create", DOMAIN m.create_jobs) \cup RowsOf("update", DOMAIN m.update_jobs)
    \cup RowsOf("release", m.release_leases) \cup RowsOf("acquire", DOMAIN m.acquire_leases)
    \cup RowsOf("revision", {0})

(* decode_state: what load() and apply() demand of the rows they read.      *)
Decodes(js, ls) ==
  /\ \A j \in DOMAIN js :
       /\ js[j].state = "QUEUED" <=> js[j].revision = 0
       /\ validate_execution(js[j])
  /\ LeaseMatrixHolds(js, ls)

SqlInit == Init /\ tx = NoTx

SqlLoad(c) ==
  /\ tx = NoTx
  /\ Decodes(jobs, leases)
  /\ Load(c)
  /\ UNCHANGED tx

(* apply() is called: the database is decoded, the mutation checked.        *)
Checked(m) ==
  /\ Decodes(jobs, leases)
  /\ Accepts(jobs, leases, revision, m)
  /\ revision < MaxInt64

Begin(c, e) ==
  LET m == Compose(snapshot[c], e) IN
  /\ tx = NoTx
  /\ snapshot[c] # NoSnapshot
  /\ DOMAIN e.update \subseteq DOMAIN snapshot[c].jobs
  /\ Checked(m)
  /\ tx' = [client |-> c, m |-> m, rows |-> Rows(m),
            jobs |-> jobs, leases |-> leases, revision |-> revision]
  /\ UNCHANGED vars

Refuse(c, e) ==
  /\ tx = NoTx
  /\ snapshot[c] # NoSnapshot
  /\ DOMAIN e.update \subseteq DOMAIN snapshot[c].jobs
  /\ ~Checked(Compose(snapshot[c], e))
  /\ Unavailable(c)
  /\ UNCHANGED tx

(* A statement is next when no statement of an earlier kind is left.        *)
Due(row) ==
  /\ row \in tx.rows
  /\ \A other \in tx.rows : Rank(row.kind) <= Rank(other.kind)

(* The table's PRIMARY KEY (gpu_uuid) and UNIQUE (job_id).                  *)
InsertAllowed(row) ==
  row.kind = "acquire" =>
    /\ row.key \notin DOMAIN tx.leases
    /\ \A g \in DOMAIN tx.leases : tx.leases[g] # tx.m.acquire_leases[row.key]

One(x, y) == [z \in {x} |-> y]

(* write_job_row: INSERT OR REPLACE of a job.                               *)
JobsAfter(js, m, row) ==
  CASE row.kind = "create" -> Overlay(js, One(row.key, m.create_jobs[row.key]))
    [] row.kind = "update" -> Overlay(js, One(row.key, m.update_jobs[row.key]))
    [] OTHER -> js

(* delete_lease_row and insert_lease_row.                                   *)
LeasesAfter(ls, m, row) ==
  CASE row.kind = "release" -> Without(ls, {row.key})
    [] row.kind = "acquire" -> Overlay(ls, One(row.key, m.acquire_leases[row.key]))
    [] OTHER -> ls

(* write_revision.                                                          *)
RevisionAfter(r, row) == IF row.kind = "revision" THEN r + 1 ELSE r

(* One statement of the transaction succeeds.                               *)
WriteRow(row) ==
  /\ tx # NoTx
  /\ Due(row)
  /\ InsertAllowed(row)
  /\ tx' = [tx EXCEPT !.rows     = @ \ {row},
                      !.jobs     = JobsAfter(@, tx.m, row),
                      !.leases   = LeasesAfter(@, tx.m, row),
                      !.revision = RevisionAfter(@, row)]
  /\ UNCHANGED vars

CommitTx ==
  /\ tx # NoTx
  /\ tx.rows = {}
  /\ jobs' = tx.jobs
  /\ leases' = tx.leases
  /\ revision' = tx.revision
  /\ snapshot' = [snapshot EXCEPT ![tx.client] = NoSnapshot]
  /\ tx' = NoTx

(* A mutated failure path that leaves what was written so far in place.     *)
Rollback_Forgotten ==
  /\ tx # NoTx
  /\ jobs' = tx.jobs
  /\ leases' = tx.leases
  /\ revision' = tx.revision
  /\ snapshot' = [snapshot EXCEPT ![tx.client] = NoSnapshot]
  /\ tx' = NoTx

(* Any statement, the COMMIT included, fails: ROLLBACK.                     *)
Rollback ==
  /\ tx # NoTx
  /\ Unavailable(tx.client)
  /\ tx' = NoTx

(* A crash drops the open transaction and the callers.                      *)
Crash == Restart /\ tx' = NoTx

SqlNext ==
  \/ \E c \in Client : SqlLoad(c)
  \/ \E c \in Client, e \in Edit : Begin(c, e)
  \/ \E c \in Client, e \in Edit : Refuse(c, e)
  \/ tx # NoTx /\ \E row \in tx.rows : WriteRow(row)
  \/ CommitTx
  \/ Rollback
  \/ Crash

SqlSpec == SqlInit /\ [][SqlNext]_sqlVars

-----------------------------------------------------------------------------
(* Properties.                                                              *)

(* The keys of one kind whose rows are written, when rows are left.         *)
Done(rows, kind, keys) == {k \in keys : [kind |-> kind, key |-> k] \notin rows}

Only(f, S) == [x \in S |-> f[x]]

(* The tables with the rows of m written, except those left.                *)
SeenJobs(js, m, rows) ==
  Overlay(Overlay(js, Only(m.create_jobs, Done(rows, "create", DOMAIN m.create_jobs))),
          Only(m.update_jobs, Done(rows, "update", DOMAIN m.update_jobs)))

SeenLeases(ls, m, rows) ==
  Overlay(Without(ls, Done(rows, "release", m.release_leases)),
          Only(m.acquire_leases, Done(rows, "acquire", DOMAIN m.acquire_leases)))

RevisionRow == [kind |-> "revision", key |-> 0]

(* Between BEGIN and COMMIT the transaction sees the committed state plus    *)
(* exactly the rows written so far, in statement order; nothing moves       *)
(* beneath it, so what apply_mutation accepted is still acceptable at the   *)
(* COMMIT, and its caller is still waiting for the answer.                  *)
TxView ==
  tx # NoTx =>
    /\ tx.client \in Client
    /\ tx.rows \subseteq Rows(tx.m)
    /\ \A row \in Rows(tx.m) \ tx.rows, other \in tx.rows :
         Rank(row.kind) <= Rank(other.kind)
    /\ snapshot[tx.client] # NoSnapshot
    /\ \E e \in Edit :
         /\ DOMAIN e.update \subseteq DOMAIN snapshot[tx.client].jobs
         /\ tx.m = Compose(snapshot[tx.client], e)
    /\ Accepts(jobs, leases, revision, tx.m)
    /\ tx = [client   |-> tx.client,
             m        |-> tx.m,
             rows     |-> tx.rows,
             jobs     |-> SeenJobs(jobs, tx.m, tx.rows),
             leases   |-> SeenLeases(leases, tx.m, tx.rows),
             revision |-> IF RevisionRow \in tx.rows THEN revision ELSE revision + 1]

(* What is committed can be read back: no accepted mutation stores a state  *)
(* that decode_state refuses, which would stop the daemon for good.         *)
Readable == Decodes(jobs, leases)

(* A mutation that apply_mutation accepts never trips over the schema's     *)
(* PRIMARY KEY or UNIQUE constraint, at no point of its statements.         *)
NoConstraintFailure == tx # NoTx => \A row \in tx.rows : Due(row) => InsertAllowed(row)

(* The transaction implements the atomic store: seen through what is        *)
(* committed, every apply() is one accepted mutation or nothing, whatever   *)
(* fails and wherever the daemon crashes.                                   *)
ImplementsStateStore == Spec

=============================================================================
