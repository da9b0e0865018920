------------------------------ MODULE JobQueue ------------------------------
(***************************************************************************)
(* GlobalJobQueue (src/queue/job_queue.cpp): the server-wide FIFO index    *)
(* derived from the QUEUED jobs of the store, kept sorted by submit time   *)
(* and job id.  The operations are pure functions of the entry sequence.   *)
(***************************************************************************)
EXTENDS MutationCore, Sequences

CONSTANT QueueCapacity   \* QueueConfig::capacity

ASSUME JobIdAssumption == JobId \subseteq Nat

ASSUME CapacityAssumption == QueueCapacity \in Nat

QueueEntry == [job_id : JobId, submit_time : Nat]

entry_less(a, b) ==
  \/ a.submit_time < b.submit_time
  \/ a.submit_time = b.submit_time /\ a.job_id < b.job_id

contains(q, id) == \E i \in DOMAIN q : q[i].job_id = id

Entry(id, record) == [job_id |-> id, submit_time |-> record.spec.submit_time]

AdmitAccepted(q, id, record) ==
  /\ record.state = "QUEUED"
  /\ record.revision = 0
  /\ ~contains(q, id)
  /\ Len(q) < QueueCapacity

(* A mutated insertion that appends instead of keeping the order.           *)
Admitted_AtEnd(q, entry) == Append(q, entry)

(* std::lower_bound: the first entry that is not less.                      *)
lower_bound(q, entry) ==
  CHOOSE i \in 1 .. Len(q) + 1 :
    /\ \A k \in 1 .. i - 1 : entry_less(q[k], entry)
    /\ i <= Len(q) => ~entry_less(q[i], entry)

(* Insertion into the sorted entries.                                       *)
Admitted(q, entry) ==
  LET at == lower_bound(q, entry)
  IN  SubSeq(q, 1, at - 1) \o <<entry>> \o SubSeq(q, at, Len(q))

(* A mutated removal that takes the head, whatever the id.                  *)
Removed_Head(q, id) == IF contains(q, id) THEN Tail(q) ELSE q

(* std::find_if: the first entry of the job.                                *)
position(q, id) ==
  CHOOSE i \in DOMAIN q : q[i].job_id = id /\ \A k \in 1 .. i - 1 : q[k].job_id # id

Removed(q, id) ==
  IF contains(q, id)
  THEN SubSeq(q, 1, position(q, id) - 1) \o SubSeq(q, position(q, id) + 1, Len(q))
  ELSE q

Queued(jobs) == {j \in DOMAIN jobs : jobs[j].state = "QUEUED"}

(* A mutated restore that is off by one at the capacity.                    *)
RestoreAccepted_OffByOne(jobs, leases, revision) ==
  /\ revision = 0 => DOMAIN jobs = {} /\ DOMAIN leases = {}
  /\ \A j \in DOMAIN jobs : jobs[j].state = "QUEUED" <=> jobs[j].revision = 0
  /\ Cardinality(Queued(jobs)) < QueueCapacity

(* restore() refuses a snapshot whose records contradict themselves or that *)
(* holds more QUEUED jobs than the queue; the old entries stay then.        *)
RestoreAccepted(jobs, leases, revision) ==
  /\ revision = 0 => DOMAIN jobs = {} /\ DOMAIN leases = {}
  /\ \A j \in DOMAIN jobs : jobs[j].state = "QUEUED" <=> jobs[j].revision = 0
  /\ Cardinality(Queued(jobs)) <= QueueCapacity

(* The entries of the QUEUED jobs, each behind the lesser ones.             *)
Restored(jobs) ==
  LET entries   == {Entry(j, jobs[j]) : j \in Queued(jobs)}
      Before(e) == Cardinality({x \in entries : entry_less(x, e)})
  IN  [i \in 1 .. Cardinality(entries) |-> CHOOSE e \in entries : Before(e) = i - 1]

=============================================================================
