-------------------------- MODULE SchedulingProofs --------------------------
(***************************************************************************)
(* Machine-checked proofs about Scheduling, for any jobs, GPUs, placements *)
(* and observations, any queue capacity and any scan window.               *)
(***************************************************************************)
EXTENDS Scheduling, FiniteSetTheorems, WellFoundedInduction, TLAPS

-----------------------------------------------------------------------------
(* The inductive invariant.                                                 *)

(* The stored jobs are finitely many, their records say QUEUED exactly at   *)
(* revision 0, a lease belongs to an active job, and an untouched store is  *)
(* empty.                                                                   *)
Sound(s) ==
  /\ DOMAIN s.jobs \subseteq JobId /\ IsFiniteSet(DOMAIN s.jobs)
  /\ \A j \in DOMAIN s.jobs :
       /\ s.jobs[j].spec \in JobSpec /\ s.jobs[j].revision \in Nat
       /\ s.jobs[j].state = "QUEUED" <=> s.jobs[j].revision = 0
  /\ LeaseMatrixHolds(s.jobs, s.leases)
  /\ s.revision \in Nat
  /\ s.revision = 0 => DOMAIN s.jobs = {} /\ DOMAIN s.leases = {}

(* The queue is in submit order.                                            *)
Sorted(q) == \A i, k \in DOMAIN q : i < k => entry_less(q[i], q[k])

(* Its entries are the QUEUED jobs they name.                               *)
Mirrors(q, jobs) ==
  \A i \in DOMAIN q : /\ q[i].job_id \in Queued(jobs)
                      /\ q[i] = Entry(q[i].job_id, jobs[q[i].job_id])

Listing(q, jobs) == q \in Seq(QueueEntry) /\ Sorted(q) /\ Mirrors(q, jobs)

SchedInv ==
  /\ Sound(store)
  /\ Listing(queue, store.jobs) /\ Len(queue) <= QueueCapacity
  /\ observed \in Observation

(* The jobs in a queue.                                                     *)
Ids(q) == {q[i].job_id : i \in DOMAIN q}

-----------------------------------------------------------------------------
(* The order of the queue.                                                  *)

(* entry_less is a strict total order.                                      *)
LEMMA EntryOrder ==
  ASSUME NEW a \in QueueEntry, NEW b \in QueueEntry, NEW c \in QueueEntry
  PROVE  /\ ~entry_less(a, a)
         /\ entry_less(a, b) => ~entry_less(b, a)
         /\ entry_less(a, b) /\ entry_less(b, c) => entry_less(a, c)
         /\ a # b => entry_less(a, b) \/ entry_less(b, a)
<1>1. /\ a.submit_time \in Nat /\ b.submit_time \in Nat /\ c.submit_time \in Nat
      /\ a.job_id \in Nat /\ b.job_id \in Nat /\ c.job_id \in Nat
  BY JobIdAssumption, Zenon DEF QueueEntry
<1>2. a # b => a.submit_time # b.submit_time \/ a.job_id # b.job_id
  BY DEF QueueEntry
<1> QED BY <1>1, <1>2 DEF entry_less

(* Every set of naturals has a least element.                               *)
LEMMA LeastNatural ==
  ASSUME NEW T \in SUBSET Nat, T # {}
  PROVE  \E x \in T : \A y \in T : x <= y
<1>1. PICK R : R = OpToRel(<, Nat)
  BY Zenon
<1>2. IsWellFoundedOn(R, Nat)
  BY <1>1, NatLessThanWellFounded, Zenon
<1>3. \A x, y \in Nat : y < x => <<y, x>> \in R
  BY <1>1 DEF OpToRel
<1>4. PICK x \in T : \A y \in T : ~ (<<y, x>> \in R)
  BY <1>2, WFMin, Zenon
<1>5. \A y \in T : ~(y < x)
  BY <1>3, <1>4, Zenon
<1> QED BY <1>5

(* lower_bound finds a place.                                               *)
LEMMA LowerBound ==
  ASSUME NEW q \in Seq(QueueEntry), NEW e \in QueueEntry, NEW at, at = lower_bound(q, e)
  PROVE  /\ at \in 1 .. Len(q) + 1
         /\ \A k \in 1 .. at - 1 : entry_less(q[k], e)
         /\ at <= Len(q) => ~entry_less(q[at], e)
<1>1. PICK T : T = {i \in 1 .. Len(q) + 1 : i <= Len(q) => ~entry_less(q[i], e)}
  BY Zenon
<1>2. T \in SUBSET Nat /\ Len(q) + 1 \in T
  BY <1>1
<1>3. PICK x \in T : \A y \in T : x <= y
  BY <1>2, LeastNatural
<1>4. \A k \in 1 .. x - 1 : entry_less(q[k], e)
  BY <1>1, <1>3
<1>5. \E i \in 1 .. Len(q) + 1 : /\ \A k \in 1 .. i - 1 : entry_less(q[k], e)
                                 /\ i <= Len(q) => ~entry_less(q[i], e)
  BY <1>1, <1>3, <1>4
<1> QED BY <1>5, Zenon DEF lower_bound

(* A piece of a sequence.                                                   *)
LEMMA Cut ==
  ASSUME NEW S, NEW q \in Seq(S), NEW m \in 1 .. Len(q) + 1, NEW n \in 0 .. Len(q), m <= n + 1,
         NEW s, s = SubSeq(q, m, n)
  PROVE  /\ s \in Seq(S) /\ Len(s) = n - m + 1
         /\ \A i \in 1 .. n - m + 1 : s[i] = q[m + i - 1]
OBVIOUS

(* Two sequences, one behind the other.                                     *)
LEMMA Joined ==
  ASSUME NEW S, NEW a \in Seq(S), NEW b \in Seq(S), NEW s, s = a \o b
  PROVE  /\ s \in Seq(S) /\ Len(s) = Len(a) + Len(b)
         /\ \A i \in 1 .. Len(s) : s[i] = IF i <= Len(a) THEN a[i] ELSE b[i - Len(a)]
OBVIOUS

(* r is q with e inserted at the place at.                                  *)
InsertedAt(q, e, r, at) ==
  /\ at \in 1 .. Len(q) + 1
  /\ \A k \in 1 .. at - 1 : entry_less(q[k], e)
  /\ at <= Len(q) => ~entry_less(q[at], e)
  /\ \A i \in 1 .. Len(q) + 1 :
       r[i] = IF i < at THEN q[i] ELSE IF i = at THEN e ELSE q[i - 1]

(* r is q without its entry for id, which stood at the place at.            *)
DroppedAt(q, id, r, at) ==
  /\ at \in 1 .. Len(q) /\ q[at].job_id = id
  /\ \A i \in 1 .. Len(q) - 1 : r[i] = IF i < at THEN q[i] ELSE q[i + 1]

(* What admit makes of a queue, entry by entry.                             *)
LEMMA AdmittedEntries ==
  ASSUME NEW q \in Seq(QueueEntry), NEW e \in QueueEntry, NEW r, r = Admitted(q, e)
  PROVE  /\ r \in Seq(QueueEntry) /\ Len(r) = Len(q) + 1
         /\ \E at : InsertedAt(q, e, r, at)
<1>1. PICK at : at = lower_bound(q, e)
  OBVIOUS
<1>2. /\ at \in 1 .. Len(q) + 1
      /\ \A k \in 1 .. at - 1 : entry_less(q[k], e)
      /\ at <= Len(q) => ~entry_less(q[at], e)
  BY <1>1, LowerBound
<1>3. r = SubSeq(q, 1, at - 1) \o <<e>> \o SubSeq(q, at, Len(q))
  BY <1>1 DEF Admitted
<1>4. PICK a, b, c, d : /\ a = SubSeq(q, 1, at - 1) /\ b = <<e>>
                       /\ c = a \o b /\ d = SubSeq(q, at, Len(q))
  BY Zenon
<1>5. Len(q) \in Nat /\ at - 1 \in 0 .. Len(q) /\ 1 \in 1 .. Len(q) + 1 /\ Len(q) \in 0 .. Len(q)
  BY <1>2
<1>6. /\ a \in Seq(QueueEntry) /\ Len(a) = at - 1
      /\ \A i \in 1 .. at - 1 : a[i] = q[i]
  BY <1>2, <1>4, <1>5, Cut
<1>7. b \in Seq(QueueEntry) /\ Len(b) = 1 /\ b[1] = e
  BY <1>4
<1>8. /\ c \in Seq(QueueEntry) /\ Len(c) = at
      /\ \A i \in 1 .. at : c[i] = IF i < at THEN q[i] ELSE e
  <2>1. /\ c \in Seq(QueueEntry) /\ Len(c) = Len(a) + Len(b)
        /\ \A i \in 1 .. Len(c) : c[i] = IF i <= Len(a) THEN a[i] ELSE b[i - Len(a)]
    BY <1>4, <1>6, <1>7, Joined
  <2> QED BY <2>1, <1>2, <1>6, <1>7
<1>9. /\ d \in Seq(QueueEntry) /\ Len(d) = Len(q) - at + 1
      /\ \A i \in 1 .. Len(q) - at + 1 : d[i] = q[at + i - 1]
  BY <1>2, <1>4, <1>5, Cut
<1>10. /\ r \in Seq(QueueEntry) /\ Len(r) = Len(q) + 1
       /\ \A i \in 1 .. Len(r) : r[i] = IF i < at THEN q[i] ELSE IF i = at THEN e ELSE q[i - 1]
  <2>1. /\ r \in Seq(QueueEntry) /\ Len(r) = Len(c) + Len(d)
        /\ \A i \in 1 .. Len(r) : r[i] = IF i <= Len(c) THEN c[i] ELSE d[i - Len(c)]
    <3>1. r = c \o d
      BY <1>3, <1>4, Zenon
    <3>2. c \in Seq(QueueEntry) /\ d \in Seq(QueueEntry)
      BY <1>8, <1>9, Zenon
    <3> QED BY <3>1, <3>2, Joined
  <2>2. Len(r) = Len(q) + 1
    BY <2>1, <1>2, <1>5, <1>8, <1>9
  <2>3. ASSUME NEW i \in 1 .. Len(r), i > at PROVE r[i] = q[i - 1]
    <3>1. r[i] = d[i - at]
      BY <2>1, <2>3, <1>2, <1>8
    <3>2. i - at \in 1 .. Len(q) - at + 1 /\ at + (i - at) - 1 = i - 1
      BY <2>2, <2>3, <1>2, <1>5
    <3> QED BY <3>1, <3>2, <1>9
  <2>4. ASSUME NEW i \in 1 .. Len(r), i <= at PROVE r[i] = IF i < at THEN q[i] ELSE e
    BY <2>1, <2>4, <1>2, <1>8
  <2> QED BY <2>1, <2>2, <2>3, <2>4, <1>2
<1> QED BY <1>2, <1>10, Zenon DEF InsertedAt

(* What remove makes of one.                                                *)
LEMMA RemovedEntries ==
  ASSUME NEW q \in Seq(QueueEntry), NEW id, contains(q, id), NEW r, r = Removed(q, id)
  PROVE  /\ r \in Seq(QueueEntry) /\ Len(r) = Len(q) - 1
         /\ \E at : DroppedAt(q, id, r, at)
<1>1. PICK T : T = {i \in DOMAIN q : q[i].job_id = id}
  BY Zenon
<1>2. T \in SUBSET Nat /\ T # {} /\ DOMAIN q = 1 .. Len(q)
  BY <1>1 DEF contains
<1>3. PICK x \in T : \A y \in T : x <= y
  BY <1>2, LeastNatural
<1>4. \E i \in DOMAIN q : q[i].job_id = id /\ \A k \in 1 .. i - 1 : q[k].job_id # id
  BY <1>1, <1>2, <1>3
<1>5. PICK at : at = position(q, id)
  OBVIOUS
<1>6. at \in 1 .. Len(q) /\ q[at].job_id = id
  BY <1>2, <1>4, <1>5 DEF position
<1>7. r = SubSeq(q, 1, at - 1) \o SubSeq(q, at + 1, Len(q))
  BY <1>5, Zenon DEF Removed
<1>8. PICK a, b : a = SubSeq(q, 1, at - 1) /\ b = SubSeq(q, at + 1, Len(q))
  BY Zenon
<1>9. /\ Len(q) \in Nat /\ at - 1 \in 0 .. Len(q) /\ 1 \in 1 .. Len(q) + 1
      /\ Len(q) \in 0 .. Len(q) /\ at + 1 \in 1 .. Len(q) + 1
  BY <1>6
<1>10. /\ a \in Seq(QueueEntry) /\ Len(a) = at - 1
       /\ \A i \in 1 .. at - 1 : a[i] = q[i]
  BY <1>6, <1>8, <1>9, Cut
<1>11. /\ b \in Seq(QueueEntry) /\ Len(b) = Len(q) - at
       /\ \A i \in 1 .. Len(q) - at : b[i] = q[at + i]
  <2>1. /\ b \in Seq(QueueEntry) /\ Len(b) = Len(q) - (at + 1) + 1
        /\ \A i \in 1 .. Len(q) - (at + 1) + 1 : b[i] = q[at + 1 + i - 1]
    BY <1>6, <1>8, <1>9, Cut
  <2> QED BY <2>1, <1>6, <1>9
<1>12. /\ r \in Seq(QueueEntry) /\ Len(r) = Len(q) - 1
       /\ \A i \in 1 .. Len(r) : r[i] = IF i < at THEN q[i] ELSE q[i + 1]
  <2>1. /\ r \in Seq(QueueEntry) /\ Len(r) = Len(a) + Len(b)
        /\ \A i \in 1 .. Len(r) : r[i] = IF i <= Len(a) THEN a[i] ELSE b[i - Len(a)]
    BY <1>7, <1>8, <1>10, <1>11, Joined
  <2> QED BY <2>1, <1>6, <1>9, <1>10, <1>11
<1> QED BY <1>6, <1>12, Zenon DEF DroppedAt

-----------------------------------------------------------------------------
(* The queue as a listing of the store.                                     *)

(* A listing names no job twice.                                            *)
LEMMA Distinct ==
  ASSUME NEW jobs, NEW q, Listing(q, jobs), NEW i \in DOMAIN q, NEW k \in DOMAIN q,
         q[i].job_id = q[k].job_id
  PROVE  i = k
<1>1. q[i] = q[k]
  BY DEF Listing, Mirrors
<1>2. q[i] \in QueueEntry /\ q[k] \in QueueEntry /\ i \in Nat /\ k \in Nat
  BY DEF Listing
<1>3. ~entry_less(q[i], q[k]) /\ ~entry_less(q[k], q[i])
  BY <1>1, <1>2, EntryOrder
<1> QED BY <1>2, <1>3 DEF Listing, Sorted

(* The entry of a stored job.                                               *)
LEMMA EntryType ==
  ASSUME NEW s, Sound(s), NEW j \in DOMAIN s.jobs
  PROVE  /\ Entry(j, s.jobs[j]) \in QueueEntry
         /\ Entry(j, s.jobs[j]).job_id = j
<1>1. s.jobs[j].spec.submit_time \in Nat /\ j \in JobId
  BY SpecAssumption DEF Sound
<1> QED BY <1>1 DEF Entry, QueueEntry

(* Admission adds one job and keeps the order.                              *)
LEMMA AdmittedListing ==
  ASSUME NEW jobs, NEW q, Listing(q, jobs), NEW e \in QueueEntry, NEW r, r = Admitted(q, e),
         e.job_id \in Queued(jobs), e = Entry(e.job_id, jobs[e.job_id]), e.job_id \notin Ids(q)
  PROVE  /\ Listing(r, jobs) /\ Len(r) = Len(q) + 1
         /\ Ids(r) = Ids(q) \cup {e.job_id}
<1>0. q \in Seq(QueueEntry) /\ Len(q) \in Nat /\ DOMAIN q = 1 .. Len(q)
  BY DEF Listing
<1>1. r \in Seq(QueueEntry) /\ Len(r) = Len(q) + 1 /\ \E at : InsertedAt(q, e, r, at)
  BY <1>0, AdmittedEntries, Zenon
<1>2. PICK at : InsertedAt(q, e, r, at)
  BY <1>1, Zenon
<1>a. DOMAIN r = 1 .. Len(q) + 1 /\ at \in 1 .. Len(q) + 1
  BY <1>1, <1>2 DEF InsertedAt
<1>3. \A i \in 1 .. Len(q) + 1 :
        /\ i < at => i \in DOMAIN q /\ r[i] = q[i]
        /\ i = at => r[i] = e
        /\ i > at => i - 1 \in DOMAIN q /\ r[i] = q[i - 1]
  BY <1>0, <1>a, <1>2 DEF InsertedAt
<1>4. Mirrors(r, jobs)
  BY <1>a, <1>3 DEF Mirrors, Listing
<1>5. \A k \in DOMAIN q : q[k].job_id # e.job_id /\ q[k] \in QueueEntry
  BY <1>0 DEF Ids
<1>6. \A k \in DOMAIN q : k >= at => entry_less(e, q[k])
  <2> SUFFICES ASSUME NEW k \in DOMAIN q, k >= at PROVE entry_less(e, q[k])
    OBVIOUS
  <2>1. at \in DOMAIN q /\ q[at] # e /\ ~entry_less(q[at], e) /\ q[at] \in QueueEntry
    BY <1>0, <1>a, <1>2, <1>5 DEF InsertedAt
  <2>2. entry_less(e, q[at])
    BY <2>1, EntryOrder
  <2>3. k # at => entry_less(q[at], q[k])
    BY <1>0, <1>a, <2>1 DEF Listing, Sorted
  <2> QED BY <1>5, <2>1, <2>2, <2>3, EntryOrder
<1>7. Sorted(r)
  <2> SUFFICES ASSUME NEW i \in DOMAIN r, NEW k \in DOMAIN r, i < k PROVE entry_less(r[i], r[k])
    BY DEF Sorted
  <2>0. /\ i \in 1 .. Len(q) + 1 /\ k \in 1 .. Len(q) + 1
        /\ \A x, y \in DOMAIN q : x < y => entry_less(q[x], q[y])
    BY <1>a DEF Listing, Sorted
  <2>1. CASE k < at
    BY <2>0, <2>1, <1>0, <1>a, <1>3
  <2>2. CASE k = at
    <3>1. i \in 1 .. at - 1 /\ r[i] = q[i] /\ r[k] = e
      BY <2>0, <2>2, <1>0, <1>a, <1>3
    <3> QED BY <3>1, <1>2 DEF InsertedAt
  <2>3. CASE k > at /\ i < at
    <3>1. /\ r[i] = q[i] /\ r[k] = q[k - 1] /\ i \in DOMAIN q /\ k - 1 \in DOMAIN q /\ i < k - 1
      BY <2>0, <2>3, <1>0, <1>a, <1>3
    <3> QED BY <3>1, <2>0
  <2>4. CASE k > at /\ i = at
    <3>1. r[i] = e /\ r[k] = q[k - 1] /\ k - 1 \in DOMAIN q /\ k - 1 >= at
      BY <2>0, <2>4, <1>0, <1>a, <1>3
    <3> QED BY <3>1, <1>6
  <2>5. CASE k > at /\ i > at
    <3>1. /\ r[i] = q[i - 1] /\ r[k] = q[k - 1]
          /\ i - 1 \in DOMAIN q /\ k - 1 \in DOMAIN q /\ i - 1 < k - 1
      BY <2>0, <2>5, <1>0, <1>a, <1>3
    <3> QED BY <3>1, <2>0
  <2> QED BY <2>0, <2>1, <2>2, <2>3, <2>4, <2>5, <1>a
<1>8. Ids(r) = Ids(q) \cup {e.job_id}
  <2>1. \A i \in DOMAIN r : r[i].job_id \in Ids(q) \cup {e.job_id}
    BY <1>a, <1>3 DEF Ids
  <2>2. r[at].job_id = e.job_id /\ at \in DOMAIN r
    BY <1>a, <1>3
  <2>3. ASSUME NEW k \in DOMAIN q PROVE \E i \in DOMAIN r : r[i] = q[k]
    <3>1. CASE k < at
      BY <3>1, <1>0, <1>a, <1>3
    <3>2. CASE k >= at
      <4>1. k + 1 \in 1 .. Len(q) + 1 /\ k + 1 > at /\ (k + 1) - 1 = k
        BY <3>2, <1>0, <1>a
      <4> QED BY <4>1, <1>a, <1>3
    <3> QED BY <3>1, <3>2, <1>0, <1>a
  <2> QED BY <2>1, <2>2, <2>3 DEF Ids
<1> QED BY <1>1, <1>4, <1>7, <1>8 DEF Listing

(* Removal takes the job out and keeps the order.                           *)
LEMMA RemovedListing ==
  ASSUME NEW jobs, NEW q, Listing(q, jobs), NEW id, NEW r, r = Removed(q, id)
  PROVE  /\ Listing(r, jobs)
         /\ Ids(r) = Ids(q) \ {id}
         /\ id \in Ids(q) => Len(r) = Len(q) - 1
         /\ id \notin Ids(q) => r = q
<1>0. /\ q \in Seq(QueueEntry) /\ Len(q) \in Nat /\ DOMAIN q = 1 .. Len(q)
      /\ contains(q, id) <=> id \in Ids(q)
  BY DEF Listing, contains, Ids
<1>1. CASE ~contains(q, id)
  BY <1>0, <1>1, Zenon DEF Removed
<1>2. CASE contains(q, id)
  <2>1. r \in Seq(QueueEntry) /\ Len(r) = Len(q) - 1 /\ \E at : DroppedAt(q, id, r, at)
    BY <1>0, <1>2, RemovedEntries, Zenon
  <2>2. PICK at : DroppedAt(q, id, r, at)
    BY <2>1, Zenon
  <2>3. /\ DOMAIN r = 1 .. Len(q) - 1 /\ at \in 1 .. Len(q) /\ at \in DOMAIN q
        /\ q[at].job_id = id
    BY <1>0, <2>1, <2>2 DEF DroppedAt
  <2>4. \A i \in DOMAIN r :
          /\ i < at => i \in DOMAIN q /\ r[i] = q[i]
          /\ i >= at => i + 1 \in DOMAIN q /\ r[i] = q[i + 1]
    BY <2>2, <2>3, <1>0 DEF DroppedAt
  <2>5. Mirrors(r, jobs)
    BY <2>3, <2>4 DEF Listing, Mirrors
  <2>6. Sorted(r)
    <3> SUFFICES ASSUME NEW i \in DOMAIN r, NEW k \in DOMAIN r, i < k PROVE entry_less(r[i], r[k])
      BY DEF Sorted
    <3>0. \A x, y \in DOMAIN q : x < y => entry_less(q[x], q[y])
      BY DEF Listing, Sorted
    <3>1. \E x, y \in DOMAIN q : x < y /\ r[i] = q[x] /\ r[k] = q[y]
      <4>1. CASE k < at
        BY <4>1, <1>0, <2>3, <2>4
      <4>2. CASE k >= at /\ i < at
        BY <4>2, <1>0, <2>3, <2>4
      <4>3. CASE i >= at
        <5>1. i + 1 \in DOMAIN q /\ k + 1 \in DOMAIN q /\ i + 1 < k + 1
              /\ r[i] = q[i + 1] /\ r[k] = q[k + 1]
          BY <4>3, <1>0, <2>3, <2>4
        <5> QED BY <5>1
      <4> QED BY <4>1, <4>2, <4>3, <1>0, <2>3
    <3> QED BY <3>0, <3>1
  <2>7. \A k \in DOMAIN q : q[k].job_id = id => k = at
    BY <1>0, <2>3, Distinct
  <2>8. ASSUME NEW i \in DOMAIN r PROVE r[i].job_id \in Ids(q) /\ r[i].job_id # id
    <3>1. CASE i < at
      BY <3>1, <2>3, <2>4, <2>7 DEF Ids
    <3>2. CASE i >= at
      <4>1. i + 1 # at /\ i + 1 \in DOMAIN q /\ r[i] = q[i + 1]
        BY <3>2, <2>3, <2>4
      <4> QED BY <4>1, <2>7 DEF Ids
    <3> QED BY <3>1, <3>2, <2>3
  <2>9. ASSUME NEW k \in DOMAIN q, q[k].job_id # id PROVE \E i \in DOMAIN r : r[i] = q[k]
    <3>0. k # at
      BY <2>3, <2>9
    <3>1. CASE k < at
      BY <3>1, <1>0, <2>3, <2>4
    <3>2. CASE k > at
      <4>1. k - 1 \in DOMAIN r /\ k - 1 >= at /\ (k - 1) + 1 = k
        BY <3>2, <1>0, <2>3
      <4> QED BY <4>1, <2>4
    <3> QED BY <3>0, <3>1, <3>2, <1>0, <2>3
  <2>10. Ids(r) = Ids(q) \ {id}
    BY <2>8, <2>9 DEF Ids
  <2> QED BY <1>0, <1>2, <2>1, <2>5, <2>6, <2>10 DEF Listing
<1> QED BY <1>1, <1>2

(* A job removed and admitted again is back in its place.                   *)
LEMMA Readmitted ==
  ASSUME NEW s, Sound(s), NEW q, Listing(q, s.jobs), NEW id \in Ids(q), NEW r,
         r = Admitted(Removed(q, id), Entry(id, s.jobs[id]))
  PROVE  Listing(r, s.jobs) /\ Len(r) = Len(q) /\ Ids(r) = Ids(q)
<1>1. PICK w, e : w = Removed(q, id) /\ e = Entry(id, s.jobs[id])
  OBVIOUS
<1>2. Listing(w, s.jobs) /\ Ids(w) = Ids(q) \ {id} /\ Len(w) = Len(q) - 1
  BY <1>1, RemovedListing
<1>3. id \in Queued(s.jobs) /\ id \in DOMAIN s.jobs /\ Len(q) \in Nat
  BY DEF Listing, Mirrors, Ids, Queued
<1>4. e \in QueueEntry /\ e.job_id = id
  BY <1>1, <1>3, EntryType
<1>5. /\ e.job_id \in Queued(s.jobs) /\ e = Entry(e.job_id, s.jobs[e.job_id])
      /\ e.job_id \notin Ids(w) /\ r = Admitted(w, e)
  BY <1>1, <1>2, <1>3, <1>4
<1>6. Listing(r, s.jobs) /\ Len(r) = Len(w) + 1 /\ Ids(r) = Ids(w) \cup {e.job_id}
  BY <1>2, <1>4, <1>5, AdmittedListing
<1> QED BY <1>2, <1>3, <1>4, <1>6

(* A listing is as long as the set of its jobs is large.                    *)
LEMMA Counted ==
  ASSUME NEW jobs, NEW q, Listing(q, jobs)
  PROVE  IsFiniteSet(Ids(q)) /\ Cardinality(Ids(q)) = Len(q) /\ Ids(q) \subseteq Queued(jobs)
<1>1. q \in Seq(QueueEntry) /\ Len(q) \in Nat /\ DOMAIN q = 1 .. Len(q)
  BY DEF Listing
<1>2. IsFiniteSet(1 .. Len(q)) /\ Cardinality(1 .. Len(q)) = Len(q)
  BY <1>1, FS_Interval
<1>3. PICK f : f = [i \in 1 .. Len(q) |-> q[i].job_id]
  BY Zenon
<1>4. f \in Bijection(1 .. Len(q), Ids(q))
  BY <1>1, <1>3, Distinct DEF Bijection, Injection, Surjection, IsInjective, Ids
<1>5. ExistsBijection(1 .. Len(q), Ids(q))
  BY <1>4 DEF ExistsBijection
<1>6. Ids(q) \subseteq Queued(jobs)
  BY DEF Listing, Mirrors, Ids
<1> QED BY <1>2, <1>5, <1>6, FS_Bijection

(* The queue diverges from the store exactly when it misses a QUEUED job.   *)
LEMMA DivergedMeansMissing ==
  ASSUME NEW s, Sound(s), NEW q, Listing(q, s.jobs)
  PROVE  Diverged(q, s.jobs) <=> Ids(q) # Queued(s.jobs)
<1>1. IsFiniteSet(Queued(s.jobs))
  <2>1. Queued(s.jobs) \in SUBSET DOMAIN s.jobs /\ IsFiniteSet(DOMAIN s.jobs)
    BY DEF Queued, Sound
  <2> QED BY <2>1, FS_Subset
<1>2. Cardinality(Ids(q)) = Len(q) /\ Ids(q) \in SUBSET Queued(s.jobs)
  BY Counted
<1>3. Cardinality(Queued(s.jobs)) = Len(q) <=> Ids(q) = Queued(s.jobs)
  BY <1>1, <1>2, FS_Subset
<1>4. \A i \in DOMAIN q : /\ q[i].job_id \in Queued(s.jobs)
                          /\ s.jobs[q[i].job_id].spec.submit_time = q[i].submit_time
                          /\ s.jobs[q[i].job_id].revision = 0
  BY DEF Listing, Mirrors, Queued, Sound, Entry
<1> QED BY <1>3, <1>4 DEF Diverged

-----------------------------------------------------------------------------
(* The queue rebuilt from the store.                                        *)

(* The number of elements of E before e.                                    *)
RankIn(E, e) == Cardinality({x \in E : entry_less(x, e)})

(* The ranks of n entries are 0 to n - 1, in the order of the entries.      *)
LEMMA Ranks ==
  ASSUME NEW E \in SUBSET QueueEntry, IsFiniteSet(E)
  PROVE  /\ \A e \in E : RankIn(E, e) \in 0 .. Cardinality(E) - 1
         /\ \A e, f \in E : entry_less(e, f) => RankIn(E, e) < RankIn(E, f)
         /\ \A n \in 0 .. Cardinality(E) - 1 : \E e \in E : RankIn(E, e) = n
<1>0. Cardinality(E) \in Nat
  BY FS_CardinalityType
<1>1. ASSUME NEW e \in E
      PROVE  RankIn(E, e) \in 0 .. Cardinality(E) - 1
  <2>1. PICK B : B = {x \in E : entry_less(x, e)}
    BY Zenon
  <2>2. B \in SUBSET E /\ e \notin B
    BY <2>1, EntryOrder
  <2>3. IsFiniteSet(B) /\ Cardinality(B) <= Cardinality(E) /\ Cardinality(B) # Cardinality(E)
    BY <2>2, FS_Subset
  <2>4. Cardinality(B) \in Nat
    BY <2>3, FS_CardinalityType
  <2> QED BY <1>0, <2>1, <2>3, <2>4 DEF RankIn
<1>2. ASSUME NEW e \in E, NEW f \in E, entry_less(e, f)
      PROVE  RankIn(E, e) < RankIn(E, f)
  <2>1. PICK A, B : A = {x \in E : entry_less(x, e)} /\ B = {x \in E : entry_less(x, f)}
    BY Zenon
  <2>2. A \in SUBSET B /\ e \in B /\ e \notin A /\ B \in SUBSET E
    BY <1>2, <2>1, EntryOrder
  <2>3. IsFiniteSet(B)
    BY <2>2, FS_Subset
  <2>4. IsFiniteSet(A) /\ Cardinality(A) <= Cardinality(B) /\ Cardinality(A) # Cardinality(B)
    BY <2>2, <2>3, FS_Subset
  <2>5. Cardinality(A) \in Nat /\ Cardinality(B) \in Nat
    BY <2>3, <2>4, FS_CardinalityType
  <2> QED BY <2>1, <2>4, <2>5 DEF RankIn
<1>3. PICK r : r = [e \in E |-> RankIn(E, e)]
  BY Zenon
<1>4. r \in [E -> 0 .. Cardinality(E) - 1]
  BY <1>1, <1>3
<1>5. \A e, f \in E : r[e] = r[f] => e = f
  <2> SUFFICES ASSUME NEW e \in E, NEW f \in E, e # f PROVE r[e] # r[f]
    BY Zenon
  <2>1. entry_less(e, f) \/ entry_less(f, e)
    BY EntryOrder
  <2>2. r[e] \in Nat /\ r[f] \in Nat /\ r[e] = RankIn(E, e) /\ r[f] = RankIn(E, f)
    BY <1>0, <1>3, <1>4
  <2> QED BY <1>2, <2>1, <2>2
<1>6. r \in Injection(E, 0 .. Cardinality(E) - 1)
  BY <1>4, <1>5 DEF Injection, IsInjective
<1>7. /\ IsFiniteSet(0 .. Cardinality(E) - 1)
      /\ Cardinality(0 .. Cardinality(E) - 1) = Cardinality(E)
  BY <1>0, FS_Interval
<1>8. r \in Surjection(E, 0 .. Cardinality(E) - 1)
  BY <1>6, <1>7, FS_Injection
<1>9. \A n \in 0 .. Cardinality(E) - 1 : \E e \in E : RankIn(E, e) = n
  BY <1>3, <1>8 DEF Surjection
<1> QED BY <1>1, <1>2, <1>9

(* restore lists every QUEUED job, in submit order.                         *)
LEMMA RestoredListing ==
  ASSUME NEW s, Sound(s), NEW q, q = Restored(s.jobs)
  PROVE  /\ Listing(q, s.jobs)
         /\ Ids(q) = Queued(s.jobs)
         /\ Len(q) = Cardinality(Queued(s.jobs))
<1>1. PICK E : E = {Entry(j, s.jobs[j]) : j \in Queued(s.jobs)}
  BY Zenon
<1>2. IsFiniteSet(Queued(s.jobs))
  <2>1. Queued(s.jobs) \in SUBSET DOMAIN s.jobs /\ IsFiniteSet(DOMAIN s.jobs)
    BY DEF Queued, Sound
  <2> QED BY <2>1, FS_Subset
<1>3. \A j \in Queued(s.jobs) :
        Entry(j, s.jobs[j]) \in QueueEntry /\ Entry(j, s.jobs[j]).job_id = j
  BY EntryType DEF Queued
<1>4. /\ E \in SUBSET QueueEntry
      /\ \A e \in E : /\ e.job_id \in Queued(s.jobs)
                      /\ e = Entry(e.job_id, s.jobs[e.job_id])
  BY <1>1, <1>3
<1>5. IsFiniteSet(E) /\ Cardinality(E) = Cardinality(Queued(s.jobs))
  <2>1. PICK f : f = [j \in Queued(s.jobs) |-> Entry(j, s.jobs[j])]
    BY Zenon
  <2>2. \A j \in Queued(s.jobs) : f[j] \in E /\ f[j].job_id = j
    BY <1>1, <1>3, <2>1
  <2>3. f \in Bijection(Queued(s.jobs), E)
    BY <1>1, <2>1, <2>2 DEF Bijection, Injection, Surjection, IsInjective
  <2>4. ExistsBijection(Queued(s.jobs), E)
    BY <2>3 DEF ExistsBijection
  <2> QED BY <1>2, <2>4, FS_Bijection
<1>6. Cardinality(E) \in Nat
  BY <1>5, FS_CardinalityType
<1>7. q = [i \in 1 .. Cardinality(E) |-> CHOOSE e \in E : RankIn(E, e) = i - 1]
  <2>1. Restored(s.jobs) =
          LET entries == {Entry(j, s.jobs[j]) : j \in Queued(s.jobs)}
          IN  [i \in 1 .. Cardinality(entries) |->
                 CHOOSE e \in entries : RankIn(entries, e) = i - 1]
    BY DEF Restored, RankIn
  <2> QED BY <1>1, <2>1
<1>8. ASSUME NEW i \in 1 .. Cardinality(E) PROVE q[i] \in E /\ RankIn(E, q[i]) = i - 1
  <2>1. i - 1 \in 0 .. Cardinality(E) - 1
    BY <1>6
  <2>2. \E e \in E : RankIn(E, e) = i - 1
    BY <2>1, <1>4, <1>5, Ranks
  <2>3. q[i] = CHOOSE e \in E : RankIn(E, e) = i - 1
    BY <1>7
  <2> QED BY <2>2, <2>3
<1>9. q \in Seq(QueueEntry) /\ Len(q) = Cardinality(E) /\ DOMAIN q = 1 .. Cardinality(E)
  <2>1. q \in [1 .. Cardinality(E) -> QueueEntry]
    BY <1>4, <1>7, <1>8
  <2> QED BY <2>1, <1>6
<1>10. Sorted(q)
  <2> SUFFICES ASSUME NEW i \in DOMAIN q, NEW k \in DOMAIN q, i < k
               PROVE  entry_less(q[i], q[k])
    BY DEF Sorted
  <2>1. /\ q[i] \in E /\ q[k] \in E /\ RankIn(E, q[i]) = i - 1 /\ RankIn(E, q[k]) = k - 1
        /\ i \in Nat /\ k \in Nat /\ q[i] \in QueueEntry /\ q[k] \in QueueEntry
    BY <1>4, <1>8, <1>9
  <2>2. q[i] # q[k] /\ ~(RankIn(E, q[k]) < RankIn(E, q[i]))
    BY <2>1
  <2>3. ~entry_less(q[k], q[i])
    BY <2>1, <2>2, <1>4, <1>5, Ranks
  <2> QED BY <2>1, <2>2, <2>3, EntryOrder
<1>11. Mirrors(q, s.jobs)
  BY <1>4, <1>8, <1>9 DEF Mirrors
<1>12. Listing(q, s.jobs)
  BY <1>9, <1>10, <1>11 DEF Listing
<1>13. Ids(q) = Queued(s.jobs)
  <2>1. Cardinality(Ids(q)) = Cardinality(Queued(s.jobs)) /\ Ids(q) \in SUBSET Queued(s.jobs)
    BY <1>5, <1>9, <1>12, Counted
  <2> QED BY <1>2, <2>1, FS_Subset
<1> QED BY <1>5, <1>9, <1>12, <1>13

-----------------------------------------------------------------------------
(* What a write does to the QUEUED jobs.                                    *)

(* The mutations the handlers compose either create jobs or update them.    *)
Composed(m) ==
  /\ DOMAIN m.create_jobs \subseteq JobId /\ IsFiniteSet(DOMAIN m.create_jobs)
  /\ \A j \in DOMAIN m.create_jobs : m.create_jobs[j].spec \in JobSpec
  /\ DOMAIN m.create_jobs = {} \/ DOMAIN m.update_jobs = {}

(* The jobs of s after the mutation m are those of t.                       *)
WroteJobs(s, m, t) ==
  /\ DOMAIN t.jobs = DOMAIN s.jobs \cup DOMAIN m.create_jobs
  /\ DOMAIN s.jobs \cap DOMAIN m.create_jobs = {}
  /\ DOMAIN m.update_jobs \subseteq DOMAIN s.jobs
  /\ \A j \in DOMAIN s.jobs :
       /\ t.jobs[j] = IF j \in DOMAIN m.update_jobs THEN m.update_jobs[j] ELSE s.jobs[j]
       /\ t.jobs[j].spec = s.jobs[j].spec
  /\ \A j \in DOMAIN m.create_jobs : t.jobs[j] = m.create_jobs[j]
  /\ Queued(t.jobs) = (Queued(s.jobs) \ DOMAIN m.update_jobs) \cup DOMAIN m.create_jobs

(* An accepted write leaves a sound store: an update never leads back to    *)
(* QUEUED, and it counts the record's revision up.                          *)
LEMMA AnyWrite ==
  ASSUME NEW s, Sound(s), NEW m, Composed(m), NEW ok, Written(s, m, ok), NEW t, t = Applied(s, m, ok)
  PROVE  Sound(t) /\ WroteJobs(s, m, t) /\ t.leases = next_leases(s.leases, m)
<1>1. Accepts(s.jobs, s.leases, s.revision, m)
  BY DEF Written
<1>2. /\ t.jobs = next_jobs(s.jobs, m) /\ t.leases = next_leases(s.leases, m)
      /\ t.revision = s.revision + 1
  BY DEF Applied
<1>3. /\ CreatesAccepted(s.jobs, m)
      /\ UpdatesAccepted(Overlay(s.jobs, m.create_jobs), m)
      /\ LeaseMatrixHolds(t.jobs, t.leases)
  BY <1>1, <1>2, Zenon DEF Accepts, AcceptsEntries
<1>4. /\ DOMAIN s.jobs \cap DOMAIN m.create_jobs = {}
      /\ \A j \in DOMAIN m.create_jobs : /\ m.create_jobs[j].state = "QUEUED"
                                         /\ m.create_jobs[j].revision = 0
  BY <1>3, Zenon DEF CreatesAccepted
<1>5. /\ DOMAIN m.update_jobs \subseteq DOMAIN s.jobs
      /\ \A j \in DOMAIN m.update_jobs : UpdateAccepted(s.jobs[j], m.update_jobs[j])
  BY <1>3, <1>4, Zenon DEF UpdatesAccepted, Overlay, Composed
<1>6. /\ DOMAIN t.jobs = DOMAIN s.jobs \cup DOMAIN m.create_jobs
      /\ \A j \in DOMAIN s.jobs :
           t.jobs[j] = IF j \in DOMAIN m.update_jobs THEN m.update_jobs[j] ELSE s.jobs[j]
      /\ \A j \in DOMAIN m.create_jobs : t.jobs[j] = m.create_jobs[j]
  BY <1>2, <1>4, <1>5, Zenon DEF next_jobs, Overlay, Composed
<1>7. \A j \in DOMAIN m.update_jobs :
        /\ m.update_jobs[j].spec = s.jobs[j].spec
        /\ m.update_jobs[j].revision = s.jobs[j].revision + 1
        /\ m.update_jobs[j].state # "QUEUED"
  BY <1>5, Zenon DEF UpdateAccepted, can_transition, Terminal
<1>8. WroteJobs(s, m, t)
  BY <1>4, <1>5, <1>6, <1>7, ZenonT(30) DEF WroteJobs, Queued
<1>9. Sound(t)
  <2>1. DOMAIN t.jobs \subseteq JobId /\ IsFiniteSet(DOMAIN t.jobs)
    <3>1. IsFiniteSet(DOMAIN s.jobs) /\ IsFiniteSet(DOMAIN m.create_jobs)
      BY DEF Sound, Composed
    <3>2. IsFiniteSet(DOMAIN s.jobs \cup DOMAIN m.create_jobs)
      BY <3>1, FS_Union, Zenon
    <3> QED BY <3>2, <1>6, Zenon DEF Sound, Composed
  <2>2. ASSUME NEW j \in DOMAIN t.jobs
        PROVE  /\ t.jobs[j].spec \in JobSpec /\ t.jobs[j].revision \in Nat
               /\ t.jobs[j].state = "QUEUED" <=> t.jobs[j].revision = 0
    <3>1. CASE j \in DOMAIN m.create_jobs
      BY <3>1, <1>4, <1>6 DEF Composed
    <3>2. CASE j \in DOMAIN m.update_jobs
      BY <3>2, <1>5, <1>6, <1>7 DEF Sound
    <3>3. CASE j \in DOMAIN s.jobs /\ j \notin DOMAIN m.update_jobs
      BY <3>3, <1>6, Zenon DEF Sound
    <3> QED BY <3>1, <3>2, <3>3, <1>6, Zenon
  <2>3. t.revision \in Nat /\ t.revision # 0
    BY <1>2 DEF Sound
  <2> QED BY <2>1, <2>2, <2>3, <1>3, Zenon DEF Sound
<1> QED BY <1>2, <1>8, <1>9

(* A listing stays one when its jobs stay QUEUED.                           *)
LEMMA ListingKept ==
  ASSUME NEW q, NEW jobs, NEW later, Listing(q, jobs), Ids(q) \subseteq Queued(later),
         \A j \in Queued(jobs) \cap Queued(later) : later[j].spec = jobs[j].spec
  PROVE  Listing(q, later)
BY DEF Listing, Mirrors, Ids, Entry

-----------------------------------------------------------------------------
(* The decision of one scan.                                                *)

(* A GPU of a non-empty set.                                                *)
LEMMA LowestIndexIn ==
  ASSUME NEW S \in SUBSET GpuUuid, S # {}
  PROVE  LowestIndex(S) \in S /\ LowestIndex(S) # NoGpu
<1>1. PICK T : T = {GpuIndex[g] : g \in S}
  BY Zenon
<1>2. T \in SUBSET Nat /\ T # {}
  BY <1>1, GpuIndexAssumption
<1>3. PICK x \in T : \A y \in T : x <= y
  BY <1>2, LeastNatural
<1>4. \E g \in S : \A h \in S : GpuIndex[g] <= GpuIndex[h]
  BY <1>1, <1>3
<1> QED BY <1>4, ScanAssumption DEF LowestIndex

(* The GPUs a specification accepts.                                        *)
Accepted(spec) == IF spec.mode = "REQUIRED" THEN spec.devices ELSE GpuUuid

(* What is selected is available and accepted, nothing is selected only     *)
(* when nothing accepted is available, and ANY takes a target only when     *)
(* nothing else is available.                                               *)
LEMMA SelectSound ==
  ASSUME NEW spec, NEW A \in SUBSET GpuUuid, NEW targets, NEW g, g = Select(spec, A, targets)
  PROVE  /\ g # NoGpu => g \in A \cap Accepted(spec)
         /\ g = NoGpu => A \cap Accepted(spec) = {}
         /\ spec.mode = "ANY" /\ g # NoGpu /\ g \in targets => A \subseteq targets
<1>1. \A S \in SUBSET GpuUuid : S # {} => LowestIndex(S) \in S /\ LowestIndex(S) # NoGpu
  BY LowestIndexIn
<1>2. LowestIndex({}) = NoGpu
  BY DEF LowestIndex
<1>3. /\ select_any_gpu(A, targets) # NoGpu <=> A # {}
      /\ A # {} => select_any_gpu(A, targets) \in A
      /\ A # {} /\ select_any_gpu(A, targets) \in targets => A \subseteq targets
  <2>1. CASE A \ targets # {}
    BY <1>1, <2>1 DEF select_any_gpu
  <2>2. CASE A \ targets = {}
    BY <1>1, <1>2, <2>2 DEF select_any_gpu
  <2> QED BY <2>1, <2>2
<1>4. CASE spec.mode = "REQUIRED"
  <2>1. g = LowestIndex(A \cap spec.devices) /\ A \cap spec.devices \in SUBSET GpuUuid
    BY <1>4 DEF Select, select_required_gpu
  <2> QED BY <2>1, <1>1, <1>2, <1>4 DEF Accepted
<1>5. CASE spec.mode = "PREFERRED"
  <2>1. g = IF A \cap spec.devices # {} THEN LowestIndex(A \cap spec.devices)
                                        ELSE select_any_gpu(A, targets)
    BY <1>5 DEF Select
  <2> QED BY <2>1, <1>1, <1>3, <1>5 DEF Accepted
<1>6. CASE spec.mode # "REQUIRED" /\ spec.mode # "PREFERRED"
  <2>1. g = select_any_gpu(A, targets)
    BY <1>6 DEF Select
  <2> QED BY <2>1, <1>3, <1>6 DEF Accepted
<1> QED BY <1>4, <1>5, <1>6

(* The scan found a job for a GPU at place first of the queue.              *)
FoundAt(q, jobs, A, targets, d, first) ==
  /\ first \in 1 .. Window(q)
  /\ d.job = q[first].job_id /\ d.gpu = Select(jobs[d.job].spec, A, targets) /\ d.gpu # NoGpu
  /\ \A i \in 1 .. first - 1 : Select(jobs[q[i].job_id].spec, A, targets) = NoGpu

(* What SELECTED means: the queue is complete, and the job is the first of  *)
(* the window that finds a GPU.                                             *)
LEMMA DecisionFound ==
  ASSUME NEW q, Len(q) \in Nat, NEW jobs, NEW leases, NEW obs, NEW d,
         d = Decision(q, jobs, leases, obs), d.code = "SELECTED"
  PROVE  /\ ~Diverged(q, jobs)
         /\ \E first : FoundAt(q, jobs, Available(obs, leases),
                               collect_affinity_targets(q, jobs), d, first)
<1>1. PICK A, targets : A = Available(obs, leases) /\ targets = collect_affinity_targets(q, jobs)
  OBVIOUS
<1> DEFINE Choice(i) == Select(jobs[q[i].job_id].spec, A, targets)
           found     == {i \in 1 .. Window(q) : Choice(i) # NoGpu}
           first     == CHOOSE i \in found : \A k \in found : i <= k
<1>2. d = CASE Diverged(q, jobs) -> [code |-> "DIVERGED", job |-> 0, gpu |-> NoGpu]
            [] ~Diverged(q, jobs) /\ found = {} ->
                 [code |-> "NO_CANDIDATE", job |-> 0, gpu |-> NoGpu]
            [] ~Diverged(q, jobs) /\ found # {} ->
                 [code |-> "SELECTED", job |-> q[first].job_id, gpu |-> Choice(first)]
  BY <1>1, Zenon DEF Decision
<1>3. /\ ~Diverged(q, jobs) /\ found # {}
      /\ d = [code |-> "SELECTED", job |-> q[first].job_id, gpu |-> Choice(first)]
  <2> HIDE DEF found, first, Choice
  <2> QED BY <1>2
<1>4. found \in SUBSET Nat /\ Window(q) \in Nat
  BY ScanAssumption DEF Window
<1>5. PICK x \in found : \A y \in found : x <= y
  <2> HIDE DEF found
  <2> QED BY <1>3, <1>4, LeastNatural, Zenon
<1>6. first \in found /\ \A k \in found : first <= k
  <2> HIDE DEF found
  <2> QED BY <1>5
<1>7. FoundAt(q, jobs, A, targets, d, first)
  <2>1. first \in 1 .. Window(q) /\ Choice(first) # NoGpu
    <3> HIDE DEF first
    <3> QED BY <1>6, Zenon
  <2>2. \A i \in 1 .. first - 1 : Choice(i) = NoGpu
    <3> HIDE DEF first
    <3> QED BY <1>4, <1>6, <2>1
  <2>3. d.job = q[first].job_id /\ d.gpu = Choice(first)
    <3> HIDE DEF first, Choice
    <3> QED BY <1>3
  <2> HIDE DEF first, found
  <2> QED BY <2>1, <2>2, <2>3, Zenon DEF FoundAt
<1> QED BY <1>1, <1>3, <1>7, Zenon

-----------------------------------------------------------------------------
(* The steps.                                                               *)

(* The queue does not lose a job but by a refused admission to a full queue *)
(* or when the daemon does not come up.                                     *)
LosesNone ==
  \/ Ids(queue) = Queued(store.jobs) => Ids(queue') = Queued(store'.jobs)
  \/ Len(queue) = QueueCapacity /\ DOMAIN store.jobs # DOMAIN store'.jobs
  \/ ~serving'

StartsNone == \A j \in DOMAIN store.jobs : ~Starts(j)

(* A write that touches no QUEUED job.                                      *)
LEMMA QuietWrite ==
  ASSUME NEW s, NEW q, Listing(q, s.jobs), NEW m, NEW t, WroteJobs(s, m, t),
         DOMAIN m.create_jobs = {}, DOMAIN m.update_jobs \cap Queued(s.jobs) = {}
  PROVE  /\ Queued(t.jobs) = Queued(s.jobs)
         /\ Listing(q, t.jobs)
         /\ \A j \in Queued(s.jobs) : t.jobs[j] = s.jobs[j]
<1>1. /\ Queued(t.jobs) = Queued(s.jobs)
      /\ \A j \in Queued(s.jobs) : t.jobs[j] = s.jobs[j]
  BY DEF WroteJobs, Queued
<1>2. Ids(q) \subseteq Queued(t.jobs)
  BY <1>1, Counted, Zenon
<1> QED BY <1>1, <1>2, ListingKept, Zenon

(* A job that is launched has left the queue.                               *)
LEMMA LaunchedStep ==
  ASSUME SchedInv, NEW j \in DOMAIN store.jobs, NEW identity, NEW now, Launched(j, identity, now)
  PROVE  SchedInv' /\ LosesNone /\ StartsNone
<1>1. PICK m : m = RewriteMutation(store, j, Running(store.jobs[j], identity, now), {})
  OBVIOUS
<1>2. /\ DOMAIN m.create_jobs = {} /\ DOMAIN m.update_jobs = {j} /\ Composed(m)
  BY <1>1, FS_EmptySet DEF RewriteMutation, EmptyMap, Composed
<1>3. /\ Written(store, m, TRUE) /\ store' = Applied(store, m, TRUE)
      /\ store.jobs[j].state = "STARTING" /\ queue' = queue /\ observed' = observed
  BY <1>1, Zenon DEF Launched
<1>4. DOMAIN m.update_jobs \cap Queued(store.jobs) = {}
  BY <1>2, <1>3 DEF Queued
<1>5. /\ Sound(store') /\ Queued(store'.jobs) = Queued(store.jobs) /\ Listing(queue, store'.jobs)
      /\ \A k \in Queued(store.jobs) : store'.jobs[k] = store.jobs[k]
  <2>1. Sound(store') /\ WroteJobs(store, m, store')
    BY <1>2, <1>3, AnyWrite, Zenon DEF SchedInv
  <2>2. Listing(queue, store.jobs)
    BY DEF SchedInv
  <2> QED BY <2>1, <2>2, <1>2, <1>4, QuietWrite
<1> QED BY <1>3, <1>5, Zenon DEF SchedInv, LosesNone, StartsNone, Starts, Queued

(* So has a job that ends: it holds a lease.                                *)
LEMMA EndStep ==
  ASSUME SchedInv, NEW j \in DOMAIN store.jobs, NEW state, NEW exit, NEW now,
         End(j, state, exit, now)
  PROVE  SchedInv' /\ LosesNone /\ StartsNone
<1>1. PICK g \in leases_of(store.leases, j) :
        /\ Written(store, EndMutation(store, j, g, state, exit, now), TRUE)
        /\ store' = Applied(store, EndMutation(store, j, g, state, exit, now), TRUE)
        /\ queue' = queue /\ observed' = observed
  BY Zenon DEF End
<1>2. PICK m : m = EndMutation(store, j, g, state, exit, now)
  OBVIOUS
<1>3. /\ DOMAIN m.create_jobs = {} /\ DOMAIN m.update_jobs = {j} /\ Composed(m)
  BY <1>2, FS_EmptySet, Zenon DEF EndMutation, RewriteMutation, EmptyMap, Composed
<1>4. DOMAIN m.update_jobs \cap Queued(store.jobs) = {}
  BY <1>1, <1>3, Zenon DEF Queued, leases_of, SchedInv, Sound, LeaseMatrixHolds, leaseable
<1>5. /\ Sound(store') /\ Queued(store'.jobs) = Queued(store.jobs) /\ Listing(queue, store'.jobs)
      /\ \A k \in Queued(store.jobs) : store'.jobs[k] = store.jobs[k]
  <2>1. Sound(store') /\ WroteJobs(store, m, store')
    BY <1>1, <1>2, <1>3, AnyWrite, Zenon DEF SchedInv
  <2>2. Listing(queue, store.jobs)
    BY DEF SchedInv
  <2> QED BY <2>1, <2>2, <1>3, <1>4, QuietWrite
<1> QED BY <1>1, <1>5, Zenon DEF SchedInv, LosesNone, StartsNone, Starts, Queued

(* A cancelled job leaves the store's QUEUED jobs and the queue together.   *)
LEMMA CancelQueuedStep ==
  ASSUME SchedInv, NEW j \in DOMAIN store.jobs, CancelQueued(j)
  PROVE  SchedInv' /\ LosesNone /\ StartsNone
<1>1. PICK m : m = MoveMutation(store, j, "CANCELLED")
  OBVIOUS
<1>2. /\ DOMAIN m.create_jobs = {} /\ DOMAIN m.update_jobs = {j} /\ Composed(m)
      /\ m.update_jobs[j] = Moved(store.jobs[j], "CANCELLED")
  BY <1>1, FS_EmptySet DEF MoveMutation, RewriteMutation, EmptyMap, Composed
<1>3. /\ Written(store, m, TRUE) /\ store' = Applied(store, m, TRUE)
      /\ queue' = Removed(queue, j) /\ observed' = observed
  BY <1>1, Zenon DEF CancelQueued
<1>4. Sound(store') /\ WroteJobs(store, m, store')
  BY <1>2, <1>3, AnyWrite, Zenon DEF SchedInv
<1>5. /\ Queued(store'.jobs) = Queued(store.jobs) \ {j}
      /\ \A k \in DOMAIN store.jobs : k # j => store'.jobs[k] = store.jobs[k]
      /\ store'.jobs[j] = Moved(store.jobs[j], "CANCELLED")
  BY <1>2, <1>4, Zenon DEF WroteJobs
<1>6. /\ Listing(queue', store.jobs) /\ Ids(queue') = Ids(queue) \ {j} /\ Len(queue') <= Len(queue)
  BY <1>3, RemovedListing DEF SchedInv, Listing
<1>7. Ids(queue') \subseteq Queued(store'.jobs)
  BY <1>5, <1>6, Counted, Zenon DEF SchedInv
<1>8. Listing(queue', store'.jobs)
  BY <1>5, <1>6, <1>7, ListingKept, ZenonT(30) DEF Queued
<1>9. SchedInv'
  <2>1. Len(queue') \in Nat /\ Len(queue) \in Nat
    BY <1>8 DEF SchedInv, Listing
  <2>2. Len(queue') <= QueueCapacity
    BY <2>1, <1>6, CapacityAssumption DEF SchedInv
  <2> QED BY <2>2, <1>3, <1>4, <1>8, Zenon DEF SchedInv
<1>10. LosesNone
  BY <1>5, <1>6, Zenon DEF LosesNone
<1>11. StartsNone
  <2>1. store'.jobs[j].state # "STARTING" \/ store.jobs[j].state # "QUEUED"
    BY <1>5 DEF Moved, SchedInv, Sound
  <2> QED BY <2>1, <1>5 DEF StartsNone, Starts
<1> QED BY <1>9, <1>10, <1>11

(* Only a full queue refuses a new job.                                     *)
LEMMA SubmitStep ==
  ASSUME SchedInv, NEW spec \in JobSpec, NEW reachable \in BOOLEAN, Submit(spec, reachable)
  PROVE  SchedInv' /\ LosesNone /\ StartsNone
<1>1. PICK j, create, created :
        /\ j = next_job_id(store.jobs) /\ create = CreateMutation(store, j, spec)
        /\ created = Applied(store, create, TRUE)
  BY Zenon
<1>2. /\ j \in JobId /\ Written(store, create, TRUE) /\ observed' = observed
      /\ IF AdmitAccepted(queue, j, created.jobs[j])
         THEN store' = created /\ queue' = Admitted(queue, Entry(j, created.jobs[j]))
         ELSE /\ store' = Applied(created, MoveMutation(created, j, "CANCELLED"), reachable)
              /\ queue' = queue
  BY <1>1, Zenon DEF Submit
<1>3. /\ DOMAIN create.create_jobs = {j} /\ create.create_jobs[j] = NewJob(spec)
      /\ DOMAIN create.update_jobs = {}
  BY <1>1, Zenon DEF CreateMutation, EmptyMap
<1>4. Composed(create)
  <2>1. IsFiniteSet({j})
    BY FS_Singleton, Zenon
  <2>2. NewJob(spec).spec \in JobSpec
    BY DEF NewJob
  <2> QED BY <2>1, <2>2, <1>2, <1>3, Zenon DEF Composed
<1>5. Sound(created) /\ WroteJobs(store, create, created)
  BY <1>1, <1>2, <1>4, AnyWrite, Zenon DEF SchedInv
<1>6. /\ DOMAIN created.jobs = DOMAIN store.jobs \cup {j} /\ j \notin DOMAIN store.jobs
      /\ Queued(created.jobs) = Queued(store.jobs) \cup {j}
      /\ \A k \in DOMAIN store.jobs : created.jobs[k] = store.jobs[k]
      /\ created.jobs[j] = NewJob(spec)
  BY <1>3, <1>5, Zenon DEF WroteJobs
<1>7. Ids(queue) \subseteq Queued(store.jobs) /\ j \notin Ids(queue)
  BY <1>6, Counted, Zenon DEF SchedInv, Queued
<1>8. Listing(queue, created.jobs)
  <2>1. Ids(queue) \subseteq Queued(created.jobs) /\ Listing(queue, store.jobs)
    BY <1>6, <1>7, Zenon DEF SchedInv
  <2> QED BY <2>1, <1>6, ListingKept, ZenonT(30) DEF Queued
<1>9. Len(queue) \in Nat /\ Len(queue) <= QueueCapacity
  BY DEF SchedInv, Listing
<1>10. CASE AdmitAccepted(queue, j, created.jobs[j])
  <2>1. store' = created /\ queue' = Admitted(queue, Entry(j, created.jobs[j]))
    BY <1>2, <1>10
  <2>2. PICK e : e = Entry(j, created.jobs[j])
    OBVIOUS
  <2>3. e \in QueueEntry /\ e.job_id = j
    BY <2>2, <1>5, <1>6, EntryType, Zenon
  <2>4. /\ e.job_id \in Queued(created.jobs) /\ e = Entry(e.job_id, created.jobs[e.job_id])
        /\ e.job_id \notin Ids(queue) /\ queue' = Admitted(queue, e)
    BY <2>1, <2>2, <2>3, <1>6, <1>7, Zenon
  <2>5. /\ Listing(queue', created.jobs) /\ Len(queue') = Len(queue) + 1
        /\ Ids(queue') = Ids(queue) \cup {e.job_id}
    BY <2>3, <2>4, <1>8, AdmittedListing
  <2>6. Len(queue') <= QueueCapacity
    BY <2>5, <1>9, <1>10, CapacityAssumption DEF AdmitAccepted
  <2>7. SchedInv'
    BY <2>1, <2>5, <2>6, <1>2, <1>5, Zenon DEF SchedInv
  <2>8. LosesNone
    BY <2>1, <2>3, <2>5, <1>6, Zenon DEF LosesNone
  <2>9. StartsNone
    BY <2>1, <1>6, Zenon DEF StartsNone, Starts
  <2> QED BY <2>7, <2>8, <2>9
<1>11. CASE ~AdmitAccepted(queue, j, created.jobs[j])
  <2>1. PICK m : m = MoveMutation(created, j, "CANCELLED")
    OBVIOUS
  <2>2. store' = Applied(created, m, reachable) /\ queue' = queue
    BY <1>2, <1>11, <2>1
  <2>3. /\ DOMAIN m.create_jobs = {} /\ DOMAIN m.update_jobs = {j} /\ Composed(m)
    BY <2>1, FS_EmptySet, Zenon DEF MoveMutation, RewriteMutation, EmptyMap, Composed
  <2>4. /\ Sound(store') /\ DOMAIN store'.jobs = DOMAIN store.jobs \cup {j}
        /\ Queued(store.jobs) \subseteq Queued(store'.jobs)
        /\ \A k \in DOMAIN store.jobs : store'.jobs[k] = store.jobs[k]
    <3>1. CASE Written(created, m, reachable)
      <4>1. Sound(store') /\ WroteJobs(created, m, store')
        BY <3>1, <2>2, <2>3, <1>5, AnyWrite, Zenon
      <4>2. j \notin Queued(store.jobs)
        BY <1>6, Zenon DEF Queued
      <4> QED BY <4>1, <4>2, <2>3, <1>6, Zenon DEF WroteJobs
    <3>2. CASE ~Written(created, m, reachable)
      <4>1. store' = created
        BY <3>2, <2>2 DEF Applied
      <4> QED BY <4>1, <1>5, <1>6, Zenon
    <3> QED BY <3>1, <3>2, Zenon
  <2>5. Listing(queue, store'.jobs)
    <3>1. Ids(queue) \subseteq Queued(store'.jobs) /\ Listing(queue, store.jobs)
      BY <2>4, <1>7 DEF SchedInv
    <3> QED BY <3>1, <2>4, ListingKept, Zenon DEF Queued
  <2>6. SchedInv'
    BY <2>2, <2>4, <2>5, <1>2, <1>9, Zenon DEF SchedInv
  <2>7. LosesNone
    <3>1. created.jobs[j].state = "QUEUED" /\ created.jobs[j].revision = 0
      BY <1>6 DEF NewJob
    <3>2. ~contains(queue, j)
      BY <1>7 DEF contains, Ids
    <3>3. Len(queue) = QueueCapacity
      BY <3>1, <3>2, <1>9, <1>11, CapacityAssumption DEF AdmitAccepted
    <3>4. DOMAIN store.jobs # DOMAIN store'.jobs
      BY <2>4, <1>6, Zenon
    <3> QED BY <3>3, <3>4 DEF LosesNone
  <2>8. StartsNone
    BY <2>4 DEF StartsNone, Starts
  <2> QED BY <2>6, <2>7, <2>8
<1> QED BY <1>10, <1>11

(* What the scheduler starts: the job it found, on the GPU it found.        *)
LEMMA RunOnceStep ==
  ASSUME SchedInv, NEW reachable \in BOOLEAN, RunOnce(reachable),
         NEW d, d = Decision(queue, store.jobs, store.leases, observed)
  PROVE  /\ SchedInv' /\ LosesNone
         /\ \A j \in DOMAIN store.jobs : Starts(j) =>
              j = d.job /\ leases_of(store'.leases, j) = {d.gpu}
<1>1. PICK m : m = StartMutation(store.jobs, store.revision, d.job, d.gpu)
  OBVIOUS
<1>2. /\ d.code = "SELECTED" /\ observed' = observed
      /\ store' = Applied(store, m, reachable)
      /\ queue' = IF Written(store, m, reachable)
                  THEN Removed(queue, d.job)
                  ELSE Admitted(Removed(queue, d.job), Entry(d.job, store.jobs[d.job]))
  BY <1>1, Zenon DEF RunOnce
<1>3. /\ DOMAIN m.create_jobs = {} /\ DOMAIN m.update_jobs = {d.job} /\ Composed(m)
      /\ m.release_leases = {} /\ m.acquire_leases = [h \in {d.gpu} |-> d.job]
  BY <1>1, FS_EmptySet DEF StartMutation, EmptyMap, Composed
<1>4. Len(queue) \in Nat /\ DOMAIN queue = 1 .. Len(queue) /\ Len(queue) <= QueueCapacity
  BY DEF SchedInv, Listing
<1>5. d.job \in Ids(queue)
  <2>1. PICK first : FoundAt(queue, store.jobs, Available(observed, store.leases),
                              collect_affinity_targets(queue, store.jobs), d, first)
    BY <1>2, <1>4, DecisionFound, Zenon
  <2> QED BY <2>1, <1>4, ScanAssumption DEF FoundAt, Ids, Window
<1>6. d.job \in Queued(store.jobs) /\ d.job \in DOMAIN store.jobs
  BY <1>5, Counted, Zenon DEF SchedInv, Queued
<1>7. PICK r : r = Removed(queue, d.job)
  OBVIOUS
<1>8. Listing(r, store.jobs) /\ Ids(r) = Ids(queue) \ {d.job} /\ Len(r) = Len(queue) - 1
  BY <1>5, <1>7, RemovedListing DEF SchedInv
<1>9. CASE Written(store, m, reachable)
  <2>1. Sound(store') /\ WroteJobs(store, m, store') /\ store'.leases = next_leases(store.leases, m)
    <3>1. Sound(store)
      BY DEF SchedInv
    <3>2. Composed(m) /\ store' = Applied(store, m, reachable)
      BY <1>2, <1>3, Zenon
    <3> QED BY <3>1, <3>2, <1>9, AnyWrite, Zenon
  <2>2. /\ Queued(store'.jobs) = Queued(store.jobs) \ {d.job} /\ queue' = r
        /\ \A k \in DOMAIN store.jobs : k # d.job => store'.jobs[k] = store.jobs[k]
    BY <2>1, <1>2, <1>3, <1>7, <1>9, Zenon DEF WroteJobs
  <2>3. Listing(queue', store'.jobs)
    <3>1. Ids(r) \subseteq Queued(store'.jobs)
      BY <2>2, <1>8, Counted, Zenon
    <3> QED BY <3>1, <2>2, <1>8, ListingKept DEF Queued
  <2>4. SchedInv'
    <3>1. Len(r) <= QueueCapacity
      BY <1>4, <1>8, CapacityAssumption
    <3> QED BY <3>1, <2>1, <2>2, <2>3, <1>2, Zenon DEF SchedInv
  <2>5. LosesNone
    BY <2>2, <1>8, Zenon DEF LosesNone
  <2>6. ASSUME NEW j \in DOMAIN store.jobs, Starts(j) PROVE j = d.job
    BY <2>2, <2>6, Zenon DEF Starts
  <2>7. \A h \in DOMAIN store.leases : store.leases[h] # d.job
    BY <1>6, Zenon DEF Queued, SchedInv, Sound, LeaseMatrixHolds, leaseable
  <2>8. leases_of(store'.leases, d.job) = {d.gpu}
    BY <2>1, <2>7, <1>3, SMTT(30) DEF leases_of, next_leases, Overlay, Without
  <2> QED BY <2>4, <2>5, <2>6, <2>8, Zenon
<1>10. CASE ~Written(store, m, reachable)
  <2>1. store' = store
    BY <1>2, <1>10, Zenon DEF Applied
  <2>2. queue' = Admitted(Removed(queue, d.job), Entry(d.job, store.jobs[d.job]))
    BY <1>2, <1>10, Zenon
  <2>3. Sound(store) /\ Listing(queue, store.jobs)
    BY DEF SchedInv
  <2>4. Listing(queue', store.jobs) /\ Len(queue') = Len(queue) /\ Ids(queue') = Ids(queue)
    BY <2>2, <2>3, <1>5, Readmitted
  <2>5. SchedInv'
    BY <2>1, <2>4, <1>2, Zenon DEF SchedInv
  <2>6. LosesNone
    BY <2>1, <2>4, Zenon DEF LosesNone
  <2>7. \A j \in DOMAIN store.jobs : ~Starts(j)
    BY <2>1 DEF Starts
  <2> QED BY <2>5, <2>6, <2>7, Zenon
<1> QED BY <1>9, <1>10, Zenon

(* A daemon that goes down loses its queue and nothing else.                *)
LEMMA StopStep ==
  ASSUME SchedInv, Stop
  PROVE  SchedInv' /\ LosesNone /\ StartsNone
<1>1. queue' = <<>> /\ store' = store /\ observed' = observed /\ ~serving'
  BY Zenon DEF Stop
<1>2. Listing(queue', store'.jobs) /\ Len(queue') <= QueueCapacity
  BY <1>1, CapacityAssumption DEF Listing, Sorted, Mirrors
<1> QED BY <1>1, <1>2, Zenon DEF SchedInv, LosesNone, StartsNone, Starts

(* A chunk of recovery touches no QUEUED job.                               *)
LEMMA RecoverStep ==
  ASSUME SchedInv, NEW verdict, NEW now, RecoverChunk(verdict, now)
  PROVE  SchedInv' /\ LosesNone /\ StartsNone
<1>1. PICK decision, pending, chunk, m :
        /\ decision = [j \in DOMAIN store.jobs |-> RecoveryDecision(store.jobs[j], verdict[j])]
        /\ pending = NeedsWrite(store.jobs, decision)
        /\ chunk = NextChunk(store.leases, pending, decision)
        /\ m = RecoveryMutation(store, chunk, decision, now)
  BY Zenon
<1>2. /\ Written(store, m, TRUE) /\ store' = Applied(store, m, TRUE)
      /\ ~serving /\ serving' = serving /\ queue' = queue /\ observed' = observed
  BY <1>1, Zenon DEF RecoverChunk
<1>3. pending \cap Queued(store.jobs) = {}
  <2> SUFFICES ASSUME NEW j \in DOMAIN store.jobs, store.jobs[j].state = "QUEUED"
               PROVE  j \notin pending
    BY Zenon DEF Queued
  <2>1. ~is_active(store.jobs[j])
    BY DEF is_active
  <2>2. RecoveryDecision(store.jobs[j], verdict[j]) = "UNTOUCHED"
    BY <2>1 DEF RecoveryDecision
  <2> QED BY <2>2, <1>1, Zenon DEF NeedsWrite
<1>4. chunk \subseteq pending
  BY <1>1, Zenon DEF NextChunk
<1>5. DOMAIN m.create_jobs = {} /\ DOMAIN m.update_jobs = chunk /\ Composed(m)
  BY <1>1, FS_EmptySet, Zenon DEF RecoveryMutation, EmptyMap, Composed
<1>6. Sound(store') /\ WroteJobs(store, m, store')
  BY <1>2, <1>5, AnyWrite, Zenon DEF SchedInv
<1>7. DOMAIN m.create_jobs = {} /\ DOMAIN m.update_jobs \cap Queued(store.jobs) = {}
  BY <1>3, <1>4, <1>5, Zenon
<1>8. /\ Queued(store'.jobs) = Queued(store.jobs)
      /\ \A j \in Queued(store.jobs) : store'.jobs[j] = store.jobs[j]
  BY <1>6, <1>7, Zenon DEF WroteJobs, Queued
<1>9. Listing(queue', store'.jobs)
  <2>1. Ids(queue) \subseteq Queued(store.jobs)
    BY DEF SchedInv, Listing, Mirrors, Ids
  <2>2. Listing(queue, store'.jobs)
    BY <2>1, <1>8, ListingKept, Zenon DEF SchedInv
  <2> QED BY <2>2, <1>2, Zenon
<1>10. StartsNone
  BY <1>8, Zenon DEF StartsNone, Starts, Queued
<1> QED BY <1>2, <1>6, <1>8, <1>9, <1>10, Zenon DEF SchedInv, LosesNone

(* The store of a sound state is refused only for its number of QUEUED      *)
(* jobs.                                                                    *)
LEMMA RefusedOnlyWhenFull ==
  ASSUME SchedInv
  PROVE  RestoreAccepted(store.jobs, store.leases, store.revision) <=>
           Cardinality(Queued(store.jobs)) <= QueueCapacity
BY Zenon DEF SchedInv, Sound, RestoreAccepted

(* The restored queue is complete and in order.                             *)
LEMMA StartStep ==
  ASSUME SchedInv, NEW verdict, Start(verdict)
  PROVE  /\ SchedInv' /\ LosesNone /\ StartsNone
         /\ Ids(queue') = Queued(store'.jobs)
<1>1. /\ store' = store /\ observed' = observed /\ queue' = Restored(store.jobs)
      /\ RestoreAccepted(store.jobs, store.leases, store.revision)
  BY Zenon DEF Start
<1>2. /\ Listing(queue', store.jobs) /\ Ids(queue') = Queued(store.jobs)
      /\ Len(queue') = Cardinality(Queued(store.jobs))
  BY <1>1, RestoredListing, Zenon DEF SchedInv
<1>3. Len(queue') <= QueueCapacity
  BY <1>1, <1>2, RefusedOnlyWhenFull, Zenon
<1> QED BY <1>1, <1>2, <1>3, Zenon DEF SchedInv, LosesNone, StartsNone, Starts

(* A step that changes nothing here.                                        *)
LEMMA IdleStep ==
  ASSUME SchedInv, UNCHANGED <<store, queue>>, observed' \in Observation
  PROVE  SchedInv' /\ LosesNone /\ StartsNone
BY Zenon DEF SchedInv, LosesNone, StartsNone, Starts

(* Every step but the scheduler's.                                          *)
LEMMA OtherStep ==
  ASSUME SchedInv, [Next]_vars
  PROVE  \/ \E reachable \in BOOLEAN : RunOnce(reachable)
         \/ /\ SchedInv' /\ LosesNone /\ StartsNone
            /\ ~serving /\ serving' => Ids(queue') = Queued(store'.jobs)
<1>1. ASSUME NEW spec \in JobSpec, NEW reachable \in BOOLEAN, Submit(spec, reachable)
      PROVE  SchedInv' /\ LosesNone /\ StartsNone /\ serving' = serving
  BY <1>1, SubmitStep, Zenon DEF Submit
<1>2. ASSUME NEW j \in DOMAIN store.jobs, CancelQueued(j)
      PROVE  SchedInv' /\ LosesNone /\ StartsNone /\ serving' = serving
  BY <1>2, CancelQueuedStep, Zenon DEF CancelQueued
<1>3. ASSUME NEW j \in DOMAIN store.jobs, NEW identity \in Identity, NEW now \in Clock,
             Launched(j, identity, now)
      PROVE  SchedInv' /\ LosesNone /\ StartsNone /\ serving' = serving
  BY <1>3, LaunchedStep, Zenon DEF Launched
<1>4. ASSUME NEW j \in DOMAIN store.jobs, NEW state \in {"FINISHED", "FAILED"}, NEW now \in Clock,
             End(j, state, NoExit, now)
      PROVE  SchedInv' /\ LosesNone /\ StartsNone /\ serving' = serving
  BY <1>4, EndStep, Zenon DEF End
<1>5. ASSUME NEW obs \in Observation, Observe(obs)
      PROVE  SchedInv' /\ LosesNone /\ StartsNone /\ serving' = serving
  BY <1>5, IdleStep DEF Observe
<1>6. ASSUME Stop
      PROVE  SchedInv' /\ LosesNone /\ StartsNone /\ ~serving'
  BY <1>6, StopStep, Zenon DEF Stop
<1>7. ASSUME NEW verdict, NEW now \in Clock, RecoverChunk(verdict, now)
      PROVE  SchedInv' /\ LosesNone /\ StartsNone /\ serving' = serving
  BY <1>7, RecoverStep, Zenon DEF RecoverChunk
<1>8. ASSUME NEW verdict, Start(verdict)
      PROVE  SchedInv' /\ LosesNone /\ StartsNone /\ Ids(queue') = Queued(store'.jobs)
  BY <1>8, StartStep, Zenon
<1>9. CASE UNCHANGED vars
  <2>1. SchedInv' /\ LosesNone /\ StartsNone
    BY <1>9, IdleStep DEF vars, SchedInv
  <2> QED BY <2>1, <1>9 DEF vars
<1> QED BY <1>1, <1>2, <1>3, <1>4, <1>5, <1>6, <1>7, <1>8, <1>9, Zenon DEF Next

-----------------------------------------------------------------------------
(* Affinity protection.                                                     *)

(* The place of a job in a complete listing is its rank.                    *)
LEMMA PlaceIsRank ==
  ASSUME NEW s, Sound(s), NEW q, Listing(q, s.jobs), Ids(q) = Queued(s.jobs), NEW i \in DOMAIN q,
         NEW B, B = {h \in Queued(s.jobs) : entry_less(Entry(h, s.jobs[h]), q[i])}
  PROVE  Cardinality(B) = i - 1
<1>1. q \in Seq(QueueEntry) /\ Len(q) \in Nat /\ DOMAIN q = 1 .. Len(q)
  BY DEF Listing
<1>2. \A k \in DOMAIN q : q[k] \in QueueEntry /\ q[k] = Entry(q[k].job_id, s.jobs[q[k].job_id])
  BY <1>1 DEF Listing, Mirrors
<1>3. \A k \in DOMAIN q : entry_less(q[k], q[i]) <=> k < i
  <2> SUFFICES ASSUME NEW k \in DOMAIN q PROVE entry_less(q[k], q[i]) <=> k < i
    OBVIOUS
  <2>1. /\ k < i => entry_less(q[k], q[i])
        /\ i < k => entry_less(q[i], q[k])
    BY DEF Listing, Sorted
  <2>2. /\ entry_less(q[i], q[k]) => ~entry_less(q[k], q[i])
        /\ ~entry_less(q[i], q[i])
    BY <1>2, EntryOrder, Zenon
  <2>3. k < i \/ k = i \/ i < k
    BY <1>1
  <2> QED BY <2>1, <2>2, <2>3, Zenon
<1>4. PICK f : f = [k \in 1 .. i - 1 |-> q[k].job_id]
  BY Zenon
<1>5. 1 .. i - 1 \subseteq DOMAIN q /\ \A k \in DOMAIN q : k < i <=> k \in 1 .. i - 1
  BY <1>1
<1>6. \A k \in 1 .. i - 1 : f[k] \in B
  BY <1>2, <1>3, <1>4, <1>5, Zenon DEF Ids
<1>7. \A h \in B : \E k \in 1 .. i - 1 : f[k] = h
  BY <1>2, <1>3, <1>4, <1>5, Zenon DEF Ids
<1>8. \A k, l \in 1 .. i - 1 : f[k] = f[l] => k = l
  BY <1>4, <1>5, Distinct, Zenon
<1>9. f \in Bijection(1 .. i - 1, B)
  BY <1>4, <1>6, <1>7, <1>8, Zenon DEF Bijection, Injection, Surjection, IsInjective
<1>10. ExistsBijection(1 .. i - 1, B)
  BY <1>9 DEF ExistsBijection
<1>11. IsFiniteSet(1 .. i - 1) /\ Cardinality(1 .. i - 1) = i - 1
  <2>1. i \in Nat /\ i >= 1 /\ i - 1 \in Int /\ 1 \in Int
    BY <1>1
  <2>2. /\ IsFiniteSet(1 .. i - 1)
        /\ Cardinality(1 .. i - 1) = IF 1 > i - 1 THEN 0 ELSE (i - 1) - 1 + 1
    BY <2>1, FS_Interval, Zenon
  <2> QED BY <2>1, <2>2
<1> QED BY <1>10, <1>11, FS_Bijection, Zenon

(* In a complete queue the protected devices are the wanted ones.           *)
LEMMA TargetsAreWanted ==
  ASSUME SchedInv, Ids(queue) = Queued(store.jobs)
  PROVE  collect_affinity_targets(queue, store.jobs) = Wanted
<1>1. Len(queue) \in Nat /\ DOMAIN queue = 1 .. Len(queue)
  BY DEF SchedInv, Listing
<1>2. ASSUME NEW i \in DOMAIN queue
      PROVE  /\ queue[i].job_id \in Queued(store.jobs)
             /\ Cardinality({h \in Queued(store.jobs) : Before(h, queue[i].job_id)}) < ScanWindow
                  <=> i <= Window(queue)
  <2>1. queue[i].job_id \in Queued(store.jobs)
        /\ queue[i] = Entry(queue[i].job_id, store.jobs[queue[i].job_id])
    BY Zenon DEF SchedInv, Listing, Mirrors
  <2>2. PICK B : B = {h \in Queued(store.jobs) : entry_less(Entry(h, store.jobs[h]), queue[i])}
    BY Zenon
  <2>3. Cardinality(B) = i - 1
    BY <2>2, PlaceIsRank DEF SchedInv
  <2>4. {h \in Queued(store.jobs) : Before(h, queue[i].job_id)} = B
    BY <2>1, <2>2, Zenon DEF Before
  <2>5. i - 1 < ScanWindow <=> i <= Window(queue)
    BY <1>1, ScanAssumption DEF Window
  <2> QED BY <2>1, <2>3, <2>4, <2>5, Zenon
<1>3. \A k \in Queued(store.jobs) : \E i \in DOMAIN queue : queue[i].job_id = k
  BY DEF Ids
<1>4. \A i \in 1 .. Window(queue) : i \in DOMAIN queue
  BY <1>1, ScanAssumption DEF Window
<1>5. \A i \in DOMAIN queue : i <= Window(queue) => i \in 1 .. Window(queue)
  BY <1>1, ScanAssumption DEF Window
<1>6. \A g : g \in collect_affinity_targets(queue, store.jobs) =>  g \in Wanted
  <2> SUFFICES ASSUME NEW i \in 1 .. Window(queue),
                      store.jobs[queue[i].job_id].spec.mode = "REQUIRED",
                      NEW g \in store.jobs[queue[i].job_id].spec.devices
               PROVE  g \in Wanted
    BY Zenon DEF collect_affinity_targets
  <2>1. i \in DOMAIN queue /\ i <= Window(queue)
    BY <1>4
  <2> QED BY <2>1, <1>2, Zenon DEF Wanted
<1>7. \A g : g \in Wanted => g \in collect_affinity_targets(queue, store.jobs)
  <2> SUFFICES ASSUME NEW k \in Queued(store.jobs), store.jobs[k].spec.mode = "REQUIRED",
                      Cardinality({h \in Queued(store.jobs) : Before(h, k)}) < ScanWindow,
                      NEW g \in store.jobs[k].spec.devices
               PROVE  g \in collect_affinity_targets(queue, store.jobs)
    BY Zenon DEF Wanted
  <2>1. PICK i \in DOMAIN queue : queue[i].job_id = k
    BY <1>3, Zenon
  <2>2. i \in 1 .. Window(queue)
    BY <2>1, <1>2, <1>5, Zenon
  <2> QED BY <2>1, <2>2, Zenon DEF collect_affinity_targets
<1> QED BY <1>6, <1>7

-----------------------------------------------------------------------------
(* Theorems.                                                                *)

(* SchedInv is inductive.                                                   *)
THEOREM SchedulingInvariant == Spec => []SchedInv
<1>1. Init => SchedInv
  <2> SUFFICES ASSUME Init PROVE SchedInv
    OBVIOUS
  <2>1. store.jobs = EmptyMap /\ store.leases = EmptyMap /\ store.revision = 0 /\ queue = <<>>
        /\ observed \in Observation
    BY DEF Init, EmptyStore
  <2>2. DOMAIN store.jobs = {} /\ DOMAIN store.leases = {} /\ IsFiniteSet({})
    BY <2>1, FS_EmptySet DEF EmptyMap
  <2>3. Sound(store)
    BY <2>1, <2>2 DEF Sound, LeaseMatrixHolds
  <2> QED BY <2>1, <2>3, CapacityAssumption DEF SchedInv, Listing, Sorted, Mirrors
<1>2. SchedInv /\ [Next]_vars => SchedInv'
  BY OtherStep, RunOnceStep, Zenon
<1> QED BY <1>1, <1>2, PTL DEF Spec

(* The queue is always the sorted list of stored QUEUED jobs, with jobs     *)
(* missing at most: what admit, remove and restore keep up together with    *)
(* the store's writes.                                                      *)
THEOREM QueueIsDerived == Spec => []QueueMirrorsStore
<1>1. SchedInv => QueueMirrorsStore
  BY Zenon DEF SchedInv, Listing, Sorted, Mirrors, QueueMirrorsStore
<1> QED BY <1>1, SchedulingInvariant, PTL

(* The queue and the store part only at a refused admission to a full queue *)
(* whose rollback is lost.                                                  *)
THEOREM QueueDivergesOnlyWhenFull == Spec => DivergesOnlyWhenFull
<1> DEFINE Step == Diverged(queue, store.jobs)' /\ ~Diverged(queue, store.jobs) =>
             \/ Len(queue) = QueueCapacity /\ DOMAIN store.jobs # DOMAIN store'.jobs
             \/ ~serving'
<1>1. SchedInv /\ SchedInv' /\ [Next]_vars => [Step]_vars
  <2> SUFFICES ASSUME SchedInv, SchedInv', [Next]_vars PROVE Step
    BY Zenon
  <2>1. LosesNone
    BY OtherStep, RunOnceStep, Zenon
  <2>2. Diverged(queue, store.jobs) <=> Ids(queue) # Queued(store.jobs)
    BY DivergedMeansMissing, Zenon DEF SchedInv
  <2>3. Diverged(queue', store'.jobs) <=> Ids(queue') # Queued(store'.jobs)
    BY DivergedMeansMissing DEF SchedInv
  <2> QED BY <2>1, <2>2, <2>3, Zenon DEF LosesNone
<1> QED BY <1>1, SchedulingInvariant, PTL DEF Spec, DivergesOnlyWhenFull

(* A daemon that serves again holds exactly the QUEUED jobs, in order, and  *)
(* a restore is refused only for more of them than the queue holds.         *)
THEOREM RestartsServe == Spec => RestartRestoresQueue
<1> DEFINE Step == ~serving /\ serving' =>
                     QueueMirrorsStore' /\ ~Diverged(queue, store.jobs)'
           Room == Cardinality(Queued(store.jobs)) <= QueueCapacity =>
                     RestoreAccepted(store.jobs, store.leases, store.revision)
<1>1. SchedInv /\ SchedInv' /\ [Next]_vars => [Step]_vars
  <2> SUFFICES ASSUME SchedInv, SchedInv', [Next]_vars, ~serving, serving'
               PROVE  QueueMirrorsStore' /\ ~Diverged(queue, store.jobs)'
    BY Zenon
  <2>1. ASSUME NEW reachable \in BOOLEAN, RunOnce(reachable) PROVE FALSE
    BY <2>1, Zenon DEF RunOnce
  <2>2. Ids(queue') = Queued(store'.jobs)
    BY <2>1, OtherStep, Zenon
  <2>3. Diverged(queue', store'.jobs) <=> Ids(queue') # Queued(store'.jobs)
    BY DivergedMeansMissing DEF SchedInv
  <2>4. QueueMirrorsStore'
    BY Zenon DEF SchedInv, Listing, Sorted, Mirrors, QueueMirrorsStore
  <2> QED BY <2>2, <2>3, <2>4
<1>2. SchedInv => Room
  BY RefusedOnlyWhenFull
<1> QED BY <1>1, <1>2, SchedulingInvariant, PTL DEF Spec, RestartRestoresQueue

(* FIFO up to placement: whoever starts, no job submitted earlier that      *)
(* still waits could have used a free GPU.                                  *)
THEOREM FifoUpToPlacement == Spec => NoOvertaking
<1> DEFINE Step == \A j \in DOMAIN store.jobs : Starts(j) =>
             \A k \in Queued(store.jobs) : Before(k, j) => Acceptable(k) \cap FreeGpus = {}
<1>1. SchedInv /\ [Next]_vars => [Step]_vars
  <2> SUFFICES ASSUME SchedInv, [Next]_vars,
                      NEW j \in DOMAIN store.jobs, Starts(j),
                      NEW k \in Queued(store.jobs), Before(k, j)
               PROVE  Acceptable(k) \cap FreeGpus = {}
    BY Zenon
  <2>1. PICK reachable \in BOOLEAN : RunOnce(reachable)
    BY OtherStep DEF StartsNone
  <2>2. PICK d : d = Decision(queue, store.jobs, store.leases, observed)
    OBVIOUS
  <2>3. j = d.job
    BY <2>1, <2>2, RunOnceStep, Zenon
  <2>4. PICK A, targets : /\ A = Available(observed, store.leases)
                          /\ targets = collect_affinity_targets(queue, store.jobs)
    OBVIOUS
  <2>5. Len(queue) \in Nat /\ DOMAIN queue = 1 .. Len(queue) /\ d.code = "SELECTED"
    <3>1. Len(queue) \in Nat /\ DOMAIN queue = 1 .. Len(queue)
      BY DEF SchedInv, Listing
    <3> QED BY <3>1, <2>1, <2>2, Zenon DEF RunOnce
  <2>6. /\ ~Diverged(queue, store.jobs)
        /\ \E first : FoundAt(queue, store.jobs, A, targets, d, first)
    BY <2>2, <2>4, <2>5, DecisionFound, Zenon
  <2>7. PICK first : FoundAt(queue, store.jobs, A, targets, d, first)
    BY <2>6, Zenon
  <2>8. first \in DOMAIN queue /\ queue[first].job_id = j /\ first \in Nat
    <3>1. first \in 1 .. Window(queue) /\ queue[first].job_id = j
      BY <2>3, <2>7, Zenon DEF FoundAt
    <3>2. \A i \in 1 .. Window(queue) : i \in 1 .. Len(queue) /\ i \in Nat
      BY <2>5, ScanAssumption DEF Window
    <3> QED BY <3>1, <3>2, <2>5, Zenon
  <2>9. Ids(queue) = Queued(store.jobs)
    BY <2>6, DivergedMeansMissing, Zenon DEF SchedInv
  <2>10. PICK i \in DOMAIN queue : queue[i].job_id = k
    BY <2>9, Zenon DEF Ids
  <2>11. entry_less(queue[i], queue[first])
    BY <2>8, <2>10, Zenon DEF SchedInv, Listing, Mirrors, Before
  <2>12. queue[i] \in QueueEntry /\ queue[first] \in QueueEntry
    BY <2>8, <2>10 DEF SchedInv, Listing
  <2>13. i < first
    <3>1. ~entry_less(queue[first], queue[i]) /\ ~entry_less(queue[i], queue[i])
      BY <2>11, <2>12, EntryOrder, Zenon
    <3> QED BY <3>1, <2>5, <2>8, <2>11 DEF SchedInv, Listing, Sorted
  <2>14. Select(store.jobs[k].spec, A, targets) = NoGpu
    BY <2>5, <2>7, <2>8, <2>10, <2>13 DEF FoundAt
  <2>15. A \in SUBSET GpuUuid /\ A = FreeGpus
    BY <2>4, ObservationAssumption DEF SchedInv, Available, FreeGpus, IsMap
  <2>16. A \cap Accepted(store.jobs[k].spec) = {}
    BY <2>14, <2>15, SelectSound
  <2> QED BY <2>15, <2>16, Zenon DEF Accepted, Acceptable
<1> QED BY <1>1, SchedulingInvariant, PTL DEF Spec, NoOvertaking

(* A job starts on a GPU that is observed free, that nobody holds and that  *)
(* its placement accepts, and ANY takes a wanted GPU only as the last       *)
(* resort.                                                                  *)
THEOREM PlacementIsRespected == Spec => PlacementRespected
<1> DEFINE Step == \A j \in DOMAIN store.jobs : Starts(j) =>
             /\ leases_of(store'.leases, j) \subseteq FreeGpus \cap Acceptable(j)
             /\ store.jobs[j].spec.mode = "ANY" /\ leases_of(store'.leases, j) \cap Wanted # {}
                  => FreeGpus \subseteq Wanted
<1>1. SchedInv /\ [Next]_vars => [Step]_vars
  <2> SUFFICES ASSUME SchedInv, [Next]_vars, NEW j \in DOMAIN store.jobs, Starts(j)
               PROVE  /\ leases_of(store'.leases, j) \subseteq FreeGpus \cap Acceptable(j)
                      /\ store.jobs[j].spec.mode = "ANY" /\ leases_of(store'.leases, j) \cap Wanted # {}
                           => FreeGpus \subseteq Wanted
    BY Zenon
  <2>1. PICK reachable \in BOOLEAN : RunOnce(reachable)
    BY OtherStep DEF StartsNone
  <2>2. PICK d : d = Decision(queue, store.jobs, store.leases, observed)
    OBVIOUS
  <2>3. j = d.job /\ leases_of(store'.leases, j) = {d.gpu}
    BY <2>1, <2>2, RunOnceStep, Zenon
  <2>4. PICK A, targets : /\ A = Available(observed, store.leases)
                          /\ targets = collect_affinity_targets(queue, store.jobs)
    OBVIOUS
  <2>5. Len(queue) \in Nat /\ d.code = "SELECTED"
    <3>1. Len(queue) \in Nat
      BY DEF SchedInv, Listing
    <3> QED BY <3>1, <2>1, <2>2, Zenon DEF RunOnce
  <2>6. /\ ~Diverged(queue, store.jobs)
        /\ \E first : FoundAt(queue, store.jobs, A, targets, d, first)
    BY <2>2, <2>4, <2>5, DecisionFound, Zenon
  <2>7. d.gpu = Select(store.jobs[j].spec, A, targets) /\ d.gpu # NoGpu
    BY <2>3, <2>6, Zenon DEF FoundAt
  <2>8. Ids(queue) = Queued(store.jobs)
    BY <2>6, DivergedMeansMissing DEF SchedInv
  <2>9. targets = Wanted
    BY <2>4, <2>8, TargetsAreWanted
  <2>10. A \in SUBSET GpuUuid /\ A = FreeGpus
    BY <2>4, ObservationAssumption DEF SchedInv, Available, FreeGpus, IsMap
  <2>11. /\ d.gpu \in A \cap Accepted(store.jobs[j].spec)
         /\ store.jobs[j].spec.mode = "ANY" /\ d.gpu \in targets => A \subseteq targets
    BY <2>7, <2>10, SelectSound
  <2> QED BY <2>3, <2>9, <2>10, <2>11, Zenon DEF Accepted, Acceptable
<1> QED BY <1>1, SchedulingInvariant, PTL DEF Spec, PlacementRespected

=============================================================================
