---------------------------- MODULE BoardProofs ----------------------------
EXTENDS JobManagerInv, WellFoundedInduction, TLAPS
(***************************************************************************)
(* What the mutations of StoreWrites do to a sound store and what the      *)
(* scheduler selects from one; that every step of the daemon keeps         *)
(* BoardInv and is, between the two stores, a step of the board; and what  *)
(* the steps do to the store.                                              *)
(***************************************************************************)

(* The records the writes make are in the state they are made for, and keep *)
(* the identity.                                                            *)
LEMMA MovedRecord ==
  ASSUME NEW r, {"state", "identity"} \subseteq DOMAIN r, NEW st
  PROVE  /\ Moved(r, st).state = st /\ Moved(r, st).identity = r.identity
         /\ {"state", "identity"} \subseteq DOMAIN Moved(r, st)
BY DEF Moved

(* Likewise of Ended, ...                                                   *)
LEMMA EndedRecord ==
  ASSUME NEW r, {"state", "identity"} \subseteq DOMAIN r, NEW st, NEW exit, NEW now
  PROVE  /\ Ended(r, st, exit, now).state = st /\ Ended(r, st, exit, now).identity = r.identity
         /\ {"state", "identity"} \subseteq DOMAIN Ended(r, st, exit, now)
BY MovedRecord DEF Ended

(* ... while Running stores the identity.                                   *)
LEMMA RunningRecord ==
  ASSUME NEW r, {"state", "identity"} \subseteq DOMAIN r, NEW id, NEW now
  PROVE  /\ Running(r, id, now).state = "RUNNING" /\ Running(r, id, now).identity = id
         /\ {"state", "identity"} \subseteq DOMAIN Running(r, id, now)
BY MovedRecord DEF Running

(* A write that creates no job and takes no lease is a rewriting, as far as *)
(* the store accepts it.                                                    *)
LEMMA UpdateResult ==
  ASSUME NEW s, NEW m, NEW ok, StoreOK(s), Written(s, m, ok),
         m.create_jobs = EmptyMap, m.acquire_leases = EmptyMap
  PROVE  Rewritten(s, Applied(s, m, ok), m.update_jobs, m.release_leases)
<1> DEFINE t == Applied(s, m, ok)
           U == m.update_jobs
           R == m.release_leases
<1>1. t.jobs = next_jobs(s.jobs, m) /\ t.leases = next_leases(s.leases, m)
  BY DEF Applied
<1>2. Overlay(s.jobs, m.create_jobs) = s.jobs
  BY DEF Overlay, EmptyMap, StoreOK
<1>3. next_jobs(s.jobs, m) = Overlay(s.jobs, U)
  BY <1>2 DEF next_jobs
<1>4. next_leases(s.leases, m) = Without(s.leases, R)
  BY DEF next_leases, Overlay, Without, EmptyMap
<1>5. UpdatesAccepted(s.jobs, m) /\ R \subseteq DOMAIN s.leases
  BY <1>2 DEF Written, Accepts, AcceptsEntries
<1>6. DOMAIN U \subseteq DOMAIN s.jobs /\ \A j \in DOMAIN U : can_transition(s.jobs[j].state, U[j].state)
  BY <1>5 DEF UpdatesAccepted, UpdateAccepted
<1>7. LeaseMatrixHolds(t.jobs, t.leases)
  BY <1>1, Zenon DEF Written, Accepts
<1>8. t.jobs = [j \in DOMAIN s.jobs |-> IF j \in DOMAIN U THEN U[j] ELSE s.jobs[j]]
  BY <1>1, <1>3, <1>6 DEF Overlay
<1>9. t.leases = [g \in DOMAIN s.leases \ R |-> s.leases[g]]
  BY <1>1, <1>4 DEF Without
<1> QED BY <1>5, <1>6, <1>7, <1>8, <1>9 DEF Rewritten

(* A rewriting leaves a sound store behind.                                 *)
LEMMA RewrittenOK ==
  ASSUME NEW s, NEW t, NEW U, NEW R, StoreOK(s), Rewritten(s, t, U, R),
         \A j \in DOMAIN U : {"state", "identity"} \subseteq DOMAIN U[j]
  PROVE  StoreOK(t)
<1>1. DOMAIN t.jobs = DOMAIN s.jobs /\ t.jobs = [j \in DOMAIN t.jobs |-> t.jobs[j]]
  BY DEF Rewritten
<1>2. DOMAIN t.leases \subseteq DOMAIN s.leases /\ t.leases = [g \in DOMAIN t.leases |-> t.leases[g]]
  BY DEF Rewritten
<1>3. \A j \in DOMAIN t.jobs : {"state", "identity"} \subseteq DOMAIN t.jobs[j]
  BY DEF Rewritten, StoreOK
<1> QED BY <1>1, <1>2, <1>3 DEF StoreOK, Rewritten

(* How a job stands before and after its record changes from a to b.        *)
LEMMA Standings ==
  ASSUME NEW a, NEW b, can_transition(a, b)
  PROVE  /\ b = "RUNNING" => Standing(a) = "running" /\ Standing(b) = "running"
         /\ b = "STOPPING" => Standing(a) = "running" /\ Standing(b) = "stopping"
         /\ b = "STARTING" => Standing(a) = "waiting" /\ Standing(b) = "running"
         /\ b = "CANCELLED" => \/ a = "QUEUED" /\ Standing(a) = "waiting"
                               \/ a = "STOPPING" /\ Standing(a) = "stopping"
         /\ b \in {"FINISHED", "FAILED", "LOST"} =>
              \/ a \in {"STARTING", "RUNNING"} /\ Standing(a) = "running"
              \/ a = "STOPPING" /\ Standing(a) = "stopping"
         /\ b \in Terminal => Standing(b) = b
<1>1. Standing("QUEUED") = "waiting" /\ Standing("STOPPING") = "stopping"
  BY DEF Standing, Terminal
<1>2. Standing("STARTING") = "running" /\ Standing("RUNNING") = "running"
  BY DEF Standing, Terminal
<1>3. b \in Terminal => Standing(b) = b
  BY DEF Standing, Terminal
<1> QED BY <1>1, <1>2, <1>3 DEF can_transition

(* A change of one record that leaves the leases alone.                     *)
LEMMA MoveSeen ==
  ASSUME NEW s, NEW t, NEW U, NEW j, StoreOK(s), Rewritten(s, t, U, {}),
         DOMAIN U = {j}, U[j].state \in {"RUNNING", "STOPPING", "CANCELLED"}
  PROVE  Unseen(s, t) \/ MoveStep(s, t)
<1> DEFINE a == s.jobs[j].state
           b == U[j].state
<1>1. t.leases = s.leases
  BY DEF Rewritten, StoreOK
<1>2. j \in DOMAIN s.jobs /\ can_transition(a, b)
  BY DEF Rewritten
<1>3. View(t) = Put(View(s), j, Standing(b))
  BY <1>2 DEF Rewritten, View, Put
<1>4. View(s)[j] = Standing(a)
  BY <1>2 DEF View
<1>5. CASE b = "RUNNING"
  <2>1. Standing(b) = View(s)[j]
    BY <1>2, <1>4, <1>5, Standings
  <2>2. View(t) = View(s)
    BY <2>1, <1>2, <1>3, Zenon DEF View, Put
  <2> QED BY <2>2, <1>1 DEF Unseen
<1>6. CASE b = "STOPPING"
  BY <1>1, <1>2, <1>3, <1>4, <1>6, Standings DEF MoveStep
<1>7. CASE b = "CANCELLED"
  <2>1. a # "STOPPING"
    <3> SUFFICES ASSUME a = "STOPPING" PROVE FALSE
      OBVIOUS
    <3>1. PICK g \in DOMAIN s.leases : s.leases[g] = j
      BY <1>2 DEF StoreOK, LeaseMatrixHolds, leaseable
    <3>2. leaseable(t.jobs[j].state)
      BY <1>1, <3>1 DEF Rewritten, LeaseMatrixHolds
    <3>3. t.jobs[j] = U[j]
      BY <1>2 DEF Rewritten
    <3> QED BY <3>2, <3>3, <1>7 DEF leaseable
  <2>2. Standing(a) = "waiting" /\ Standing(b) = "CANCELLED"
    BY <2>1, <1>2, <1>7, Standings DEF Terminal
  <2> QED BY <2>2, <1>1, <1>2, <1>3, <1>4 DEF MoveStep
<1> QED BY <1>5, <1>6, <1>7

(* Jobs end and give up their GPUs; other records may become RUNNING.       *)
LEMMA EndSeen ==
  ASSUME NEW s, NEW t, NEW U, NEW R, NEW S, StoreOK(s), Rewritten(s, t, U, R),
         S \subseteq DOMAIN U, R = {g \in DOMAIN s.leases : s.leases[g] \in S},
         \A j \in S : /\ leaseable(s.jobs[j].state)
                      /\ U[j].state \in Terminal
                      /\ s.jobs[j].state = "STOPPING" => U[j].state \in {"CANCELLED", "LOST"},
         \A j \in DOMAIN U \ S : U[j].state = "RUNNING"
  PROVE  Unseen(s, t) \/ EndStep(s, t)
<1> DEFINE outcome == [j \in S |-> U[j].state]
<1>1. \A j \in DOMAIN U : j \in DOMAIN s.jobs /\ can_transition(s.jobs[j].state, U[j].state)
  BY DEF Rewritten
<1>2. t.leases = [g \in {h \in DOMAIN s.leases : s.leases[h] \notin S} |-> s.leases[g]]
  BY DEF Rewritten
<1>3. DOMAIN View(s) = DOMAIN s.jobs /\ \A j \in DOMAIN s.jobs : View(s)[j] = Standing(s.jobs[j].state)
  BY DEF View
<1>4. \A j \in DOMAIN U \ S : Standing(U[j].state) = View(s)[j]
  BY <1>1, <1>3, Standings
<1>5. \A j \in S : Standing(U[j].state) = outcome[j] /\ outcome[j] \in Terminal
  BY <1>1, Standings
<1>6. View(t) = [j \in DOMAIN s.jobs |-> Standing(t.jobs[j].state)]
  BY DEF View, Rewritten
<1>7. \A j \in DOMAIN s.jobs : t.jobs[j] = IF j \in DOMAIN U THEN U[j] ELSE s.jobs[j]
  BY DEF Rewritten
<1>8. \A j \in DOMAIN s.jobs :
        Standing(t.jobs[j].state) = IF j \in S THEN outcome[j] ELSE View(s)[j]
  BY <1>3, <1>4, <1>5, <1>7
<1>9. View(t) = [j \in DOMAIN s.jobs |-> IF j \in S THEN outcome[j] ELSE View(s)[j]]
  BY <1>6, <1>8
<1>10. CASE S = {}
  <2>1. View(t) = View(s)
    BY <1>9, <1>10, Zenon DEF View
  <2>2. t.leases = s.leases
    BY <1>2, <1>10 DEF StoreOK
  <2> QED BY <2>1, <2>2 DEF Unseen
<1>11. CASE S # {}
  <2>1. outcome \in [S -> Terminal] /\ S \in SUBSET DOMAIN View(s)
    BY <1>1, <1>3, <1>5
  <2>2. ASSUME NEW j \in S
        PROVE  \/ View(s)[j] = "stopping" /\ outcome[j] \in {"CANCELLED", "LOST"}
               \/ View(s)[j] = "running" /\ outcome[j] \in {"FINISHED", "FAILED", "LOST"}
    <3>1. can_transition(s.jobs[j].state, outcome[j]) /\ View(s)[j] = Standing(s.jobs[j].state)
      BY <1>1, <1>3
    <3>2. s.jobs[j].state # "QUEUED"
      BY DEF leaseable
    <3>3. s.jobs[j].state = "STOPPING" => outcome[j] \in {"CANCELLED", "LOST"}
      OBVIOUS
    <3>4. outcome[j] \in {"FINISHED", "FAILED", "LOST"} \/ outcome[j] = "CANCELLED"
      BY <1>5 DEF Terminal
    <3> QED BY <3>1, <3>2, <3>3, <3>4, Standings
  <2>3. View(t) = [j \in DOMAIN View(s) |-> IF j \in S THEN outcome[j] ELSE View(s)[j]]
    BY <1>3, <1>9
  <2> HIDE DEF outcome
  <2> QED BY <2>1, <2>2, <2>3, <1>2, <1>11 DEF EndStep, Ends
<1> QED BY <1>10, <1>11

(* A lease released with the end of one job is the lease of that job: the   *)
(* lease matrix of the new store would not hold otherwise.                  *)
LEMMA OwnLease ==
  ASSUME NEW s, NEW t, NEW U, NEW j, NEW g, StoreOK(s), Rewritten(s, t, U, {g}),
         DOMAIN U = {j}, ~leaseable(U[j].state)
  PROVE  {g} = {h \in DOMAIN s.leases : s.leases[h] \in {j}} /\ leaseable(s.jobs[j].state)
<1>1. g \in DOMAIN s.leases /\ t.jobs[j] = U[j] /\ j \in DOMAIN s.jobs
  BY DEF Rewritten
<1>2. \A h \in DOMAIN s.leases : h # g => h \in DOMAIN t.leases /\ t.leases[h] = s.leases[h]
  BY DEF Rewritten
<1>3. \A h \in DOMAIN t.leases : t.leases[h] # j
  BY <1>1 DEF Rewritten, LeaseMatrixHolds
<1>4. s.leases[g] = j
  <2> SUFFICES ASSUME NEW k, k = s.leases[g], k # j PROVE FALSE
    OBVIOUS
  <2>1. k \in DOMAIN s.jobs /\ leaseable(s.jobs[k].state)
    BY <1>1 DEF StoreOK, LeaseMatrixHolds
  <2>2. k \in DOMAIN t.jobs /\ t.jobs[k] = s.jobs[k]
    BY <2>1 DEF Rewritten
  <2>3. PICK h \in DOMAIN t.leases : t.leases[h] = k
    BY <2>1, <2>2, Zenon DEF Rewritten, LeaseMatrixHolds
  <2>4. h \in DOMAIN s.leases /\ h # g /\ s.leases[h] = k
    BY <2>3 DEF Rewritten
  <2> QED BY <2>1, <2>4, <1>1 DEF StoreOK, LeaseMatrixHolds
<1>5. leaseable(s.jobs[j].state)
  BY <1>1, <1>4 DEF StoreOK, LeaseMatrixHolds
<1> QED BY <1>1, <1>2, <1>3, <1>4, <1>5

(* rewrite_job: the write is refused and nothing changes, or the record of  *)
(* one job is replaced.                                                     *)
LEMMA RewriteResult ==
  ASSUME NEW s, NEW j, NEW record, NEW R, NEW ok, StoreOK(s),
         j \in DOMAIN s.jobs => {"state", "identity"} \subseteq DOMAIN record,
         NEW t, t = Applied(s, RewriteMutation(s, j, record, R), ok)
  PROVE  /\ StoreOK(t)
         /\ Wrote(s, t, j, record.state, record.identity)
         /\ t = s \/ Rewritten(s, t, [k \in {j} |-> record], R)
         /\ Written(s, RewriteMutation(s, j, record, R), ok) =>
              Rewritten(s, t, [k \in {j} |-> record], R)
<1> DEFINE m == RewriteMutation(s, j, record, R)
           U == [k \in {j} |-> record]
<1>1. CASE ~Written(s, m, ok)
  BY <1>1 DEF Applied, Wrote
<1>2. CASE Written(s, m, ok)
  <2>1. m.update_jobs = U /\ m.release_leases = R
    BY DEF RewriteMutation
  <2>2. m.create_jobs = EmptyMap /\ m.acquire_leases = EmptyMap
    BY DEF RewriteMutation
  <2> HIDE DEF m
  <2>3. Rewritten(s, t, U, R)
    BY <1>2, <2>1, <2>2, UpdateResult DEF m
  <2>4. StoreOK(t)
    <3>1. \A k \in DOMAIN U : {"state", "identity"} \subseteq DOMAIN U[k]
      BY <2>3 DEF Rewritten
    <3> HIDE DEF U
    <3> QED BY <2>3, <3>1, RewrittenOK
  <2>5. Wrote(s, t, j, record.state, record.identity)
    BY <2>3 DEF Wrote, Rewritten, OnlyOf
  <2> QED BY <1>2, <2>3, <2>4, <2>5 DEF m
<1> QED BY <1>1, <1>2

(* The writes of a cancel.                                                  *)
LEMMA MoveWrite ==
  ASSUME NEW s, NEW j, NEW st \in {"STOPPING", "CANCELLED"}, NEW ok, StoreOK(s),
         NEW t, t = Applied(s, MoveMutation(s, j, st), ok)
  PROVE  /\ StoreOK(t) /\ Wrote(s, t, j, st, s.jobs[j].identity)
         /\ Unseen(s, t) \/ MoveStep(s, t)
         /\ Written(s, MoveMutation(s, j, st), ok) => j \in DOMAIN s.jobs /\ t.jobs[j].state = st
<1>1. PICK record : record = Moved(s.jobs[j], st)
  BY Zenon
<1>2. MoveMutation(s, j, st) = RewriteMutation(s, j, record, {})
  BY <1>1 DEF MoveMutation
<1>3. j \in DOMAIN s.jobs =>
        /\ {"state", "identity"} \subseteq DOMAIN record
        /\ record.state = st /\ record.identity = s.jobs[j].identity
  BY <1>1, MovedRecord DEF StoreOK
<1>4. /\ StoreOK(t) /\ Wrote(s, t, j, record.state, record.identity)
      /\ t = s \/ Rewritten(s, t, [k \in {j} |-> record], {})
      /\ Written(s, RewriteMutation(s, j, record, {}), ok) =>
           Rewritten(s, t, [k \in {j} |-> record], {})
  <2>1. t = Applied(s, RewriteMutation(s, j, record, {}), ok)
    BY <1>2, Zenon
  <2> QED BY <1>3, <2>1, RewriteResult, ZenonT(30)
<1>5. Wrote(s, t, j, st, s.jobs[j].identity)
  BY <1>3, <1>4 DEF Wrote
<1>6. CASE ~Rewritten(s, t, [k \in {j} |-> record], {})
  BY <1>2, <1>4, <1>5, <1>6 DEF Unseen
<1>7. CASE Rewritten(s, t, [k \in {j} |-> record], {})
  <2>1. j \in DOMAIN s.jobs /\ t.jobs[j] = record
    BY <1>7 DEF Rewritten
  <2>2. Unseen(s, t) \/ MoveStep(s, t)
    BY <1>3, <1>7, <2>1, MoveSeen
  <2> QED BY <1>3, <1>4, <1>5, <2>1, <2>2
<1> QED BY <1>4, <1>6, <1>7

(* The RUNNING write.                                                       *)
LEMMA RunningWrite ==
  ASSUME NEW s, NEW j, NEW id, NEW now, NEW ok, StoreOK(s),
         NEW t, t = Applied(s, RewriteMutation(s, j, Running(s.jobs[j], id, now), {}), ok)
  PROVE  StoreOK(t) /\ Wrote(s, t, j, "RUNNING", id) /\ Unseen(s, t)
<1>1. PICK record : record = Running(s.jobs[j], id, now)
  BY Zenon
<1>2. j \in DOMAIN s.jobs =>
        /\ {"state", "identity"} \subseteq DOMAIN record
        /\ record.state = "RUNNING" /\ record.identity = id
  BY <1>1, RunningRecord DEF StoreOK
<1>3. /\ StoreOK(t) /\ Wrote(s, t, j, record.state, record.identity)
      /\ t = s \/ Rewritten(s, t, [k \in {j} |-> record], {})
  BY <1>1, <1>2, RewriteResult, Zenon
<1>4. Wrote(s, t, j, "RUNNING", id)
  BY <1>2, <1>3 DEF Wrote
<1>5. CASE t = s
  BY <1>3, <1>4, <1>5 DEF Unseen
<1>6. CASE Rewritten(s, t, [k \in {j} |-> record], {})
  <2>1. j \in DOMAIN s.jobs /\ can_transition(s.jobs[j].state, "RUNNING")
    BY <1>2, <1>6 DEF Rewritten
  <2>2. Standing(s.jobs[j].state) = "running" /\ Standing("RUNNING") = "running"
    BY <2>1, Standings
  <2>3. DOMAIN t.jobs = DOMAIN s.jobs
        /\ \A k \in DOMAIN s.jobs : t.jobs[k] = IF k = j THEN record ELSE s.jobs[k]
    BY <1>6 DEF Rewritten
  <2>4. \A k \in DOMAIN s.jobs : Standing(t.jobs[k].state) = Standing(s.jobs[k].state)
    BY <1>2, <2>1, <2>2, <2>3
  <2>5. View(t) = View(s)
    BY <2>3, <2>4 DEF View
  <2>6. t.leases = s.leases
    BY <1>6 DEF Rewritten, StoreOK
  <2> QED BY <1>3, <1>4, <2>5, <2>6 DEF Unseen
<1> QED BY <1>3, <1>5, <1>6

(* fail_launch and process_exit.                                            *)
LEMMA EndWrite ==
  ASSUME NEW s, NEW j, NEW g, NEW st, NEW exit, NEW now, NEW ok, StoreOK(s),
         j \in DOMAIN s.jobs, st \in Terminal,
         s.jobs[j].state = "STOPPING" => st \in {"CANCELLED", "LOST"},
         NEW t, t = Applied(s, EndMutation(s, j, g, st, exit, now), ok)
  PROVE  /\ StoreOK(t) /\ Wrote(s, t, j, st, s.jobs[j].identity)
         /\ Unseen(s, t) \/ EndStep(s, t)
<1>1. {"state", "identity"} \subseteq DOMAIN s.jobs[j]
  BY DEF StoreOK
<1>2. CASE is_terminal(s.jobs[j].state)
  <2>1. t = Applied(s, RewriteMutation(s, j, s.jobs[j], {}), ok)
    BY <1>2 DEF EndMutation
  <2>2. ~can_transition(s.jobs[j].state, s.jobs[j].state)
    BY DEF can_transition
  <2>3. ~Rewritten(s, t, [k \in {j} |-> s.jobs[j]], {})
    BY <2>2 DEF Rewritten
  <2>4. t = s
    BY <1>1, <2>1, <2>3, RewriteResult, Zenon
  <2> QED BY <2>4 DEF Wrote, Unseen
<1>3. CASE ~is_terminal(s.jobs[j].state)
  <2>1. PICK record : record = Ended(s.jobs[j], st, exit, now)
    BY Zenon
  <2>2. /\ record.state = st /\ record.identity = s.jobs[j].identity
        /\ {"state", "identity"} \subseteq DOMAIN record
    BY <1>1, <2>1, EndedRecord
  <2>3. t = Applied(s, RewriteMutation(s, j, record, {g}), ok)
    BY <1>3, <2>1 DEF EndMutation
  <2>4. /\ StoreOK(t) /\ Wrote(s, t, j, st, s.jobs[j].identity)
        /\ t = s \/ Rewritten(s, t, [k \in {j} |-> record], {g})
    BY <2>2, <2>3, RewriteResult, ZenonT(30)
  <2>5. CASE t = s
    BY <2>4, <2>5 DEF Unseen
  <2>6. CASE Rewritten(s, t, [k \in {j} |-> record], {g})
    <3> DEFINE U == [k \in {j} |-> record]
    <3>1. DOMAIN U = {j} /\ U[j].state = st
      BY <2>2
    <3>2. ~leaseable(st)
      BY DEF leaseable, Terminal
    <3> HIDE DEF U
    <3>3. {g} = {h \in DOMAIN s.leases : s.leases[h] \in {j}} /\ leaseable(s.jobs[j].state)
      BY <2>6, <3>1, <3>2, OwnLease, Zenon DEF U
    <3>4. Unseen(s, t) \/ EndStep(s, t)
      <4>1. PICK S : S = {j}
        BY Zenon
      <4>2. PICK R : R = {g}
        BY Zenon
      <4>3. Rewritten(s, t, U, R) /\ S \subseteq DOMAIN U
        BY <2>6, <3>1, <4>1, <4>2 DEF U
      <4>4. R = {h \in DOMAIN s.leases : s.leases[h] \in S}
        BY <3>3, <4>1, <4>2
      <4>5. \A k \in S : /\ leaseable(s.jobs[k].state)
                         /\ U[k].state \in Terminal
                         /\ s.jobs[k].state = "STOPPING" => U[k].state \in {"CANCELLED", "LOST"}
        BY <3>1, <3>3, <4>1
      <4>6. \A k \in DOMAIN U \ S : U[k].state = "RUNNING"
        BY <3>1, <4>1
      <4> QED BY <4>3, <4>4, <4>5, <4>6, EndSeen, Zenon
    <3> QED BY <2>4, <3>4
  <2> QED BY <2>4, <2>5, <2>6
<1> QED BY <1>2, <1>3

(* The STARTING write of the scheduler.                                     *)
LEMMA StartWrite ==
  ASSUME NEW s, NEW j, NEW g \in GpuUuid, NEW ok, StoreOK(s),
         Written(s, StartMutation(s.jobs, s.revision, j, g), ok),
         NEW t, t = Applied(s, StartMutation(s.jobs, s.revision, j, g), ok)
  PROVE  /\ StoreOK(t) /\ LaunchStep(s, t)
         /\ Started(s, t, j, g)
<1>1. PICK record : record = [s.jobs[j] EXCEPT !.state = "STARTING", !.revision = @ + 1]
  BY Zenon
<1>2. PICK m : m = StartMutation(s.jobs, s.revision, j, g)
  BY Zenon
<1>3. /\ m.create_jobs = EmptyMap /\ m.update_jobs = [k \in {j} |-> record]
      /\ m.release_leases = {} /\ m.acquire_leases = [h \in {g} |-> j]
  BY <1>1, <1>2 DEF StartMutation
<1>4. t.jobs = next_jobs(s.jobs, m) /\ t.leases = next_leases(s.leases, m)
  BY <1>2 DEF Applied
<1>5. Overlay(s.jobs, m.create_jobs) = s.jobs
  BY <1>3 DEF Overlay, EmptyMap, StoreOK
<1>6. UpdatesAccepted(s.jobs, m) /\ LeaseMatrixHolds(t.jobs, t.leases)
      /\ AcquiresAccepted(t.jobs, Without(s.leases, m.release_leases), m)
  BY <1>2, <1>4, <1>5, Zenon DEF Written, Accepts, AcceptsEntries
<1>7. j \in DOMAIN s.jobs /\ can_transition(s.jobs[j].state, record.state)
  BY <1>3, <1>6 DEF UpdatesAccepted, UpdateAccepted
<1>8. /\ {"state", "identity"} \subseteq DOMAIN record /\ record.state = "STARTING"
      /\ record.identity = s.jobs[j].identity
  BY <1>1, <1>7 DEF StoreOK
<1>9. t.jobs = [k \in DOMAIN s.jobs |-> IF k = j THEN record ELSE s.jobs[k]]
  <2>1. t.jobs = Overlay(s.jobs, [k \in {j} |-> record])
    BY <1>3, <1>4, <1>5 DEF next_jobs
  <2>2. DOMAIN s.jobs \cup {j} = DOMAIN s.jobs
    BY <1>7
  <2> QED BY <2>1, <2>2 DEF Overlay
<1>10. Without(s.leases, m.release_leases) = s.leases
  BY <1>3 DEF Without, StoreOK
<1>11. g \notin DOMAIN s.leases
  BY <1>3, <1>6, <1>10 DEF AcquiresAccepted
<1>12. t.leases = Put(s.leases, g, j)
  BY <1>3, <1>4, <1>10 DEF next_leases, Overlay, Put
<1>13. StoreOK(t)
  <2>1. DOMAIN t.jobs = DOMAIN s.jobs /\ t.jobs = [k \in DOMAIN t.jobs |-> t.jobs[k]]
    BY <1>9
  <2>2. \A k \in DOMAIN t.jobs : {"state", "identity"} \subseteq DOMAIN t.jobs[k]
    BY <1>8, <1>9 DEF StoreOK
  <2>3. DOMAIN t.leases = DOMAIN s.leases \cup {g} /\ t.leases = [h \in DOMAIN t.leases |-> t.leases[h]]
    BY <1>12 DEF Put
  <2> QED BY <1>6, <2>1, <2>2, <2>3 DEF StoreOK
<1>14. LaunchStep(s, t)
  <2>1. Standing(s.jobs[j].state) = "waiting" /\ Standing(record.state) = "running"
    BY <1>7, <1>8, Standings
  <2>2. View(s)[j] = "waiting"
    BY <1>7, <2>1 DEF View
  <2>3. View(t) = Put(View(s), j, "running")
    BY <1>7, <1>9, <2>1 DEF View, Put
  <2> QED BY <1>7, <1>11, <1>12, <2>2, <2>3 DEF LaunchStep
<1>15. Started(s, t, j, g)
  <2>1. s.jobs[j].state = "QUEUED"
    BY <1>7, <1>8 DEF can_transition
  <2>2. DOMAIN t.jobs = DOMAIN s.jobs /\ OnlyOf(s, t, j) /\ t.jobs[j] = record
    BY <1>7, <1>9 DEF OnlyOf
  <2> QED BY <1>7, <1>8, <1>11, <1>12, <2>1, <2>2 DEF Started
<1> QED BY <1>13, <1>14, <1>15

(* The next id is the one after all that are taken.                         *)
LEMMA NextId ==
  ASSUME NEW jobs, NEW n \in Nat, DOMAIN jobs = 1 .. n
  PROVE  next_job_id(jobs) = n + 1
<1>1. DOMAIN jobs \cup {0} = 0 .. n
  OBVIOUS
<1>2. n \in 0 .. n /\ \A j \in DOMAIN jobs : j <= n
  OBVIOUS
<1>3. \A m \in 0 .. n : (\A j \in DOMAIN jobs : j <= m) => m = n
  OBVIOUS
<1>4. (CHOOSE m \in 0 .. n : \A j \in DOMAIN jobs : j <= m) = n
  BY <1>2, <1>3
<1> QED BY <1>1, <1>4 DEF next_job_id

(* The QUEUED record of a submission.                                       *)
LEMMA CreateWrite ==
  ASSUME NEW s, NEW spec, NEW ok, StoreOK(s), NEW j, j = next_job_id(s.jobs),
         Written(s, CreateMutation(s, j, spec), ok),
         NEW t, t = Applied(s, CreateMutation(s, j, spec), ok)
  PROVE  StoreOK(t) /\ SubmitStep(s, t) /\ Created(s, t, j)
<1>1. PICK m : m = CreateMutation(s, j, spec)
  OBVIOUS
<1>2. /\ m.create_jobs = [k \in {j} |-> NewJob(spec)] /\ m.update_jobs = EmptyMap
      /\ m.release_leases = {} /\ m.acquire_leases = EmptyMap
  BY <1>1 DEF CreateMutation
<1>3. t.jobs = next_jobs(s.jobs, m) /\ t.leases = next_leases(s.leases, m)
  BY <1>1 DEF Applied
<1>4. t.jobs = [k \in DOMAIN s.jobs \cup {j} |-> IF k = j THEN NewJob(spec) ELSE s.jobs[k]]
  <2>1. PICK o : o = Overlay(s.jobs, m.create_jobs)
    OBVIOUS
  <2>2. o = [k \in DOMAIN s.jobs \cup {j} |-> IF k = j THEN NewJob(spec) ELSE s.jobs[k]]
    BY <1>2, <2>1 DEF Overlay
  <2>3. Overlay(o, EmptyMap) = o
    BY <2>2 DEF Overlay, EmptyMap
  <2> QED BY <1>2, <1>3, <2>1, <2>2, <2>3 DEF next_jobs
<1>5. t.leases = s.leases
  BY <1>2, <1>3, Zenon DEF next_leases, Overlay, Without, EmptyMap, StoreOK
<1>6. CreatesAccepted(s.jobs, m) /\ LeaseMatrixHolds(t.jobs, t.leases)
  BY <1>1, <1>3, Zenon DEF Written, Accepts, AcceptsEntries
<1>7. DOMAIN m.create_jobs = {j}
  BY <1>2
<1>8. j \notin DOMAIN s.jobs /\ Cardinality(DOMAIN s.jobs \cup {j}) <= MaxJobs
  <2>1. Cardinality(DOMAIN s.jobs \cup DOMAIN m.create_jobs) <= MaxJobs
    <3>1. DOMAIN m.create_jobs # {}
      BY <1>7
    <3> QED BY <1>6, <3>1, Zenon DEF CreatesAccepted
  <2>2. DOMAIN s.jobs \cup DOMAIN m.create_jobs = DOMAIN s.jobs \cup {j}
    BY <1>7
  <2>3. Cardinality(DOMAIN s.jobs \cup {j}) <= MaxJobs
    BY <2>1, <2>2, Zenon
  <2>4. j \notin DOMAIN s.jobs
    BY <1>6, <1>7 DEF CreatesAccepted
  <2> QED BY <2>3, <2>4
<1>9. PICK n \in Nat : DOMAIN s.jobs = 1 .. n /\ 1 .. n \subseteq JobId
  BY DEF StoreOK
<1>10. j = n + 1 /\ DOMAIN s.jobs \cup {j} = 1 .. n + 1
  BY <1>9, NextId
<1>11. n \in JobId \cup {0}
  BY <1>9
<1>12. j \in JobId /\ 1 .. n + 1 \subseteq JobId
  <2>1. Cardinality(1 .. n + 1) <= MaxJobs
    BY <1>8, <1>10, Zenon
  <2>2. j \in JobId
    BY <1>10, <1>11, <2>1, JobIdsAssumption
  <2> QED BY <1>9, <1>10, <2>2
<1>13. /\ NewJob(spec).state = "QUEUED" /\ ~has_identity(NewJob(spec))
       /\ {"state", "identity"} \subseteq DOMAIN NewJob(spec)
  BY DEF NewJob, has_identity
<1>14. StoreOK(t)
  <2>1. DOMAIN t.jobs = 1 .. n + 1 /\ t.jobs = [k \in DOMAIN t.jobs |-> t.jobs[k]]
    BY <1>4, <1>10
  <2>2. \A k \in DOMAIN t.jobs : {"state", "identity"} \subseteq DOMAIN t.jobs[k]
    BY <1>4, <1>13, SMTT(30) DEF StoreOK
  <2>3. n + 1 \in Nat
    OBVIOUS
  <2> QED BY <1>5, <1>6, <1>12, <2>1, <2>2, <2>3 DEF StoreOK
<1>15. View(t) = Put(View(s), j, "waiting")
  <2>1. Standing(NewJob(spec).state) = "waiting"
    BY <1>13 DEF Standing, Terminal
  <2>2. \A k \in DOMAIN t.jobs :
          Standing(t.jobs[k].state) = IF k = j THEN "waiting" ELSE Standing(s.jobs[k].state)
    BY <1>4, <2>1
  <2> QED BY <1>4, <2>2, Zenon DEF View, Put
<1>16. SubmitStep(s, t)
  BY <1>5, <1>8, <1>12, <1>15 DEF SubmitStep
<1> QED BY <1>4, <1>5, <1>8, <1>12, <1>13, <1>14, <1>15, <1>16 DEF Created

(* One chunk of the recovery plan.                                          *)
LEMMA RecoverWrite ==
  ASSUME NEW s, NEW chunk, NEW decision, NEW now, NEW ok, StoreOK(s),
         \A j \in chunk : decision[j] \in {"LOST", "PROMOTED"},
         NEW t, t = Applied(s, RecoveryMutation(s, chunk, decision, now), ok)
  PROVE  /\ StoreOK(t)
         /\ Unseen(s, t) \/ EndStep(s, t)
         /\ IF Written(s, RecoveryMutation(s, chunk, decision, now), ok)
            THEN Chunked(s, t, chunk, decision) ELSE t = s
<1>1. PICK m : m = RecoveryMutation(s, chunk, decision, now)
  BY Zenon
<1>2. PICK U : U = [j \in chunk |-> RecoveredRecord(s.jobs[j], decision[j], now)]
  BY Zenon
<1>3. PICK S : S = {j \in chunk : decision[j] = "LOST"}
  BY Zenon
<1>4. /\ m.create_jobs = EmptyMap /\ m.acquire_leases = EmptyMap
      /\ m.update_jobs = U /\ m.release_leases = Released(s.leases, chunk, decision)
  BY <1>1, <1>2 DEF RecoveryMutation
<1>5. CASE ~Written(s, m, ok)
  <2>1. t = s
    BY <1>1, <1>5 DEF Applied
  <2> QED BY <1>1, <1>5, <2>1 DEF Unseen
<1>6. CASE Written(s, m, ok)
  <2>1. PICK R : R = Released(s.leases, chunk, decision)
    OBVIOUS
  <2>2. Rewritten(s, t, U, R)
    BY <1>1, <1>4, <1>6, <2>1, UpdateResult
  <2>3. DOMAIN U = chunk /\ \A j \in chunk : j \in DOMAIN s.jobs /\ can_transition(s.jobs[j].state, U[j].state)
    BY <1>2, <2>2 DEF Rewritten
  <2>4. ASSUME NEW j \in chunk
        PROVE  /\ U[j].state = IF decision[j] = "LOST" THEN "LOST" ELSE "RUNNING"
               /\ U[j].identity = s.jobs[j].identity
               /\ {"state", "identity"} \subseteq DOMAIN U[j]
    <3>1. {"state", "identity"} \subseteq DOMAIN s.jobs[j]
      BY <2>3 DEF StoreOK
    <3>2. U[j] = RecoveredRecord(s.jobs[j], decision[j], now)
      BY <1>2
    <3>3. CASE decision[j] = "LOST"
      BY <3>1, <3>2, <3>3, EndedRecord, SMTT(30) DEF RecoveredRecord
    <3>4. CASE decision[j] = "PROMOTED"
      BY <3>1, <3>2, <3>4, MovedRecord, SMTT(30) DEF RecoveredRecord
    <3> QED BY <3>3, <3>4
  <2>5. S \subseteq chunk /\ \A j \in S : U[j].state = "LOST"
    BY <1>3, <2>4
  <2>6. R = {g \in DOMAIN s.leases : s.leases[g] \in S}
    BY <1>3, <2>1 DEF Released, leases_of
  <2>7. StoreOK(t)
    BY <2>2, <2>3, <2>4, RewrittenOK, SMTT(30)
  <2>8. Unseen(s, t) \/ EndStep(s, t)
    <3>1. \A j \in S : leaseable(s.jobs[j].state)
      BY <2>3, <2>5 DEF can_transition, leaseable
    <3>2. \A j \in S : /\ leaseable(s.jobs[j].state)
                       /\ U[j].state \in Terminal
                       /\ s.jobs[j].state = "STOPPING" => U[j].state \in {"CANCELLED", "LOST"}
      BY <2>5, <3>1 DEF Terminal
    <3>3. S \subseteq DOMAIN U /\ \A j \in DOMAIN U \ S : U[j].state = "RUNNING"
      BY <1>3, <2>3, <2>4
    <3> QED BY <2>2, <2>6, <3>2, <3>3, EndSeen, Zenon
  <2>9. Chunked(s, t, chunk, decision)
    <3>1. /\ t.jobs = [j \in DOMAIN s.jobs |-> IF j \in chunk THEN U[j] ELSE s.jobs[j]]
          /\ chunk \subseteq DOMAIN s.jobs
      BY <2>2, <2>3 DEF Rewritten
    <3> QED BY <2>3, <2>4, <3>1 DEF Chunked
  <2> QED BY <1>1, <1>6, <2>7, <2>8, <2>9
<1> QED BY <1>5, <1>6

(* A write to any state but STOPPING stops no job.                          *)
LEMMA WroteNoneStopped ==
  ASSUME NEW s, NEW t, NEW j, NEW st, NEW id, Wrote(s, t, j, st, id), st # "STOPPING"
  PROVE  NoneStopped(s, t)
BY DEF Wrote, OnlyOf, NoneStopped

(* The ids of stored jobs.                                                  *)
LEMMA StoredIds ==
  ASSUME NEW s, StoreOK(s)
  PROVE  DOMAIN s.jobs \subseteq JobId
BY DEF StoreOK

(* A step of the board takes no lease away from a job entitled to it.       *)
LEMMA BoardKeepsLeases ==
  ASSUME NEW s, NEW t, StoreOK(s), StoreOK(t), BoardStep(s, t)
  PROVE  LeasesKept(s, t)
<1> SUFFICES ASSUME NEW g \in DOMAIN s.leases, leaseable(t.jobs[s.leases[g]].state)
             PROVE  Holds(t, g, s.leases[g])
  BY DEF LeasesKept
<1>1. CASE t.leases = s.leases
  BY <1>1 DEF Holds
<1>2. CASE LaunchStep(s, t)
  BY <1>2 DEF LaunchStep, Put, Holds
<1>3. CASE EndStep(s, t)
  <2>1. PICK j : j = s.leases[g]
    OBVIOUS
  <2>2. Standing(t.jobs[j].state) \in {"running", "stopping"}
    BY <2>1 DEF Standing, leaseable, Terminal
  <2>3. PICK S, outcome : /\ outcome \in [S -> Terminal] /\ S \subseteq DOMAIN View(s)
          /\ View(t) = [k \in DOMAIN View(s) |-> IF k \in S THEN outcome[k] ELSE View(s)[k]]
          /\ t.leases = [h \in {x \in DOMAIN s.leases : s.leases[x] \notin S} |-> s.leases[h]]
    BY <1>3 DEF EndStep, Ends
  <2>4. ASSUME j \in S PROVE FALSE
    <3>1. View(t)[j] = outcome[j] /\ outcome[j] \in Terminal /\ j \in DOMAIN View(t)
      BY <2>3, <2>4
    <3>2. View(t)[j] = Standing(t.jobs[j].state)
      BY <3>1 DEF View
    <3> QED BY <2>2, <3>1, <3>2 DEF Terminal
  <2> QED BY <2>1, <2>3, <2>4 DEF Holds
<1> QED BY <1>1, <1>2, <1>3 DEF BoardStep, Unseen, SubmitStep, MoveStep

-----------------------------------------------------------------------------
(* What the scheduler selects is an observed GPU.                           *)

(* Every set of natural numbers has a least element.                        *)
LEMMA LeastElement ==
  ASSUME NEW T, T \subseteq Nat, T # {}
  PROVE  \E x \in T : \A y \in T : x <= y
<1>1. PICK R : R = OpToRel(<, Nat)
  BY Zenon
<1>2. IsWellFoundedOn(R, Nat)
  BY <1>1, NatLessThanWellFounded, Zenon
<1>3. PICK x \in T : \A y \in T : ~ (<<y, x>> \in R)
  BY <1>2, WFMin, Zenon
<1>4. \A y \in T : ~(y < x)
  <2> SUFFICES ASSUME NEW y \in T, y < x PROVE <<y, x>> \in R
    BY <1>3, Zenon
  <2> QED BY <1>1 DEF OpToRel
<1> QED BY <1>3, <1>4

(* The GPU of the lowest index is one of the candidates.                    *)
LEMMA LowestIndexIn ==
  ASSUME NEW S, S \subseteq GpuUuid
  PROVE  LowestIndex(S) \in S \cup {NoGpu}
<1>1. CASE S = {}
  BY <1>1 DEF LowestIndex
<1>2. CASE S # {}
  <2>1. PICK T : T = {GpuIndex[g] : g \in S}
    BY Zenon
  <2>2. T \subseteq Nat /\ T # {}
    BY <1>2, <2>1, GpuIndexAssumption
  <2>3. PICK x \in T : \A y \in T : x <= y
    BY <2>2, LeastElement, Zenon
  <2>4. \E g \in S : \A h \in S : GpuIndex[g] <= GpuIndex[h]
    BY <2>1, <2>3
  <2>5. (CHOOSE g \in S : \A h \in S : GpuIndex[g] <= GpuIndex[h]) \in S
    BY <2>4
  <2> QED BY <1>2, <2>5 DEF LowestIndex
<1> QED BY <1>1, <1>2

(* Whatever the placement, the selected GPU is an available one.            *)
LEMMA SelectIn ==
  ASSUME NEW spec, NEW available, NEW targets, available \subseteq GpuUuid
  PROVE  Select(spec, available, targets) \in available \cup {NoGpu}
<1>1. \A S : LowestIndex(available \cap S) \in available \cup {NoGpu}
  BY LowestIndexIn
<1>2. \A S : LowestIndex(available \ S) \in available \cup {NoGpu}
  BY LowestIndexIn
<1>3. LowestIndex(available) \in available \cup {NoGpu}
  BY LowestIndexIn
<1> QED BY <1>1, <1>2, <1>3 DEF Select, select_any_gpu, select_required_gpu

(* A SELECTED decision names an available GPU of the node.                  *)
LEMMA DecisionGpu ==
  ASSUME NEW q, NEW jobs, NEW leases, NEW obs, DOMAIN obs \subseteq GpuUuid,
         Decision(q, jobs, leases, obs).code = "SELECTED"
  PROVE  Decision(q, jobs, leases, obs).gpu \in GpuUuid \cap Available(obs, leases)
<1> DEFINE available == Available(obs, leases)
           Choice(i) == Select(jobs[q[i].job_id].spec, available, collect_affinity_targets(q, jobs))
           found == {i \in 1 .. Window(q) : Choice(i) # NoGpu}
           first == CHOOSE i \in found : \A k \in found : i <= k
           d == Decision(q, jobs, leases, obs)
<1>1. available \subseteq GpuUuid
  BY DEF Available
<1>2. \A i : Choice(i) \in available \cup {NoGpu}
  BY <1>1, SelectIn
<1>3. found # {} /\ d.gpu = Choice(first)
  <2> HIDE DEF Choice
  <2>1. CASE Diverged(q, jobs)
    BY <2>1, Zenon DEF Decision, Choice
  <2>2. CASE ~Diverged(q, jobs) /\ found = {}
    BY <2>2, Zenon DEF Decision, Choice
  <2>3. CASE ~Diverged(q, jobs) /\ found # {}
    BY <2>3, Zenon DEF Decision, Choice
  <2> QED BY <2>1, <2>2, <2>3
<1>4. first \in found
  <2>1. found \subseteq Nat
    OBVIOUS
  <2> HIDE DEF found
  <2>2. \E i \in found : \A k \in found : i <= k
    BY <1>3, <2>1, LeastElement, Zenon
  <2> QED BY <2>2
<1>5. Choice(first) # NoGpu
  BY <1>4, Zenon
<1> QED BY <1>1, <1>2, <1>3, <1>5, Zenon

-----------------------------------------------------------------------------
(* The daemon.                                                              *)

(* The invariant holds at the start.                                        *)
LEMMA InitOK == Init => BoardInv
<1> SUFFICES ASSUME Init PROVE BoardInv
  OBVIOUS
<1>1. store.jobs = EmptyMap /\ store.leases = EmptyMap
  BY DEF Init, EmptyStore
<1>2. StoreOK(store)
  <2>1. DOMAIN store.jobs = 1 .. 0
    BY <1>1 DEF EmptyMap
  <2>2. store.jobs = [j \in DOMAIN store.jobs |-> store.jobs[j]]
        /\ store.leases = [g \in DOMAIN store.leases |-> store.leases[g]]
    BY <1>1 DEF EmptyMap
  <2>3. DOMAIN store.leases \subseteq GpuUuid /\ LeaseMatrixHolds(store.jobs, store.leases)
    BY <1>1 DEF EmptyMap, LeaseMatrixHolds
  <2> QED BY <1>1, <2>1, <2>2, <2>3 DEF StoreOK
<1>3. SupervisedOK(store.jobs, supervised)
  BY DEF Init, EmptyMap, SupervisedOK
<1>4. LaunchOK /\ PlanOK /\ ret \in {"wait", "commands", "exits"}
  BY DEF Init, LaunchOK, PlanOK
<1>5. DOMAIN observed = GpuUuid
  BY DEF Init, Observations
<1> QED BY <1>2, <1>3, <1>4, <1>5 DEF BoardInv

(* Supervision stays sound when no job starts being stopped, ...            *)
LEMMA SupervisedKept ==
  ASSUME NEW s, NEW t, NEW sup, NoneStopped(s, t), SupervisedOK(s.jobs, sup)
  PROVE  SupervisedOK(t.jobs, sup)
BY DEF NoneStopped, SupervisedOK

(* ... and when jobs leave it.                                              *)
LEMMA SupervisedFewer ==
  ASSUME NEW jobs, NEW sup, NEW S, SupervisedOK(jobs, sup)
  PROVE  SupervisedOK(jobs, Without(sup, S))
BY DEF SupervisedOK, Without

(* Steps that leave the store alone are not seen.                           *)
LEMMA SameStore ==
  ASSUME store' = store
  PROVE  BoardStep(store, store')
BY DEF BoardStep, Unseen

(* The environment, the other threads and the loop.                         *)
LEMMA QuietStep ==
  ASSUME BoardInv, UNCHANGED <<store, launch, plan, observed, supervised>>,
         ret' \in {ret, "commands", "exits", "wait"},
         pc' \in {pc, "wait", "commands", "exits", "pumps", "gpu", "post", "down", ret}
  PROVE  BoardInv' /\ BoardStep(store, store')
<1>1. LaunchOK' /\ PlanOK'
  BY DEF BoardInv, LaunchOK, PlanOK
<1>2. StoreOK(store)' /\ SupervisedOK(store.jobs, supervised)'
  BY DEF BoardInv
<1>3. ret' \in {"wait", "commands", "exits"} /\ DOMAIN observed' = GpuUuid
  BY DEF BoardInv
<1> QED BY <1>1, <1>2, <1>3, SameStore DEF BoardInv

(* A process ends.                                                          *)
LEMMA ProcessExitStep ==
  ASSUME BoardInv, NEW p, NEW status, ProcessExit(p, status)
  PROVE  BoardInv' /\ BoardStep(store, store')
BY QuietStep DEF ProcessExit, memory, monitors, control

(* A grace timer fires.                                                     *)
LEMMA EscalateStep ==
  ASSUME BoardInv, NEW j \in DOMAIN supervised, Escalate(j)
  PROVE  BoardInv' /\ BoardStep(store, store')
<1>1. supervised' = [supervised EXCEPT ![j].timer = "OFF"] /\ store' = store
  BY DEF Escalate
<1>2. SupervisedOK(store.jobs, supervised)'
  BY <1>1 DEF SupervisedOK, BoardInv
<1>3. UNCHANGED <<pc, ret, launch, plan, observed>>
  BY DEF Escalate, monitors, control
<1>4. LaunchOK' /\ PlanOK'
  BY <1>1, <1>3 DEF LaunchOK, PlanOK, BoardInv
<1> QED BY <1>1, <1>2, <1>3, <1>4, SameStore DEF BoardInv

(* The reaper finds a process ended.                                        *)
LEMMA ScanStep ==
  ASSUME BoardInv, NEW p, Scan(p)
  PROVE  BoardInv' /\ BoardStep(store, store')
BY QuietStep DEF Scan, Reaped, memory, control

(* The log pump has drained a job's pipes.                                  *)
LEMMA PumpDoneStep ==
  ASSUME BoardInv, NEW j, PumpDone(j)
  PROVE  BoardInv' /\ BoardStep(store, store')
BY QuietStep DEF PumpDone, Drained, persistent, memory, control

(* The GPU manager publishes an observation.                                *)
LEMMA SampleStep ==
  ASSUME BoardInv, NEW obs \in Observations, Sample(obs)
  PROVE  BoardInv' /\ BoardStep(store, store')
<1>1. UNCHANGED <<store, supervised, pc, ret, launch, plan>>
  BY DEF Sample, persistent, memory, control
<1>2. DOMAIN observed' = GpuUuid
  BY DEF Sample, Observations
<1>3. LaunchOK' /\ PlanOK' /\ SupervisedOK(store.jobs, supervised)'
  BY <1>1 DEF LaunchOK, PlanOK, BoardInv
<1> QED BY <1>1, <1>2, <1>3, SameStore DEF BoardInv

(* A client submits or cancels.                                             *)
LEMMA ClientStep ==
  ASSUME BoardInv, NEW command, Send(command)
  PROVE  BoardInv' /\ BoardStep(store, store')
BY QuietStep DEF Send, memory, monitors, control

(* The daemon goes away: the store is what it leaves.                       *)
LEMMA CrashStep ==
  ASSUME BoardInv, Crash
  PROVE  BoardInv' /\ BoardStep(store, store')
<1>1. store' = store /\ observed' = observed /\ supervised' = EmptyMap /\ pc' = "down" /\ ret' = "wait"
  BY DEF Crash
<1>2. SupervisedOK(store.jobs, supervised)'
  BY <1>1 DEF SupervisedOK, EmptyMap
<1>3. LaunchOK' /\ PlanOK'
  BY <1>1 DEF LaunchOK, PlanOK
<1> QED BY <1>1, <1>2, <1>3, SameStore DEF BoardInv

(* The worker's loop between two handlers.                                  *)
LEMMA LoopStep ==
  ASSUME BoardInv, WaitForWakeup \/ ChannelDrained \/ PostWake \/ DropExit \/ LaunchLoadFails
  PROVE  BoardInv' /\ BoardStep(store, store')
<1>1. CASE WaitForWakeup
  BY <1>1, QuietStep DEF WaitForWakeup, Goto, persistent, memory, monitors
<1>2. CASE ChannelDrained
  BY <1>2, QuietStep DEF ChannelDrained, Goto, persistent, memory, monitors
<1>3. CASE PostWake
  BY <1>3, QuietStep DEF PostWake, Goto, persistent, memory, monitors
<1>4. CASE DropExit
  BY <1>4, QuietStep DEF DropExit, persistent, monitors, control
<1>5. CASE LaunchLoadFails
  <2>1. UNCHANGED <<store, supervised, observed, ret, plan>> /\ pc' = ret
    BY <1>5 DEF LaunchLoadFails, Return, memory, monitors
  <2>2. LaunchOK' /\ PlanOK' /\ SupervisedOK(store.jobs, supervised)'
    BY <2>1 DEF LaunchOK, PlanOK, BoardInv
  <2> QED BY <2>1, <2>2, SameStore DEF BoardInv
<1> QED BY <1>1, <1>2, <1>3, <1>4, <1>5

(* process_submit: the job waits on the board, or is on it as CANCELLED     *)
(* when the admission was refused and rolled back, all in one step.         *)
LEMMA SubmitsStep ==
  ASSUME BoardInv, NEW created_ok, NEW rollback_ok, process_submit(created_ok, rollback_ok)
  PROVE  BoardInv' /\ BoardStep(store, store') /\ Submitted(store, store')
<1>1. PICK j, spec, create, created, back :
        /\ j = next_job_id(store.jobs) /\ spec = Head(commands).spec
        /\ create = CreateMutation(store, j, spec) /\ created = Applied(store, create, created_ok)
        /\ back = Applied(created, MoveMutation(created, j, "CANCELLED"), rollback_ok)
  BY Zenon
<1>2. /\ UNCHANGED <<supervised, launch, plan, observed>> /\ pc' = "post" /\ ret' = "commands"
      /\ \/ store' = store
         \/ Written(store, create, created_ok) /\ store' \in {created, back}
  BY <1>1, Zenon DEF process_submit, Post, monitors
<1>3. CASE store' = store
  BY <1>2, <1>3, QuietStep DEF Submitted
<1>4. CASE Written(store, create, created_ok) /\ store' \in {created, back}
  <2>1. StoreOK(created) /\ SubmitStep(store, created) /\ Created(store, created, j)
    BY <1>1, <1>4, CreateWrite DEF BoardInv
  <2>2. /\ StoreOK(back) /\ Wrote(created, back, j, "CANCELLED", created.jobs[j].identity)
        /\ Unseen(created, back) \/ MoveStep(created, back)
    BY <1>1, <2>1, MoveWrite, ZenonT(30)
  <2>3. SubmitStep(store, back)
    <3>1. CASE back = created
      BY <3>1, <2>1
    <3>2. CASE back # created
      <4>1. /\ DOMAIN back.jobs = DOMAIN created.jobs /\ back.jobs[j].state = "CANCELLED"
            /\ \A k \in DOMAIN created.jobs : k # j => back.jobs[k] = created.jobs[k]
        BY <3>2, <2>2, Zenon DEF Wrote, OnlyOf
      <4>2. Standing("CANCELLED") = "CANCELLED"
        BY DEF Standing, Terminal
      <4>3. \A k \in DOMAIN back.jobs : Standing(back.jobs[k].state) =
                IF k = j THEN "CANCELLED" ELSE Standing(store.jobs[k].state)
        BY <2>1, <4>1, <4>2, Zenon DEF Created
      <4>4. View(back) = Put(View(store), j, "CANCELLED")
        BY <2>1, <4>1, <4>3, Zenon DEF View, Put, Created
      <4>5. back.leases = store.leases
        BY <2>1, <2>2, Zenon DEF Unseen, MoveStep, Created
      <4> QED BY <2>1, <4>4, <4>5 DEF SubmitStep, Created
    <3> QED BY <3>1, <3>2
  <2>4. NoneStopped(store, created) /\ NoneStopped(store, back)
    BY <2>1, <2>2, Zenon DEF Wrote, OnlyOf, NoneStopped, Created
  <2>5. Submitted(store, created) /\ Submitted(store, back)
    BY <2>1, <2>2, Zenon DEF Wrote, OnlyOf, Submitted, Created, has_identity
  <2>6. /\ StoreOK(store)' /\ BoardStep(store, store')
        /\ NoneStopped(store, store') /\ Submitted(store, store')
    BY <1>4, <2>1, <2>2, <2>3, <2>4, <2>5 DEF BoardStep
  <2>7. SupervisedOK(store.jobs, supervised)'
    BY <1>2, <2>6, SupervisedKept DEF BoardInv
  <2>8. LaunchOK' /\ PlanOK'
    BY <1>2 DEF LaunchOK, PlanOK
  <2> QED BY <1>2, <2>6, <2>7, <2>8 DEF BoardInv
<1> QED BY <1>2, <1>3, <1>4

(* begin_cancellation marks the job, also when the signal fails.            *)
LEMMA CancellationMarks ==
  ASSUME NEW job, "cancelling" \in DOMAIN job, NEW ps, NEW from_recovery, NEW outcome
  PROVE  LET asked == begin_cancellation(job, ps, from_recovery, outcome)
         IN  "cancelling" \in DOMAIN asked /\ asked.cancelling = TRUE
<1>1. "cancelling" \in DOMAIN Requested(job, ps)
  BY DEF Requested
<1> QED BY <1>1 DEF begin_cancellation

(* process_cancel: STOPPING is written and the job marked in one step, so   *)
(* that its exit cannot be taken for one of its own accord.                 *)
LEMMA CancelStep ==
  ASSUME BoardInv, NEW ok, NEW timer, process_cancel(ok, timer)
  PROVE  BoardInv' /\ BoardStep(store, store') /\ CancelStore
<1>1. PICK j, state, m, wrote :
        /\ j = Head(commands).job /\ state = store.jobs[j].state
        /\ m = MoveMutation(store, j, IF state = "QUEUED" THEN "CANCELLED" ELSE "STOPPING")
        /\ wrote <=> (state \in {"QUEUED", "STARTING", "RUNNING"} /\ Written(store, m, ok))
  BY Zenon
<1>2. /\ UNCHANGED <<launch, plan, observed>> /\ pc' = "post" /\ ret' = "commands"
      /\ store' = IF wrote THEN Applied(store, m, ok) ELSE store
      /\ supervised' = IF /\ j \in DOMAIN supervised
                          /\ \/ ok /\ state = "STOPPING"
                             \/ wrote /\ state # "QUEUED"
                       THEN [supervised EXCEPT ![j] = begin_cancellation(@, proc, FALSE, timer)]
                       ELSE supervised
  BY <1>1, Zenon DEF process_cancel, Post, monitors
<1>3. LaunchOK' /\ PlanOK'
  BY <1>2 DEF LaunchOK, PlanOK
<1>4. j \in DOMAIN supervised =>
        /\ "cancelling" \in DOMAIN begin_cancellation(supervised[j], proc, FALSE, timer)
        /\ begin_cancellation(supervised[j], proc, FALSE, timer).cancelling = TRUE
  BY CancellationMarks, Zenon DEF BoardInv, SupervisedOK
<1>5. CASE ~wrote
  <2>1. store' = store
    BY <1>2, <1>5
  <2>2. SupervisedOK(store.jobs, supervised)'
    BY <1>2, <1>4, <2>1, Zenon DEF BoardInv, SupervisedOK
  <2>3. CancelStore
    BY <1>1, <1>2, <1>5, <2>1, Zenon DEF CancelStore, Cancelled
  <2> QED BY <1>2, <1>3, <2>1, <2>2, <2>3, SameStore DEF BoardInv
<1>6. CASE wrote
  <2>1. PICK st, t : /\ st = IF state = "QUEUED" THEN "CANCELLED" ELSE "STOPPING"
                     /\ t = store'
    BY Zenon
  <2>2. /\ state \in {"QUEUED", "STARTING", "RUNNING"} /\ st \in {"STOPPING", "CANCELLED"}
        /\ Written(store, MoveMutation(store, j, st), ok)
        /\ t = Applied(store, MoveMutation(store, j, st), ok)
    BY <1>1, <1>2, <1>6, <2>1, Zenon
  <2>3. /\ StoreOK(t) /\ Wrote(store, t, j, st, store.jobs[j].identity)
        /\ Unseen(store, t) \/ MoveStep(store, t)
        /\ j \in DOMAIN store.jobs /\ t.jobs[j].state = st
    BY <2>2, MoveWrite, Zenon DEF BoardInv
  <2>4. StoreOK(store)' /\ BoardStep(store, store')
    BY <2>1, <2>3 DEF BoardStep
  <2>5. Cancelled(store, store', j)
    BY <1>1, <2>1, <2>2, <2>3, Zenon DEF Wrote, Cancelled
  <2>6. CASE st = "CANCELLED"
    <3>1. supervised' = supervised
      BY <1>1, <1>2, <1>6, <2>1, <2>6, Zenon
    <3>2. SupervisedOK(t.jobs, supervised)
      BY <2>3, <2>6, WroteNoneStopped, SupervisedKept, Zenon DEF BoardInv
    <3> QED BY <1>1, <1>2, <1>3, <2>1, <2>4, <2>5, <3>1, <3>2, Zenon DEF BoardInv, CancelStore
  <2>7. CASE st = "STOPPING"
    <3>1. supervised' = IF j \in DOMAIN supervised
                        THEN [supervised EXCEPT ![j] = begin_cancellation(@, proc, FALSE, timer)]
                        ELSE supervised
      BY <1>1, <1>2, <1>6, <2>1, <2>7, Zenon
    <3>2. DOMAIN t.jobs = DOMAIN store.jobs
          /\ \A k \in DOMAIN store.jobs : k # j => t.jobs[k] = store.jobs[k]
      BY <2>3, Zenon DEF Wrote, OnlyOf
    <3>3. SupervisedOK(store.jobs, supervised)'
      BY <1>4, <2>1, <3>1, <3>2, Zenon DEF BoardInv, SupervisedOK
    <3>4. CancelStore
      BY <1>1, <2>1, <2>3, <2>5, <2>7, Zenon DEF CancelStore
    <3> QED BY <1>2, <1>3, <2>4, <3>3, <3>4 DEF BoardInv
  <2> QED BY <2>2, <2>6, <2>7
<1> QED BY <1>5, <1>6

(* schedule_now: the job and its lease are written together.                *)
LEMMA ScheduleStep ==
  ASSUME BoardInv, NEW there \in {"commands", "wait"}, NEW ok, schedule_now(there, ok),
         observed' = observed
  PROVE  BoardInv' /\ BoardStep(store, store') /\ ScheduleStore
<1>1. PICK d : d = Decision(queue, store.jobs, store.leases, observed)
  BY Zenon
<1>2. PICK m : m = StartMutation(store.jobs, store.revision, d.job, d.gpu)
  BY Zenon
<1>3. supervised' = supervised /\ plan' = plan
  BY Zenon DEF schedule_now
<1>4. \/ store' = store /\ pc' = there /\ UNCHANGED <<ret, launch>>
      \/ /\ d.code = "SELECTED" /\ Written(store, m, ok) /\ store' = Applied(store, m, ok)
         /\ launch' = [job |-> d.job, gpu |-> d.gpu, pid |-> 0]
         /\ pc' = "spawn" /\ ret' = there
  BY <1>1, <1>2, Zenon DEF schedule_now
<1>5. CASE store' = store /\ pc' = there /\ UNCHANGED <<ret, launch>>
  BY <1>3, <1>5, QuietStep, Zenon DEF ScheduleStore
<1>6. CASE /\ d.code = "SELECTED" /\ Written(store, m, ok) /\ store' = Applied(store, m, ok)
           /\ launch' = [job |-> d.job, gpu |-> d.gpu, pid |-> 0]
           /\ pc' = "spawn" /\ ret' = there
  <2>1. d.gpu \in GpuUuid \cap Available(observed, store.leases)
    BY <1>1, <1>6, DecisionGpu, Zenon DEF BoardInv
  <2>2. PICK j, g, t : j = d.job /\ g = d.gpu /\ t = store'
    BY Zenon
  <2>3. g \in GpuUuid /\ StoreOK(store)
        /\ Written(store, StartMutation(store.jobs, store.revision, j, g), ok)
        /\ t = Applied(store, StartMutation(store.jobs, store.revision, j, g), ok)
    BY <1>2, <1>6, <2>1, <2>2, Zenon DEF BoardInv
  <2>4. StoreOK(t) /\ LaunchStep(store, t) /\ Started(store, t, j, g)
    BY <2>3, StartWrite, Zenon
  <2>5. StoreOK(store)' /\ BoardStep(store, store')
    BY <2>2, <2>4 DEF BoardStep
  <2>6. SupervisedOK(store.jobs, supervised)'
    <3>1. NoneStopped(store, t)
      BY <2>4, Zenon DEF Started, OnlyOf, NoneStopped
    <3> QED BY <1>3, <2>2, <3>1, SupervisedKept DEF BoardInv
  <2>7. launch'.job = j /\ launch'.gpu = g /\ DOMAIN launch' = {"job", "gpu", "pid"}
    BY <1>6, <2>2
  <2>8. LaunchOK'
    BY <2>2, <2>4, <2>7, Zenon DEF LaunchOK, Started
  <2>9. PlanOK' /\ ret' \in {"wait", "commands", "exits"}
    BY <1>6, Zenon DEF PlanOK
  <2>10. ScheduleStore
    BY <1>6, <2>2, <2>3, <2>4, <2>7, Zenon DEF ScheduleStore
  <2> QED BY <2>5, <2>6, <2>8, <2>9, <2>10 DEF BoardInv
<1> QED BY <1>4, <1>5, <1>6

(* Its two callers: a WAKE command and a GPU event.                         *)
LEMMA SchedulesStep ==
  ASSUME BoardInv, NEW ok, ScheduleOnWake(ok) \/ ScheduleOnGpuEvent(ok)
  PROVE  BoardInv' /\ BoardStep(store, store') /\ ScheduleStore
<1>1. observed' = observed
  BY Zenon DEF ScheduleOnWake, ScheduleOnGpuEvent, schedule_now, monitors
<1>2. schedule_now("commands", ok) \/ schedule_now("wait", ok)
  BY DEF ScheduleOnWake, ScheduleOnGpuEvent
<1> QED BY <1>1, <1>2, ScheduleStep

(* What the end of a launch leaves behind, with the store in s and its      *)
(* failure written.                                                         *)
LEMMA FailedLaunch ==
  ASSUME BoardInv, NEW s, StoreOK(s), Unseen(store, s),
         launch.job \in DOMAIN s.jobs, s.jobs[launch.job].state # "STOPPING",
         NoneStopped(store, s), NEW ss, NEW ok, NEW now, fail_launch(s, ss, ok, now),
         Return, UNCHANGED <<supervised, observed>>
  PROVE  /\ BoardInv' /\ BoardStep(store, store')
         /\ Wrote(s, store', launch.job, "FAILED", s.jobs[launch.job].identity)
<1>1. PICK j, g, t : j = launch.job /\ g = launch.gpu /\ t = store'
  BY Zenon
<1>2. t = Applied(s, EndMutation(s, j, g, "FAILED", NoExit, now), ok)
  BY <1>1, Zenon DEF fail_launch
<1>3. "FAILED" \in Terminal /\ j \in DOMAIN s.jobs /\ s.jobs[j].state # "STOPPING"
  BY <1>1, Zenon DEF Terminal
<1>4. StoreOK(t) /\ Wrote(s, t, j, "FAILED", s.jobs[j].identity) /\ (Unseen(s, t) \/ EndStep(s, t))
  BY <1>2, <1>3, EndWrite, Zenon
<1>5. BoardStep(store, t)
  <2>1. CASE Unseen(s, t)
    BY <2>1, Zenon DEF Unseen, BoardStep
  <2>2. CASE EndStep(s, t)
    <3>1. View(s) = View(store) /\ s.leases = store.leases
      BY Zenon DEF Unseen
    <3> QED BY <2>2, <3>1, Zenon DEF BoardStep, EndStep
  <2> QED BY <1>4, <2>1, <2>2, Zenon
<1>6. NoneStopped(s, t)
  BY <1>4, WroteNoneStopped, Zenon
<1>7. SupervisedOK(store.jobs, supervised)'
  BY <1>1, <1>6, SupervisedKept, Zenon DEF BoardInv
<1>8. pc' = ret /\ ret' = ret /\ plan' = plan
  BY Zenon DEF Return
<1>9. LaunchOK' /\ PlanOK'
  BY <1>8, Zenon DEF BoardInv, LaunchOK, PlanOK
<1> QED BY <1>1, <1>4, <1>5, <1>7, <1>8, <1>9, Zenon DEF BoardInv

(* A launch that fails before there is a process.                           *)
LEMMA SpawnFailsStep ==
  ASSUME BoardInv, NEW ok, NEW now, SpawnFails(ok, now)
  PROVE  /\ BoardInv' /\ BoardStep(store, store')
         /\ Wrote(store, store', launch.job, "FAILED", store.jobs[launch.job].identity)
<1>1. Unseen(store, store) /\ NoneStopped(store, store) /\ StoreOK(store)
  BY DEF Unseen, NoneStopped, BoardInv
<1>2. launch.job \in DOMAIN store.jobs /\ store.jobs[launch.job].state # "STOPPING"
  BY DEF SpawnFails, BoardInv, LaunchOK
<1>3. /\ fail_launch(store, unregister_job(streams, launch.job), ok, now) /\ Return
      /\ UNCHANGED <<supervised, observed>>
  BY DEF SpawnFails, monitors
<1> QED BY <1>1, <1>2, <1>3, FailedLaunch, Zenon

(* The process is started.                                                  *)
LEMMA SpawnStep ==
  ASSUME BoardInv, NEW p, Spawn(p)
  PROVE  BoardInv' /\ BoardStep(store, store')
<1>1. UNCHANGED <<store, supervised, observed, ret, plan>> /\ pc = "spawn" /\ pc' = "persist"
  BY DEF Spawn, Goto, monitors
<1>2. LaunchOK' /\ PlanOK'
  BY <1>1 DEF Spawn, BoardInv, LaunchOK, PlanOK
<1> QED BY <1>1, <1>2, SameStore DEF BoardInv

(* The RUNNING write of the job being launched.                             *)
LEMMA LaunchedWrite ==
  ASSUME BoardInv, pc = "persist", NEW now, NEW ok,
         NEW t, t = Applied(store, RunningMutation(now), ok)
  PROVE  /\ StoreOK(t) /\ Unseen(store, t) /\ NoneStopped(store, t)
         /\ Wrote(store, t, launch.job, "RUNNING", LaunchedIdentity)
         /\ launch.job \in DOMAIN t.jobs /\ t.jobs[launch.job].state \in {"STARTING", "RUNNING"}
<1>1. launch.job \in DOMAIN store.jobs /\ store.jobs[launch.job].state = "STARTING" /\ StoreOK(store)
  BY Zenon DEF BoardInv, LaunchOK
<1>2. PICK j, id : j = launch.job /\ id = LaunchedIdentity
  BY Zenon
<1>3. t = Applied(store, RewriteMutation(store, j, Running(store.jobs[j], id, now), {}), ok)
  BY <1>2, Zenon DEF RunningMutation, LaunchedIdentity
<1>4. StoreOK(t) /\ Wrote(store, t, j, "RUNNING", id) /\ Unseen(store, t)
  BY <1>1, <1>3, RunningWrite, Zenon
<1>5. NoneStopped(store, t)
  BY <1>4, WroteNoneStopped
<1> QED BY <1>1, <1>2, <1>4, <1>5, Zenon DEF Wrote

(* A launch that fails with the process started: the RUNNING write, if it   *)
(* took place, is not seen, and the end is that of a running job.           *)
LEMMA PersistFailsStep ==
  ASSUME BoardInv, NEW fault, NEW ok, NEW started, NEW now,
         PersistFails(fault, ok, started, now)
  PROVE  BoardInv' /\ BoardStep(store, store') /\ PersistStore
<1>1. PICK s : s = Applied(store, RunningMutation(started), fault # "persist")
  BY Zenon
<1>2. pc = "persist" /\ Return /\ UNCHANGED <<supervised, observed>>
      /\ fail_launch(s, unregister_job(streams, launch.job), ok, now)
  BY <1>1 DEF PersistFails, monitors
<1>3. /\ StoreOK(s) /\ Unseen(store, s) /\ NoneStopped(store, s)
      /\ Wrote(store, s, launch.job, "RUNNING", LaunchedIdentity)
      /\ launch.job \in DOMAIN s.jobs /\ s.jobs[launch.job].state \in {"STARTING", "RUNNING"}
  BY <1>1, <1>2, LaunchedWrite, Zenon
<1>4. s.jobs[launch.job].state # "STOPPING"
  BY <1>3, Zenon
<1>5. /\ BoardInv' /\ BoardStep(store, store')
      /\ Wrote(s, store', launch.job, "FAILED", s.jobs[launch.job].identity)
  BY <1>2, <1>3, <1>4, FailedLaunch, Zenon
<1> QED BY <1>3, <1>5, Zenon DEF PersistStore

(* A launch that succeeds.                                                  *)
LEMMA SuperviseStep ==
  ASSUME BoardInv, NEW now, Supervise(now)
  PROVE  /\ BoardInv' /\ BoardStep(store, store')
         /\ Wrote(store, store', launch.job, "RUNNING", LaunchedIdentity)
<1>1. PICK t : t = store'
  BY Zenon
<1>2. pc = "persist" /\ t = Applied(store, RunningMutation(now), TRUE) /\ Return
      /\ observed' = observed
  BY <1>1, Zenon DEF Supervise
<1>3. /\ StoreOK(t) /\ Unseen(store, t) /\ NoneStopped(store, t)
      /\ Wrote(store, t, launch.job, "RUNNING", LaunchedIdentity)
      /\ launch.job \in DOMAIN t.jobs /\ t.jobs[launch.job].state \in {"STARTING", "RUNNING"}
  BY <1>2, LaunchedWrite, Zenon
<1>4. PICK new : new = [gpu |-> launch.gpu, pid |-> launch.pid, phase |-> "RUNNING",
        timer |-> "OFF", cancelling |-> FALSE, adopted |-> FALSE, exited |-> FALSE,
        pump_done |-> FALSE, terminal |-> "FAILED"]
  BY Zenon
<1>5. "cancelling" \in DOMAIN new /\ new.cancelling = FALSE
  BY <1>4, Zenon
<1>6. supervised' = Set(supervised, launch.job, new)
  BY <1>4, Zenon DEF Supervise
<1>7. SupervisedOK(t.jobs, supervised)
  BY <1>3, SupervisedKept, Zenon DEF BoardInv
<1>8. SupervisedOK(store.jobs, supervised)'
  <2>1. DOMAIN supervised' = DOMAIN supervised \cup {launch.job}
        /\ \A j \in DOMAIN supervised' :
             supervised'[j] = IF j = launch.job THEN new ELSE supervised[j]
    BY <1>6 DEF Set, Overlay
  <2> QED BY <1>1, <1>3, <1>5, <1>7, <2>1, Zenon DEF SupervisedOK
<1>9. pc' = ret /\ ret' = ret /\ plan' = plan
  BY <1>2 DEF Return
<1>10. LaunchOK' /\ PlanOK'
  BY <1>9, Zenon DEF BoardInv, LaunchOK, PlanOK
<1> QED BY <1>1, <1>2, <1>3, <1>8, <1>9, <1>10, Zenon DEF BoardInv, BoardStep

(* process_exit: the terminal state is the one the mark of the cancellation *)
(* asks for.                                                                *)
LEMMA ExitStep ==
  ASSUME BoardInv, NEW ok, NEW now, process_exit(ok, now)
  PROVE  BoardInv' /\ BoardStep(store, store') /\ ExitStore
<1>1. PICK event, j, st, t :
        /\ event = Head(exits) /\ j = by_pid[event.pid]
        /\ st = TerminalOf(supervised[j], event) /\ t = store'
  BY Zenon
<1>2. /\ j \in DOMAIN supervised /\ t = Applied(store, ExitMutation(store, j, event, now), ok)
      /\ pc' = "post" /\ ret' = "exits" /\ UNCHANGED <<launch, plan, observed>>
  BY <1>1 DEF process_exit, Post, monitors
<1>3. \/ supervised' = Without(supervised, {j})
      \/ supervised' = [supervised EXCEPT ![j].exited = TRUE, ![j].timer = "OFF",
                                          ![j].terminal = st]
  BY <1>1 DEF process_exit, Release
<1>4. /\ j \in DOMAIN store.jobs /\ supervised[j].cancelling \in BOOLEAN
      /\ store.jobs[j].state = "STOPPING" => supervised[j].cancelling
  BY <1>2, Zenon DEF BoardInv, SupervisedOK
<1>5. st \in Terminal /\ (supervised[j].cancelling => st = "CANCELLED")
  <2>1. CASE supervised[j].cancelling
    BY <1>1, <2>1 DEF TerminalOf, Terminal
  <2>2. CASE ~supervised[j].cancelling
    <3>1. st \in {"FINISHED", "FAILED"}
      BY <1>1, <2>2, Zenon DEF TerminalOf
    <3> QED BY <2>2, <3>1 DEF Terminal
  <2> QED BY <2>1, <2>2
<1>6. PICK g, exit : g = supervised[j].gpu /\ exit = IF event.verified THEN event.status ELSE NoExit
  BY Zenon
<1>7. t = Applied(store, EndMutation(store, j, g, st, exit, now), ok) /\ StoreOK(store)
  BY <1>1, <1>2, <1>6, Zenon DEF ExitMutation, BoardInv
<1>8. store.jobs[j].state = "STOPPING" => st \in {"CANCELLED", "LOST"}
  BY <1>4, <1>5
<1>9. StoreOK(t) /\ Wrote(store, t, j, st, store.jobs[j].identity) /\ (Unseen(store, t) \/ EndStep(store, t))
  BY <1>4, <1>5, <1>7, <1>8, EndWrite, Zenon
<1>10. SupervisedOK(t.jobs, supervised)
  <2>1. st # "STOPPING"
    BY <1>5 DEF Terminal
  <2> QED BY <1>9, <2>1, WroteNoneStopped, SupervisedKept, Zenon DEF BoardInv
<1>11. SupervisedOK(store.jobs, supervised)'
  <2>1. CASE supervised' = Without(supervised, {j})
    BY <1>1, <1>10, <2>1, SupervisedFewer, Zenon
  <2>2. CASE supervised' = [supervised EXCEPT ![j].exited = TRUE, ![j].timer = "OFF",
                                              ![j].terminal = st]
    BY <1>1, <1>2, <1>10, <2>2, Zenon DEF SupervisedOK
  <2> QED BY <1>3, <2>1, <2>2, Zenon
<1>12. LaunchOK' /\ PlanOK'
  BY <1>2, Zenon DEF LaunchOK, PlanOK
<1>13. ExitStore
  BY <1>1, <1>4, <1>9, Zenon DEF ExitStore
<1> QED BY <1>1, <1>2, <1>9, <1>11, <1>12, <1>13, Zenon DEF BoardInv, BoardStep

(* drain_pump_done.                                                         *)
LEMMA PumpsStep ==
  ASSUME BoardInv, NEW j, drain_pump_done(j)
  PROVE  BoardInv' /\ BoardStep(store, store')
<1>1. UNCHANGED <<store, observed, pc, ret, launch, plan>>
  BY DEF drain_pump_done, monitors, control
<1>2. \/ supervised' \in {supervised, Without(supervised, {j})}
      \/ j \in DOMAIN supervised /\ supervised' = [supervised EXCEPT ![j].pump_done = TRUE]
  BY DEF drain_pump_done, Release
<1>3. SupervisedOK(store.jobs, supervised)'
  <2>1. CASE supervised' = Without(supervised, {j})
    BY <1>1, <2>1, SupervisedFewer DEF BoardInv
  <2>2. CASE supervised' = supervised
    BY <1>1, <2>2 DEF BoardInv
  <2>3. CASE j \in DOMAIN supervised /\ supervised' = [supervised EXCEPT ![j].pump_done = TRUE]
    BY <1>1, <2>3 DEF BoardInv, SupervisedOK
  <2> QED BY <1>2, <2>1, <2>2, <2>3
<1>4. LaunchOK' /\ PlanOK'
  BY <1>1, Zenon DEF BoardInv, LaunchOK, PlanOK
<1> QED BY <1>1, <1>3, <1>4, SameStore DEF BoardInv

-----------------------------------------------------------------------------
(* The start of a daemon.                                                   *)

(* The plan of a recovery: a STOPPING job is given up or cancelled again.   *)
LEMMA PlanStep ==
  ASSUME BoardInv, NEW now, Plan(now)
  PROVE  BoardInv' /\ BoardStep(store, store')
<1>1. PICK decision : decision = [j \in DOMAIN store.jobs |->
        RecoveryDecision(store.jobs[j], verify_identity_via_proc(store.jobs[j].identity))]
  BY Zenon
<1>2. /\ plan' = [decision |-> decision, todo |-> NeedsWrite(store.jobs, decision), now |-> now]
      /\ pc' = "recover" /\ UNCHANGED <<store, supervised, observed, ret, launch>>
  BY <1>1, Zenon DEF Plan, Goto, persistent, memory, monitors
<1>3. LaunchOK' /\ SupervisedOK(store.jobs, supervised)'
  BY <1>2, Zenon DEF BoardInv, LaunchOK
<1>4. ASSUME NEW record, NEW verdict, record.state = "STOPPING"
      PROVE  RecoveryDecision(record, verdict) \in {"LOST", "RECANCEL"}
  BY <1>4 DEF RecoveryDecision, is_active
<1>5. \A j \in DOMAIN store.jobs : store.jobs[j].state = "STOPPING" =>
        decision[j] \notin {"ADOPTED", "PROMOTED"}
  BY <1>1, <1>4, Zenon
<1>6. \A j \in NeedsWrite(store.jobs, decision) : decision[j] \in {"LOST", "PROMOTED"}
  BY DEF NeedsWrite
<1>7. PlanOK'
  <2>1. DOMAIN decision = DOMAIN store.jobs
    BY <1>1
  <2>2. /\ {"decision", "todo"} \subseteq DOMAIN plan'
        /\ plan'.decision = decision /\ plan'.todo = NeedsWrite(store.jobs, decision)
    BY <1>2, Zenon
  <2> QED BY <1>2, <1>5, <1>6, <2>1, <2>2, Zenon DEF PlanOK
<1> QED BY <1>2, <1>3, <1>7, SameStore, Zenon DEF BoardInv

(* A chunk of the plan: several jobs may end in one step.                   *)
LEMMA RecoverStep ==
  ASSUME BoardInv, NEW ok, RecoverChunk(ok)
  PROVE  BoardInv' /\ BoardStep(store, store') /\ RecoverStore
<1>1. PICK chunk, decision, now, t :
        /\ chunk = NextChunk(store.leases, plan.todo, plan.decision)
        /\ decision = plan.decision /\ now = plan.now /\ t = store'
  BY Zenon
<1>2. /\ pc = "recover" /\ UNCHANGED <<supervised, observed, ret, launch>>
      /\ t = Applied(store, RecoveryMutation(store, chunk, decision, now), ok)
      /\ IF Written(store, RecoveryMutation(store, chunk, decision, now), ok)
         THEN plan' = [plan EXCEPT !.todo = @ \ chunk] /\ pc' = pc
         ELSE pc' = "down"
  BY <1>1 DEF RecoverChunk, memory, monitors
<1>3. chunk \subseteq plan.todo
  BY <1>1, Zenon DEF NextChunk
<1>4. StoreOK(store) /\ \A j \in chunk : decision[j] \in {"LOST", "PROMOTED"}
  BY <1>1, <1>2, <1>3 DEF BoardInv, PlanOK
<1>5. /\ StoreOK(t) /\ (Unseen(store, t) \/ EndStep(store, t))
      /\ IF Written(store, RecoveryMutation(store, chunk, decision, now), ok)
         THEN Chunked(store, t, chunk, decision) ELSE t = store
  BY <1>2, <1>4, RecoverWrite
<1>6. \/ t = store /\ pc' = "down"
      \/ /\ Chunked(store, t, chunk, decision)
         /\ plan' = [plan EXCEPT !.todo = @ \ chunk] /\ pc' = pc
  BY <1>2, <1>5
<1>7. NoneStopped(store, t)
  BY <1>6 DEF NoneStopped, Chunked
<1>8. SupervisedOK(store.jobs, supervised)'
  BY <1>1, <1>2, <1>7, SupervisedKept DEF BoardInv
<1>9. LaunchOK'
  BY <1>2, <1>6 DEF LaunchOK
<1>10. PlanOK'
  <2>1. CASE pc' = "down"
    BY <2>1 DEF PlanOK
  <2>2. CASE /\ Chunked(store, t, chunk, decision)
             /\ plan' = [plan EXCEPT !.todo = @ \ chunk] /\ pc' = pc
    <3>1. /\ {"decision", "todo"} \subseteq DOMAIN plan' /\ plan'.decision = plan.decision
          /\ plan'.todo \subseteq plan.todo
      BY <1>2, <2>2 DEF BoardInv, PlanOK
    <3>2. DOMAIN t.jobs = DOMAIN store.jobs
      BY <2>2 DEF Chunked
    <3> QED BY <1>1, <1>2, <1>7, <3>1, <3>2 DEF BoardInv, PlanOK, NoneStopped
  <2> QED BY <1>6, <2>1, <2>2
<1>11. RecoverStore
  BY <1>1, <1>3, <1>6 DEF RecoverStore
<1> QED BY <1>1, <1>2, <1>5, <1>8, <1>9, <1>10, <1>11 DEF BoardInv, BoardStep

(* The queue is rebuilt.                                                    *)
LEMMA RestoreStep ==
  ASSUME BoardInv, NEW obs \in Observations, RestoreQueue(obs)
  PROVE  BoardInv' /\ BoardStep(store, store')
<1>1. /\ pc = "recover" /\ UNCHANGED <<store, supervised, ret, launch>>
      /\ \/ pc' = "adopt" /\ plan' = plan
         \/ pc' = "down"
  BY Zenon DEF RestoreQueue, persistent
<1>2. DOMAIN observed' = GpuUuid
  BY DEF RestoreQueue, Observations
<1>3. LaunchOK' /\ PlanOK' /\ SupervisedOK(store.jobs, supervised)'
  BY <1>1, Zenon DEF BoardInv, LaunchOK, PlanOK
<1> QED BY <1>1, <1>2, <1>3, SameStore DEF BoardInv

(* The survivors are supervised again, the STOPPING ones as cancelled.      *)
LEMMA AdoptStep ==
  ASSUME BoardInv, NEW unloaded, NEW unregistered, NEW refused,
         Adopt(unloaded, unregistered, refused)
  PROVE  BoardInv' /\ BoardStep(store, store')
<1>1. PICK adopted : adopted = Adoptable \ (unloaded \cup unregistered)
  BY Zenon
<1>2. /\ pc = "adopt" /\ pc' = "wait" /\ UNCHANGED <<store, observed, ret>>
      /\ supervised' = [j \in adopted |->
                          AdoptedJob(j, IF j \in refused THEN "REFUSED" ELSE "ARMED")]
  BY <1>1 DEF Adopt, Goto
<1>3. LaunchOK' /\ PlanOK'
  BY <1>2, Zenon DEF LaunchOK, PlanOK
<1>4. ASSUME NEW j \in adopted, NEW outcome
      PROVE  /\ j \in DOMAIN store.jobs
             /\ "cancelling" \in DOMAIN AdoptedJob(j, outcome) /\ AdoptedJob(j, outcome).cancelling \in BOOLEAN
             /\ store.jobs[j].state = "STOPPING" => AdoptedJob(j, outcome).cancelling
  <2>1. j \in DOMAIN plan.decision /\ plan.decision[j] \in {"ADOPTED", "PROMOTED", "RECANCEL"}
    BY <1>1 DEF Adoptable, Survivors
  <2>2. j \in DOMAIN store.jobs
        /\ (store.jobs[j].state = "STOPPING" => plan.decision[j] \notin {"ADOPTED", "PROMOTED"})
    BY <1>2, <2>1, Zenon DEF BoardInv, PlanOK
  <2> DEFINE job == [gpu |-> CHOOSE g \in leases_of(store.leases, j) : TRUE,
              pid |-> pid_of(j), phase |-> "RUNNING", timer |-> "OFF",
              cancelling |-> plan.decision[j] = "RECANCEL", adopted |-> TRUE,
              exited |-> FALSE, pump_done |-> FALSE, terminal |-> "FAILED"]
  <2>4. "cancelling" \in DOMAIN job /\ job.cancelling = (plan.decision[j] = "RECANCEL")
    BY Zenon
  <2>5. AdoptedJob(j, outcome) = IF plan.decision[j] = "RECANCEL"
                        THEN begin_cancellation(job, proc, TRUE, outcome) ELSE job
    BY Zenon DEF AdoptedJob
  <2> HIDE DEF job
  <2>6. CASE plan.decision[j] = "RECANCEL"
    <3>1. PICK asked : asked = begin_cancellation(job, proc, TRUE, outcome)
      BY Zenon
    <3>2. "cancelling" \in DOMAIN asked /\ asked.cancelling = TRUE
      BY <2>4, <3>1, CancellationMarks, Zenon
    <3> QED BY <2>2, <2>5, <2>6, <3>1, <3>2, Zenon
  <2>7. CASE plan.decision[j] # "RECANCEL"
    <3>1. job.cancelling = FALSE
      BY <2>4, <2>7, Zenon
    <3>2. store.jobs[j].state # "STOPPING"
      BY <2>1, <2>2, <2>7, Zenon
    <3> QED BY <2>2, <2>4, <2>5, <2>7, <3>1, <3>2, Zenon
  <2> QED BY <2>6, <2>7, Zenon
<1>5. SupervisedOK(store.jobs, supervised)'
  BY <1>2, <1>4, Zenon DEF SupervisedOK
<1> QED BY <1>2, <1>3, <1>5, SameStore, Zenon DEF BoardInv

-----------------------------------------------------------------------------
(* The daemon implements the board.                                         *)

(* Every step of the daemon keeps the invariant and is, between the two     *)
(* stores, a step of the board or none.                                     *)
LEMMA NextStep ==
  ASSUME BoardInv, Next
  PROVE  BoardInv' /\ BoardStep(store, store')
<1>1. CASE WorkerStep
  <2>1. CASE WaitForWakeup \/ ChannelDrained \/ PostWake \/ DropExit \/ LaunchLoadFails
    BY <2>1, LoopStep
  <2>2. CASE \E created_ok, rollback_ok \in StoreOutcome : process_submit(created_ok, rollback_ok)
    BY <2>2, SubmitsStep
  <2>3. CASE \E ok \in StoreOutcome, timer \in TimerOutcome : process_cancel(ok, timer)
    BY <2>3, CancelStep
  <2>4. CASE \E ok \in StoreOutcome : ScheduleOnWake(ok) \/ ScheduleOnGpuEvent(ok)
    BY <2>4, SchedulesStep
  <2>5. CASE \E ok \in StoreOutcome, now \in Clock : SpawnFails(ok, now)
    BY <2>5, SpawnFailsStep, Zenon
  <2>6. CASE \E p \in Pid : Spawn(p)
    BY <2>6, SpawnStep, Zenon
  <2>7. CASE \E fault \in {"persist", "refused", "register", "attach"}, ok \in StoreOutcome,
               started, now \in Clock : PersistFails(fault, ok, started, now)
    BY <2>7, PersistFailsStep
  <2>8. CASE \E now \in Clock : Supervise(now)
    BY <2>8, SuperviseStep
  <2>9. CASE \E ok \in StoreOutcome, now \in Clock : process_exit(ok, now)
    BY <2>9, ExitStep
  <2>10. CASE \E j \in done : drain_pump_done(j)
    BY <2>10, PumpsStep
  <2> QED BY <1>1, <2>1, <2>2, <2>3, <2>4, <2>5, <2>6, <2>7, <2>8, <2>9, <2>10, Zenon DEF WorkerStep
<1>2. CASE StartStep
  BY <1>2, PlanStep, RecoverStep, RestoreStep, AdoptStep DEF StartStep
<1>3. CASE EnvironmentStep
  <2>1. CASE \E spec \in JobSpec : SubmitJob(spec)
    BY <2>1, ClientStep DEF SubmitJob
  <2>2. CASE \E j \in DOMAIN store.jobs : CancelJob(j)
    BY <2>2, ClientStep DEF CancelJob
  <2> QED BY <1>3, <2>1, <2>2, ProcessExitStep, EscalateStep, ScanStep, PumpDoneStep,
             SampleStep, CrashStep DEF EnvironmentStep
<1> QED BY <1>1, <1>2, <1>3 DEF Next

(* A stuttering step is quiet.                                              *)
LEMMA Stutter ==
  ASSUME BoardInv, UNCHANGED vars
  PROVE  BoardInv' /\ BoardStep(store, store')
BY QuietStep, Zenon DEF vars, persistent, channels, monitors, memory, control

(* What the steps do to the store.                                          *)
LEMMA StepStore ==
  ASSUME BoardInv
  PROVE  StoreEffects
<1>1. \A created_ok, rollback_ok : process_submit(created_ok, rollback_ok) => Submitted(store, store')
  BY SubmitsStep
<1>2. \A ok, timer : process_cancel(ok, timer) => CancelStore
  BY CancelStep
<1>3. \A ok : ScheduleOnWake(ok) \/ ScheduleOnGpuEvent(ok) => ScheduleStore
  BY SchedulesStep
<1>4. \A ok, now : SpawnFails(ok, now) =>
        Wrote(store, store', launch.job, "FAILED", store.jobs[launch.job].identity)
  BY SpawnFailsStep, Zenon
<1>5. \A fault, ok, started, now : PersistFails(fault, ok, started, now) => PersistStore
  BY PersistFailsStep
<1>6. \A now : Supervise(now) => Wrote(store, store', launch.job, "RUNNING", LaunchedIdentity)
  BY SuperviseStep
<1>7. \A ok, now : process_exit(ok, now) => ExitStore
  BY ExitStep
<1>8. \A ok : RecoverChunk(ok) => RecoverStore
  BY RecoverStep
<1> QED BY <1>1, <1>2, <1>3, <1>4, <1>5, <1>6, <1>7, <1>8, Zenon DEF StoreEffects

(* Every step, and a stuttering one too.                                    *)
LEMMA StepKeepsLeases ==
  ASSUME BoardInv, [Next]_vars
  PROVE  LeasesKept(store, store')
<1>1. BoardInv' /\ BoardStep(store, store')
  BY NextStep, Stutter
<1> QED BY <1>1, BoardKeepsLeases, Zenon DEF BoardInv

(* A step between stores is one of the board's.                             *)
LEMMA SeenAsNext ==
  ASSUME StoreOK(store), BoardStep(store, store')
  PROVE  [Board!Next]_(Board!boardVars)
<1> DEFINE board == [j \in DOMAIN store.jobs |-> Standing(store.jobs[j].state)]
           next == [j \in DOMAIN store'.jobs |-> Standing(store'.jobs[j].state)]
<1>1. View(store) = board /\ View(store') = next /\ DOMAIN board = DOMAIN store.jobs
  BY Zenon DEF View
<1>2. DOMAIN store.jobs \subseteq JobId
  BY StoredIds
<1>3. CASE Unseen(store, store')
  <2>1. next = board /\ store'.leases = store.leases
    BY <1>1, <1>3, Zenon DEF Unseen
  <2> QED BY <2>1, Zenon DEF Board!boardVars
<1>4. CASE SubmitStep(store, store')
  <2>1. PICK j \in JobId, as \in {"waiting", "CANCELLED"} :
          j \notin DOMAIN store.jobs /\ View(store') = Put(View(store), j, as)
    BY <1>4, Zenon DEF SubmitStep
  <2>2. next = Board!Put(board, j, as) /\ j \notin DOMAIN board /\ store'.leases = store.leases
    BY <1>1, <1>4, <2>1, Zenon DEF SubmitStep, Put, Board!Put
  <2> HIDE DEF board, next
  <2>3. Board!Submit(j)
    BY <2>1, <2>2, Zenon DEF Board!Submit, Board!Waiting, board, next
  <2> QED BY <2>3 DEF Board!Next
<1>5. CASE MoveStep(store, store')
  <2>1. PICK j \in DOMAIN store.jobs :
          \/ View(store)[j] = "waiting" /\ View(store') = Put(View(store), j, "CANCELLED")
          \/ View(store)[j] = "running" /\ View(store') = Put(View(store), j, "stopping")
    BY <1>5, Zenon DEF MoveStep
  <2>2. /\ j \in DOMAIN board /\ j \in JobId /\ store'.leases = store.leases
        /\ \/ board[j] = "waiting" /\ next = Board!Put(board, j, "CANCELLED")
           \/ board[j] = "running" /\ next = Board!Put(board, j, "stopping")
    BY <1>1, <1>2, <1>5, <2>1, Zenon DEF MoveStep, Put, Board!Put
  <2>3. Board!Withdraw(j) \/ Board!Stop(j)
    BY <2>2, Zenon DEF Board!Withdraw, Board!Stop, Board!Move, Board!Waiting, Board!Running, Board!Stopping
  <2> QED BY <2>2, <2>3, Zenon DEF Board!Next
<1>6. CASE LaunchStep(store, store')
  <2>1. PICK j \in DOMAIN store.jobs, g \in GpuUuid \ DOMAIN store.leases :
          /\ View(store)[j] = "waiting" /\ View(store') = Put(View(store), j, "running")
          /\ store'.leases = Put(store.leases, g, j)
    BY <1>6, Zenon DEF LaunchStep
  <2>2. /\ j \in DOMAIN board /\ j \in JobId
        /\ board[j] = "waiting" /\ next = Board!Put(board, j, "running")
        /\ store'.leases = Board!Put(store.leases, g, j)
    BY <1>1, <1>2, <2>1, Zenon DEF Put, Board!Put
  <2>3. Board!Start(j, g)
    BY <2>1, <2>2, Zenon DEF Board!Start, Board!Move, Board!Waiting, Board!Running
  <2> QED BY <2>1, <2>2, <2>3, Zenon DEF Board!Next
<1>7. CASE EndStep(store, store')
  <2>1. PICK S \in SUBSET DOMAIN board : \E outcome \in [S -> Terminal] :
          /\ S # {}
          /\ \A j \in S : \/ board[j] = "stopping" /\ outcome[j] \in {"CANCELLED", "LOST"}
                          \/ board[j] = "running" /\ outcome[j] \in {"FINISHED", "FAILED", "LOST"}
          /\ next = [j \in DOMAIN board |-> IF j \in S THEN outcome[j] ELSE board[j]]
          /\ store'.leases = [g \in {h \in DOMAIN store.leases : store.leases[h] \notin S} |->
                               store.leases[g]]
    <3> HIDE DEF board, next
    <3> QED BY <1>1, <1>7, SMTT(30) DEF EndStep, Ends
  <2>2. PICK outcome \in [S -> Terminal] :
          /\ S # {}
          /\ \A j \in S : \/ board[j] = "stopping" /\ outcome[j] \in {"CANCELLED", "LOST"}
                          \/ board[j] = "running" /\ outcome[j] \in {"FINISHED", "FAILED", "LOST"}
          /\ next = [j \in DOMAIN board |-> IF j \in S THEN outcome[j] ELSE board[j]]
          /\ store'.leases = [g \in {h \in DOMAIN store.leases : store.leases[h] \notin S} |->
                               store.leases[g]]
    BY <2>1, Zenon
  <2>3. S \in SUBSET JobId /\ outcome \in [S -> Board!Outcome]
    BY <1>1, <1>2, <2>1, <2>2, Zenon DEF Terminal, Board!Outcome
  <2>4. S \subseteq {j \in DOMAIN board : board[j] \in {"running", "stopping"}}
    BY <1>1, <2>1, <2>2, Zenon
  <2>5. \A j \in S : outcome[j] \in IF board[j] = "stopping" THEN {"CANCELLED", "LOST"}
                                    ELSE {"FINISHED", "FAILED", "LOST"}
    BY <1>1, <2>2, Zenon
  <2>6. Board!End(S, outcome)
    BY <2>2, <2>4, <2>5, Zenon DEF Board!End, Board!Running, Board!Stopping
  <2> QED BY <2>3, <2>6, Zenon DEF Board!Next
<1> QED BY <1>3, <1>4, <1>5, <1>6, <1>7 DEF BoardStep

(* The daemon starts with an empty board.                                   *)
LEMMA SeenAsInit == Init => Board!Init
<1> SUFFICES ASSUME Init PROVE Board!Init
  OBVIOUS
<1>1. store.jobs = EmptyMap /\ store.leases = EmptyMap
  BY DEF Init, EmptyStore
<1>2. DOMAIN store.jobs = {} /\ DOMAIN store.leases = {}
  BY <1>1, Zenon DEF EmptyMap
<1>3. store.leases = [g \in {} |-> Board!Waiting]
  BY <1>1, Zenon DEF EmptyMap
<1>4. [j \in DOMAIN store.jobs |-> Standing(store.jobs[j].state)] = [j \in {} |-> Board!Waiting]
  BY <1>2
<1> QED BY <1>3, <1>4, Zenon DEF Board!Init

=============================================================================
