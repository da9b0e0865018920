----------------------------- MODULE StoreView -----------------------------
EXTENDS StoreWrites
(***************************************************************************)
(* Stores as values: when one is sound, the board it shows, and how the    *)
(* writes of the daemon relate a store s and the next one t.  BoardSteps   *)
(* proves that the mutations of StoreWrites are such writes.               *)
(***************************************************************************)

-----------------------------------------------------------------------------
(* Stores, and what is seen of them from outside.                           *)

(* The board a store shows.                                                 *)
View(s) == [j \in DOMAIN s.jobs |-> Standing(s.jobs[j].state)]

(* A sound store: ids without gaps, the lease matrix, and what the provers  *)
(* need to know of its shape.                                               *)
StoreOK(s) ==
  /\ s.jobs = [j \in DOMAIN s.jobs |-> s.jobs[j]]
  /\ s.leases = [g \in DOMAIN s.leases |-> s.leases[g]]
  /\ \E n \in Nat : DOMAIN s.jobs = 1 .. n /\ 1 .. n \subseteq JobId
  /\ \A j \in DOMAIN s.jobs : {"state", "identity"} \subseteq DOMAIN s.jobs[j]
  /\ DOMAIN s.leases \subseteq GpuUuid
  /\ LeaseMatrixHolds(s.jobs, s.leases)

Put(f, x, v) == [y \in DOMAIN f \cup {x} |-> IF y = x THEN v ELSE f[y]]

-----------------------------------------------------------------------------
(* One step of the board, between two stores.                               *)

(* The actions of JobBoard, as relations of a store and the next.           *)
SubmitStep(s, t) ==
  /\ t.leases = s.leases
  /\ \E j \in JobId, as \in {"waiting", "CANCELLED"} :
       j \notin DOMAIN s.jobs /\ View(t) = Put(View(s), j, as)

MoveStep(s, t) ==
  /\ t.leases = s.leases
  /\ \E j \in DOMAIN s.jobs :
       \/ View(s)[j] = "waiting" /\ View(t) = Put(View(s), j, "CANCELLED")
       \/ View(s)[j] = "running" /\ View(t) = Put(View(s), j, "stopping")

LaunchStep(s, t) ==
  \E j \in DOMAIN s.jobs, g \in GpuUuid \ DOMAIN s.leases :
    /\ View(s)[j] = "waiting" /\ View(t) = Put(View(s), j, "running")
    /\ t.leases = Put(s.leases, g, j)

Ends(view, leases, t) ==
  \E S \in SUBSET DOMAIN view : \E outcome \in [S -> Terminal] :
    /\ S # {}
    /\ \A j \in S : \/ view[j] = "stopping" /\ outcome[j] \in {"CANCELLED", "LOST"}
                    \/ view[j] = "running" /\ outcome[j] \in {"FINISHED", "FAILED", "LOST"}
    /\ View(t) = [j \in DOMAIN view |-> IF j \in S THEN outcome[j] ELSE view[j]]
    /\ t.leases = [g \in {h \in DOMAIN leases : leases[h] \notin S} |-> leases[g]]

EndStep(s, t) == Ends(View(s), s.leases, t)

(* A write that does not show, such as the one from STARTING to RUNNING.    *)
Unseen(s, t) == View(t) = View(s) /\ t.leases = s.leases

BoardStep(s, t) ==
  Unseen(s, t) \/ SubmitStep(s, t) \/ MoveStep(s, t) \/ LaunchStep(s, t) \/ EndStep(s, t)

-----------------------------------------------------------------------------
(* What the writes do to the records and the leases.                        *)

(* t is s with the records of U replaced and the leases of R released.      *)
Rewritten(s, t, U, R) ==
  /\ DOMAIN U \subseteq DOMAIN s.jobs
  /\ t.jobs = [j \in DOMAIN s.jobs |-> IF j \in DOMAIN U THEN U[j] ELSE s.jobs[j]]
  /\ R \subseteq DOMAIN s.leases
  /\ t.leases = [g \in DOMAIN s.leases \ R |-> s.leases[g]]
  /\ \A j \in DOMAIN U : can_transition(s.jobs[j].state, U[j].state)
  /\ LeaseMatrixHolds(t.jobs, t.leases)

(* No record but that of j is other in t than in s.                         *)
OnlyOf(s, t, j) ==
  /\ DOMAIN s.jobs \subseteq DOMAIN t.jobs
  /\ \A k \in DOMAIN s.jobs : k # j => t.jobs[k] = s.jobs[k]

(* t is s, or j has gone on to state st, known by the identity id.          *)
Wrote(s, t, j, st, id) ==
  \/ t = s
  \/ /\ j \in DOMAIN s.jobs /\ DOMAIN t.jobs = DOMAIN s.jobs /\ OnlyOf(s, t, j)
     /\ can_transition(s.jobs[j].state, st) /\ t.jobs[j].state = st
     /\ t.jobs[j].identity = id

(* t is s with job j started under the lease of GPU g.                      *)
Started(s, t, j, g) ==
  /\ j \in DOMAIN s.jobs /\ DOMAIN t.jobs = DOMAIN s.jobs /\ OnlyOf(s, t, j)
  /\ s.jobs[j].state = "QUEUED" /\ t.jobs[j].state = "STARTING"
  /\ t.jobs[j].identity = s.jobs[j].identity
  /\ g \in GpuUuid \ DOMAIN s.leases /\ t.leases = Put(s.leases, g, j)

(* t is s with the new job j waiting.                                       *)
Created(s, t, j) ==
  /\ j \in JobId \ DOMAIN s.jobs /\ DOMAIN t.jobs = DOMAIN s.jobs \cup {j}
  /\ View(t) = Put(View(s), j, "waiting") /\ t.leases = s.leases
  /\ \A k \in DOMAIN s.jobs : t.jobs[k] = s.jobs[k]
  /\ ~has_identity(t.jobs[j])

(* t is s, or has one job more, which has had no process.                   *)
Submitted(s, t) ==
  \/ t = s
  \/ \E j : /\ j \notin DOMAIN s.jobs /\ DOMAIN t.jobs = DOMAIN s.jobs \cup {j}
            /\ \A k \in DOMAIN s.jobs : t.jobs[k] = s.jobs[k]
            /\ ~has_identity(t.jobs[j])

(* t is s, or j is withdrawn from the queue or being stopped.               *)
Cancelled(s, t, j) ==
  \/ t = s
  \/ /\ j \in DOMAIN s.jobs /\ DOMAIN t.jobs = DOMAIN s.jobs /\ OnlyOf(s, t, j)
     /\ t.jobs[j].identity = s.jobs[j].identity
     /\ \/ s.jobs[j].state = "QUEUED" /\ t.jobs[j].state = "CANCELLED"
        \/ s.jobs[j].state \in {"STARTING", "RUNNING"} /\ t.jobs[j].state = "STOPPING"

(* The records of a chunk are what the recovery plan makes of them.         *)
Chunked(s, t, chunk, decision) ==
  /\ chunk \subseteq DOMAIN s.jobs /\ DOMAIN t.jobs = DOMAIN s.jobs
  /\ \A j \in DOMAIN s.jobs : t.jobs[j].identity = s.jobs[j].identity
  /\ \A j \in DOMAIN s.jobs \ chunk : t.jobs[j] = s.jobs[j]
  /\ \A j \in chunk : /\ t.jobs[j].state = IF decision[j] = "LOST" THEN "LOST" ELSE "RUNNING"
                      /\ can_transition(s.jobs[j].state, t.jobs[j].state)

(* No job of s starts being stopped in t.                                   *)
NoneStopped(s, t) ==
  /\ DOMAIN s.jobs \subseteq DOMAIN t.jobs
  /\ \A j \in DOMAIN s.jobs :
       t.jobs[j].state = "STOPPING" => s.jobs[j].state = "STOPPING"

Holds(s, g, j) == g \in DOMAIN s.leases /\ s.leases[g] = j

(* A job keeps its lease as long as its state entitles it to one.           *)
LeasesKept(s, t) ==
  \A g \in DOMAIN s.leases : leaseable(t.jobs[s.leases[g]].state) => Holds(t, g, s.leases[g])

=============================================================================
