-------------------------------- MODULE Job --------------------------------
(***************************************************************************)
(* The explicit job state machine: JobState, is_terminal and               *)
(* can_transition of include/yori/job/job.hpp and src/job/job.cpp.         *)
(***************************************************************************)

Terminal == {"FINISHED", "FAILED", "CANCELLED", "LOST"}

JobState == {"QUEUED", "STARTING", "RUNNING", "STOPPING"} \cup Terminal

is_terminal(state) == state \in Terminal

(* A mutated relation: a late failure may still overwrite a LOST job.       *)
can_transition_Resurrecting(from, to) ==
  \/ from = "QUEUED"   /\ to \in {"STARTING", "CANCELLED"}
  \/ from = "STARTING" /\ to \in {"RUNNING", "STOPPING", "FAILED", "LOST"}
  \/ from = "RUNNING"  /\ to \in {"STOPPING", "FINISHED", "FAILED", "LOST"}
  \/ from = "STOPPING" /\ to \in {"CANCELLED", "FAILED", "LOST"}
  \/ from = "LOST"     /\ to = "FAILED"

can_transition(from, to) ==
  \/ from = "QUEUED"   /\ to \in {"STARTING", "CANCELLED"}
  \/ from = "STARTING" /\ to \in {"RUNNING", "STOPPING", "FAILED", "LOST"}
  \/ from = "RUNNING"  /\ to \in {"STOPPING", "FINISHED", "FAILED", "LOST"}
  \/ from = "STOPPING" /\ to \in {"CANCELLED", "FAILED", "LOST"}

(* How a job stands, seen from outside.                                     *)
Standing(state) ==
  CASE state = "QUEUED" -> "waiting"
    [] state \in {"STARTING", "RUNNING"} -> "running"
    [] state = "STOPPING" -> "stopping"
    [] state \in Terminal -> state

=============================================================================
