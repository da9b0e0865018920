---------------------------- MODULE MCScheduling ----------------------------
(* Three jobs of every placement kind on two GPUs, a queue of two entries   *)
(* and a scan window of two, so that refusals and truncation happen.        *)
EXTENDS Scheduling, TLC

CONSTANTS g1, g2, i1

MCJobId == 1 .. 3
MCGpuUuid == {g1, g2}
MCGpuIndex == (g1 :> 0) @@ (g2 :> 1)
MCIdentity == {i1}
MCExitStatus == {}
MCClock == {2}
MCJobSpec ==
  {[submit_time |-> 1, mode |-> "ANY", devices |-> {}],
   [submit_time |-> 2, mode |-> "ANY", devices |-> {}],
   [submit_time |-> 1, mode |-> "REQUIRED", devices |-> {g1}],
   [submit_time |-> 2, mode |-> "PREFERRED", devices |-> {g1}]}
MCObservation ==
  {(g1 :> "FREE") @@ (g2 :> "FREE"), (g1 :> "EXTERNAL_BUSY") @@ (g2 :> "FREE"),
   (g1 :> "FREE"), (g1 :> "UNAVAILABLE")}
=============================================================================
