---------------------------- MODULE MCJobManager ----------------------------
(* Two jobs that take any GPU, submitted at 1: a clock that reads 0 has been*)
(* set back.  The pids are interchangeable.                                 *)
EXTENDS JobManager, TLC

CONSTANTS g1, p1, p2

MCJobId == 1 .. 2
MCOneGpu == {g1}
MCOneIndex == (g1 :> 0)
MCPid == {p1, p2}
MCSymmetry == Permutations(MCPid)
MCIdentity == [pid : MCPid, ticks : MCJobId]
MCExitStatus == {"SUCCESS"}
MCFailureOnly == {"FAILURE"}
MCClock == {0, 1}
MCSteadyClock == {1}
MCJobSpec == {[submit_time |-> 1, mode |-> "ANY", devices |-> {}]}
=============================================================================
