---------------------------- MODULE MCGpuManager ----------------------------
(* One GPU, two executor threads beside the owner's.                        *)
EXTENDS GpuManager, TLC

CONSTANTS g1, owner, t1, t2

MCGpuUuid == {g1}
MCDeviceState == {"FREE", "ABSENT"}
MCTicker == {owner, t1, t2}
MCSymmetry == Permutations({t1, t2})
=============================================================================
