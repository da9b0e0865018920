----------------------------- MODULE MCRequests -----------------------------
(* Two users and an administrator, two GPUs of which either may vanish from *)
(* the observation, a queue of one entry and a command channel of two.      *)
EXTENDS Requests

MCUuids == {"GPU-a", "GPU-b"}
MCGpuIndex == ("GPU-a" :> 0) @@ ("GPU-b" :> 1)
MCJobId == 1 .. 3
MCClock == {1}
MCObservation == {[g \in S |-> "FREE"] : S \in SUBSET MCUuids \ {{}}}

MCPasswd ==
  [uid \in {1, 2} |-> [gid |-> 100, name |-> IF uid = 1 THEN "ann" ELSE "ben",
                       home |-> IF uid = 1 THEN "/home/ann" ELSE "/home/ben", shell |-> "/bin/sh"]]
MCEnviron ==
  [uid \in {1, 2, 9} |->
     IF uid = 1 THEN ("PATH" :> "/opt:/bin") @@ ("CONDA_PREFIX" :> "/opt") @@ ("HOME" :> "/tmp")
                ELSE ("PATH" :> "/bin") @@ ("YORI_JOB_ID" :> "7")]
MCCwd == [uid \in {1, 2, 9} |-> "/data"]
MCDaemonEnv == ("PATH" :> "/sbin") @@ ("LANG" :> "C") @@ ("USER" :> "root")
MCDirectories == ("/opt:/bin" :> <<"/opt", "/bin">>) @@ ("/bin" :> <<"/bin">>)
MCExecutable == {<<"/opt", "train">>, <<"/bin", "train">>}
MCAbsolute == {"/data", "/opt", "/bin"}
MCNumber == ("0" :> 0) @@ ("1" :> 1) @@ ("2" :> 2)
MCKeyValue == "SEED=1" :> <<"SEED", "1">>
MCListed == "0,1" :> <<"0", "1">>
MCYoriName == {"YORI_JOB_ID"}

Yori(uid, line) == [uid |-> uid, line |-> line]

Ben == Yori(2, <<"submit", "--gpu", "0", "--env", "SEED=1", "--", "train", "x">>)
Ann == Yori(1, <<"submit", "--gpu", "0", "--", "train">>)
Cancel(uid) == Yori(uid, <<"cancel", "1">>)
Lookups ==
  {Yori(1, <<"ps">>), Yori(1, <<"queue">>), Yori(1, <<"gpu">>), Yori(2, <<"inspect", "1">>),
   Yori(1, <<"logs", "1">>), Yori(2, <<"logs", "-f", "1">>), Yori(2, <<"tensorboard", "1">>),
   Yori(1, <<"inspect", "1">>), Yori(1, <<"logs", "-f", "1">>), Yori(1, <<"tensorboard", "1">>)}

MCInvocations == <<{Ben}, {Ann, Cancel(1), Cancel(2)} \cup Lookups, {Cancel(9)}>>

(* A client of an older version: no environment, no resolved program.       *)
Older(preferred, profile) ==
  [uid |-> 2,
   request |-> [kind |-> "SUBMIT", argv |-> <<"train">>, cwd |-> "/data", env |-> EmptyMap,
                executable |-> NoPath, source |-> "none", gpu_spec |-> <<>>,
                gpu_preferred |-> preferred, logdir |-> "", gpu_request |-> 1,
                launch_profile |-> profile]]
MCOtherRequests == <<{}, {Older("GPU-b", "--device")}, {}>>
=============================================================================
