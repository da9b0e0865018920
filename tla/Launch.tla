------------------------------- MODULE Launch -------------------------------
(***************************************************************************)
(* From a user's shell to the process of a job: which variables of the     *)
(* user's environment are captured at submission, which program the        *)
(* command name stands for (src/launch/environment_capture.cpp), when a    *)
(* job specification is valid (src/job/job.cpp) and what the daemon hands  *)
(* to the new process (src/launch/launch_adapter.cpp).                     *)
(*                                                                         *)
(* An environment is a function from names to values; a path is a pair of  *)
(* a directory and a name.  A name counts one byte, a value one byte or    *)
(* more than a value may have.                                             *)
(***************************************************************************)
EXTENDS Naturals, FiniteSets, Sequences, TLC

CONSTANTS
  YoriName,       \* the variable names that start with YORI_
  LcName,         \* the variable names that start with LC_
  BadName,        \* the names that are no environment names
  LongValue,      \* the values above kMaxEnvironmentValueBytes
  MaxVariables,   \* kMaxEnvironmentVariables, of a specification and of a plan
  MaxEnvBytes,    \* kMaxEnvironmentBytes, of a specification and of a plan
  MaxDevices,     \* kMaxPlacementDevices
  Absolute,       \* the strings that start with /
  Slashed,        \* the command names with a / in them
  Directories,    \* the directories a value of PATH lists, in order
  Executable,     \* the paths of executable files
  Passwd,         \* the passwd entries: uid to [gid, name, home, shell]
  DaemonEnv,      \* the daemon's own environment
  NoPath,         \* no executable
  Number,         \* numerals to the numbers they stand for
  Option          \* the launch profiles that name an argument: -x

ASSUME LaunchAssumption == {MaxVariables, MaxEnvBytes, MaxDevices} \subseteq Nat

is_reserved_environment_key(name) ==
  name \in YoriName \cup {"CUDA_DEVICE_ORDER", "CUDA_VISIBLE_DEVICES", "HOME", "LD_PRELOAD",
                          "LOGNAME", "SHELL", "USER"}

With(env, over) ==
  [n \in DOMAIN env \cup DOMAIN over |-> IF n \in DOMAIN over THEN over[n] ELSE env[n]]

Only(env, names) == [n \in DOMAIN env \cap names |-> env[n]]

(* The limits on an environment.  Specifications and plans have the same.   *)
EnvironmentFits(env) ==
  /\ Cardinality(DOMAIN env) <= MaxVariables
  /\ \A n \in DOMAIN env : n \notin BadName /\ env[n] \notin LongValue
  /\ 2 * Cardinality(DOMAIN env) <= MaxEnvBytes

-----------------------------------------------------------------------------
(* At submission, in the user's shell.                                      *)

DefaultKeys ==
  {"CONDA_DEFAULT_ENV", "CONDA_PREFIX", "CUDA_HOME", "CUDA_PATH", "HTTP_PROXY", "HTTPS_PROXY",
   "LD_LIBRARY_PATH", "MKL_NUM_THREADS", "NO_PROXY", "OMP_NUM_THREADS", "PATH", "PYTHONPATH",
   "VIRTUAL_ENV", "http_proxy", "https_proxy", "no_proxy"}

captures(policy, name) ==
  /\ ~is_reserved_environment_key(name)
  /\ policy.inherit_all \/ name \in DefaultKeys \cup policy.extra

(* Malformed names are skipped; exceeding a limit rejects the whole.        *)
capture_environment(source, policy) ==
  LET names == {n \in DOMAIN source : captures(policy, n) /\ n \notin BadName}
      env   == Only(source, names)
  IN  [ok |-> EnvironmentFits(env), env |-> env]

(* A name with a slash is a path, relative to an absolute cwd; a bare name  *)
(* is looked up in the captured PATH, whose empty entries are skipped.      *)
resolve_executable(argv0, cwd, env) ==
  LET path  == IF "PATH" \in DOMAIN env /\ env["PATH"] # ""
               THEN Directories[env["PATH"]] ELSE <<"/usr/bin", "/bin">>
      hits  == {i \in DOMAIN path : path[i] # "" /\ <<path[i], argv0>> \in Executable}
      first == CHOOSE i \in hits : \A k \in hits : i <= k
      found == CASE argv0 = "" -> NoPath
                 [] argv0 \in Slashed /\ argv0 \in Absolute -> <<"/", argv0>>
                 [] argv0 \in Slashed /\ argv0 \notin Absolute ->
                      IF cwd \in Absolute THEN <<cwd, argv0>> ELSE NoPath
                 [] argv0 # "" /\ argv0 \notin Slashed ->
                      IF hits = {} THEN NoPath ELSE <<path[first], argv0>>
  IN  IF found \in Executable THEN found ELSE NoPath

detect_environment_source(env) ==
  CASE "CONDA_PREFIX" \in DOMAIN env -> "conda"
    [] "CONDA_PREFIX" \notin DOMAIN env /\ "VIRTUAL_ENV" \in DOMAIN env -> "venv"
    [] OTHER -> "none"

-----------------------------------------------------------------------------
(* The specification of a job, at submission and again at the launch.       *)

is_root(spec) == spec.owner = 0

SpecValid(spec) ==
  /\ ~is_root(spec)
  /\ spec.argv # <<>> /\ Head(spec.argv) # ""
  /\ spec.cwd \in Absolute
  /\ EnvironmentFits(spec.env)
  /\ CASE spec.mode = "ANY"       -> spec.devices = {}
       [] spec.mode = "REQUIRED"  -> Cardinality(spec.devices) \in 1 .. MaxDevices
       [] spec.mode = "PREFERRED" -> Cardinality(spec.devices) = 1
  /\ spec.gpu_request = 1
  /\ spec.executable # NoPath => spec.executable[1] \in Absolute
  /\ spec.submit_time > 0

-----------------------------------------------------------------------------
(* At the launch, in the daemon.                                            *)

(* The owner's passwd entry; a uid without one, and the root group, are     *)
(* refused.                                                                 *)
Resolvable(uid) == uid # 0 /\ uid \in DOMAIN Passwd /\ Passwd[uid].gid # 0

(* profile_from_spec and validate: without a launch profile the GPU is      *)
(* mapped by CUDA_VISIBLE_DEVICES.                                          *)
ProfileValid(spec) == spec.launch_profile = "" \/ spec.launch_profile \in Option

accepts(name) == name \in {"LANG", "PATH", "TERM", "TZ"} \cup LcName

IdentityBlock(uid) ==
  ("HOME" :> Passwd[uid].home) @@ ("USER" :> Passwd[uid].name) @@
  ("LOGNAME" :> Passwd[uid].name) @@ ("SHELL" :> Passwd[uid].shell)

(* The variables that say which GPU the job got.  With a launch profile     *)
(* the index is an argument of the program instead.                         *)
ResourceBlock(j, gpu, index, profile) ==
  LET managed == ("YORI_JOB_ID" :> ToString(j)) @@ ("YORI_GPU_UUID" :> gpu) IN
  IF profile # "" THEN managed
  ELSE managed @@ ("CUDA_VISIBLE_DEVICES" :> ToString(index))
               @@ ("CUDA_DEVICE_ORDER" :> "PCI_BUS_ID")

(* A mutated merge in which the daemon's variables win over the captured    *)
(* ones.                                                                    *)
merged_DaemonWins(j, spec, gpu, index) ==
  With(With(With(IdentityBlock(spec.owner), spec.env),
            Only(DaemonEnv, {n \in DOMAIN DaemonEnv : accepts(n)})),
       ResourceBlock(j, gpu, index, spec.launch_profile))

(* The four layers: identity, the daemon's own variables, the captured      *)
(* context, the resources.  A later layer wins.                             *)
merged(j, spec, gpu, index) ==
  With(With(With(IdentityBlock(spec.owner),
                 Only(DaemonEnv, {n \in DOMAIN DaemonEnv : accepts(n)})),
            spec.env),
       ResourceBlock(j, gpu, index, spec.launch_profile))

Plan(j, spec, gpu, index) ==
  [argv       |-> IF spec.launch_profile = "" THEN spec.argv
                  ELSE spec.argv \o <<spec.launch_profile, ToString(index)>>,
   env        |-> merged(j, spec, gpu, index),
   cwd        |-> spec.cwd,
   executable |-> spec.executable,
   uid        |-> spec.owner]

(* validate(LaunchPlan): unlike a specification, no argument may be empty.  *)
PlanValid(plan) ==
  /\ plan.argv # <<>> /\ \A i \in DOMAIN plan.argv : plan.argv[i] # ""
  /\ plan.cwd \in Absolute
  /\ plan.executable # NoPath => plan.executable[1] \in Absolute
  /\ EnvironmentFits(plan.env)
  /\ plan.uid # 0

(* prepare succeeds.                                                        *)
Preparable(j, spec, gpu, index) ==
  /\ SpecValid(spec) /\ ProfileValid(spec)
  /\ \A n \in DOMAIN spec.env : ~is_reserved_environment_key(n)
  /\ PlanValid(Plan(j, spec, gpu, index))

=============================================================================
