----------------------------- MODULE IpcService -----------------------------
(***************************************************************************)
(* What the daemon answers (src/ipc/ipc_service.cpp): the handlers as pure *)
(* functions of the peer's uid and of what they read.  A handler that      *)
(* reads twice takes both readings as parameters, since the store, the GPU *)
(* observation and the published evaluation may change in between.         *)
(*                                                                         *)
(* A job's log directory is recorded together with its process identity,   *)
(* so a record has logs when it has an identity.                           *)
(***************************************************************************)
EXTENDS StoreWrites, Launch

CONSTANTS
  Admins,          \* the uids of the administrators
  MaxListed,       \* IpcServiceConfig::max_listed_jobs
  Sensitive,       \* the variable names that match a sensitive pattern
  NoObservation    \* no GPU snapshot has been published

ASSUME ServiceAssumption == MaxListed \in Nat \ {0}

is_admin(uid) == uid \in Admins

Owns(uid, record) == record.spec.owner = uid \/ is_admin(uid)

Response(kind, error) ==
  [kind |-> kind, error |-> error, job |-> 0, state |-> "NONE", rows |-> {}]

With_state(response, state) == [response EXCEPT !.state = state]

-----------------------------------------------------------------------------
(* SUBMIT up to the delegation to the job manager.                          *)

(* A numeral is a physical index, any other text a uuid, of the current     *)
(* observation: the device as a set of one, or none.                        *)
resolve_gpu_spec(text, obs) ==
  IF text \in DOMAIN Number THEN {g \in DOMAIN obs : GpuIndex[g] = Number[text]}
                            ELSE {g \in DOMAIN obs : g = text}

Placed(request, obs) ==
  IF request.gpu_preferred # ""
  THEN [mode |-> "PREFERRED", devices |-> resolve_gpu_spec(request.gpu_preferred, obs)]
  ELSE [mode |-> "REQUIRED",
        devices |-> UNION {resolve_gpu_spec(request.gpu_spec[i], obs) :
                             i \in DOMAIN request.gpu_spec}]

(* resolve_gpu_spec_list fails as a whole when an entry does.               *)
Resolves(request, obs) ==
  /\ Len(request.gpu_spec) <= MaxDevices
  /\ \A i \in DOMAIN request.gpu_spec : resolve_gpu_spec(request.gpu_spec[i], obs) # {}
  /\ request.gpu_preferred # "" => resolve_gpu_spec(request.gpu_preferred, obs) # {}

(* The specification and the error that keeps it from the job manager.  The *)
(* owner is the peer, whatever the request says.                            *)
handle_submit(uid, request, obs, now) ==
  LET placed == request.gpu_spec # <<>> \/ request.gpu_preferred # ""
      place  == IF placed THEN Placed(request, obs) ELSE [mode |-> "ANY", devices |-> {}]
      spec   == [owner |-> uid, argv |-> request.argv, cwd |-> request.cwd,
                 env |-> request.env, executable |-> request.executable,
                 logdir |-> request.logdir, source |-> request.source,
                 mode |-> place.mode, devices |-> place.devices,
                 gpu_request |-> request.gpu_request,
                 launch_profile |-> request.launch_profile, submit_time |-> now]
      Refuse(error) == [error |-> error, spec |-> {}]
  IN  IF /\ placed
         /\ \/ request.gpu_spec # <<>> /\ request.gpu_preferred # ""
            \/ request.gpu_request # 1
      THEN Refuse("INVALID_SPEC")
      ELSE IF placed /\ obs = NoObservation THEN Refuse("NOT_AVAILABLE")
      ELSE IF placed /\ ~Resolves(request, obs) THEN Refuse("INVALID_SPEC")
      ELSE IF is_root(spec) THEN Refuse("DENIED")
      ELSE IF ~SpecValid(spec) THEN Refuse("INVALID_SPEC")
      ELSE [error |-> "NONE", spec |-> spec]

-----------------------------------------------------------------------------
(* The listings.  They are cut to a prefix of MaxListed rows, which LIMIT   *)
(* reports.                                                                 *)

(* The wait reason of a queued job in the latest evaluation; the device is  *)
(* shown to the owner and to administrators.                                *)
Wait(evaluation, j, full) ==
  LET skips == {s \in evaluation : s.job = j}
      skip  == CHOOSE s \in skips : TRUE
  IN  IF skips = {} THEN [reason |-> "NONE", target |-> NoGpu]
      ELSE [reason |-> skip.reason, target |-> IF full THEN skip.target ELSE NoGpu]

(* The first MaxListed elements of S in the order less.                     *)
Prefix(S, less(_, _)) ==
  {j \in S : Cardinality({k \in S : less(k, j)}) < MaxListed}

Listing(kind, all, listed, Row(_)) ==
  [Response(kind, IF listed = all THEN "NONE" ELSE "LIMIT") EXCEPT
     !.rows = {Row(j) : j \in listed}]

(* A mutated listing that shows every command to everyone.                  *)
masked_Never(uid, record) == FALSE

masked(uid, record) == ~Owns(uid, record)

handle_ps(uid, jobs, evaluation) ==
  Listing("PS", DOMAIN jobs, Prefix(DOMAIN jobs, LAMBDA k, j : k < j),
    LAMBDA j : [job |-> j, state |-> jobs[j].state, owner |-> jobs[j].spec.owner,
                argv |-> IF masked(uid, jobs[j]) THEN <<>> ELSE jobs[j].spec.argv,
                cwd |-> IF masked(uid, jobs[j]) THEN "" ELSE jobs[j].spec.cwd,
                logdir |-> IF masked(uid, jobs[j]) THEN "" ELSE jobs[j].spec.logdir,
                wait |-> Wait(IF jobs[j].state = "QUEUED" THEN evaluation ELSE {}, j,
                              ~masked(uid, jobs[j]))])

handle_queue(uid, jobs, evaluation) ==
  Listing("QUEUE", Queued(jobs),
    Prefix(Queued(jobs), LAMBDA k, j : entry_less(Entry(k, jobs[k]), Entry(j, jobs[j]))),
    LAMBDA j : [job |-> j, owner |-> jobs[j].spec.owner,
                wait |-> Wait(evaluation, j, Owns(uid, jobs[j]))])

(* The logical state of a device: a lease comes before the observation.     *)
derive_logical_state(observation, leased) == IF leased THEN "ALLOCATED" ELSE observation

handle_gpu(obs, leases) ==
  [Response("GPU", "NONE") EXCEPT
     !.rows = {[gpu |-> g, index |-> GpuIndex[g],
                logical |-> derive_logical_state(obs[g], g \in DOMAIN leases),
                job |-> IF g \in DOMAIN leases THEN leases[g] ELSE 0] : g \in DOMAIN obs}]

-----------------------------------------------------------------------------
(* Requests about one job: it must exist and be the peer's own.             *)

find_job(uid, jobs, j) ==
  CASE j \notin DOMAIN jobs -> "NOT_FOUND"
    [] j \in DOMAIN jobs /\ ~Owns(uid, jobs[j]) -> "DENIED"
    [] j \in DOMAIN jobs /\ Owns(uid, jobs[j]) -> "NONE"

(* A mutated check of a cancellation that lets anyone cancel any job.       *)
handle_cancel_Anyone(uid, jobs, j) ==
  CASE j \notin DOMAIN jobs -> Response("CANCEL", "NOT_FOUND")
    [] j \in DOMAIN jobs /\ is_terminal(jobs[j].state) ->
         With_state(Response("CANCEL", "INVALID_STATE"), jobs[j].state)
    [] j \in DOMAIN jobs /\ ~is_terminal(jobs[j].state) -> Response("CANCEL", "DELEGATE")

(* CANCEL up to the delegation: a cancelled job is cancelled already, any   *)
(* other terminal state refuses.                                            *)
handle_cancel(uid, jobs, j) ==
  LET found == find_job(uid, jobs, j) IN
  CASE found = "NOT_FOUND" -> Response("CANCEL", found)
    [] found = "DENIED" -> With_state(Response("CANCEL", found), jobs[j].state)
    [] found = "NONE" /\ jobs[j].state = "CANCELLED" ->
         With_state(Response("CANCEL", "NONE"), "CANCELLED")
    [] found = "NONE" /\ jobs[j].state # "CANCELLED" /\ is_terminal(jobs[j].state) ->
         With_state(Response("CANCEL", "INVALID_STATE"), jobs[j].state)
    [] found = "NONE" /\ ~is_terminal(jobs[j].state) -> Response("CANCEL", "DELEGATE")

(* LOGS, and validate_logs_follow, which reads no files; readable: both log *)
(* files could be read.                                                     *)
handle_logs(kind, uid, jobs, j, readable) ==
  LET found == find_job(uid, jobs, j) IN
  CASE found # "NONE" -> Response(kind, found)
    [] found = "NONE" /\ ~has_identity(jobs[j]) -> Response(kind, "INVALID_STATE")
    [] found = "NONE" /\ has_identity(jobs[j]) /\ ~readable -> Response(kind, "NOT_AVAILABLE")
    [] found = "NONE" /\ has_identity(jobs[j]) /\ readable ->
         With_state([Response(kind, "NONE") EXCEPT !.job = j], jobs[j].state)

handle_tensorboard(uid, jobs, j) ==
  LET found == find_job(uid, jobs, j) IN
  IF found # "NONE" THEN Response("TENSORBOARD", found)
  ELSE [Response("TENSORBOARD", "NONE") EXCEPT
          !.rows = {[job |-> j, cwd |-> jobs[j].spec.cwd, logdir |-> jobs[j].spec.logdir]}]

(* INSPECT: the record and its lease from one snapshot, the index of the    *)
(* leased device from a later observation.  Sensitive values are replaced.  *)
handle_inspect(uid, s, j, obs) ==
  LET found == find_job(uid, s.jobs, j)
      spec  == s.jobs[j].spec
      gpus  == leases_of(s.leases, j)
      seen  == IF obs = NoObservation THEN {} ELSE gpus \cap DOMAIN obs
  IN  IF found # "NONE" THEN Response("INSPECT", found)
      ELSE [With_state(Response("INSPECT", "NONE"), s.jobs[j].state) EXCEPT
              !.rows = {[job |-> j, argv |-> spec.argv, cwd |-> spec.cwd,
                         executable |-> spec.executable, source |-> spec.source,
                         env |-> [n \in DOMAIN spec.env |->
                                    IF n \in Sensitive THEN "***" ELSE spec.env[n]],
                         mode |-> spec.mode, devices |-> spec.devices,
                         gpu |-> gpus, index |-> {GpuIndex[g] : g \in seen}]}]

=============================================================================
