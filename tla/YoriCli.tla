------------------------------ MODULE YoriCli ------------------------------
(***************************************************************************)
(* The command line client (apps/yori/main.cpp): which request a command   *)
(* line stands for, and what a run of `yori` reports about the response.   *)
(*                                                                         *)
(* A command line is a sequence of strings.  The texts the program takes   *)
(* apart are given by functions on the strings they are defined for; any   *)
(* other string is a list of itself and no K=V.                            *)
(***************************************************************************)
EXTENDS Launch

LOCAL INSTANCE SequencesExt

CONSTANTS
  Listed,     \* comma-separated lists to their entries
  KeyValue    \* settings to pairs of a name and a value

(* The exit codes.                                                          *)
kExitOk == 0
kExitRequestFailed == 1
kExitUsage == 2
kExitTransport == 3
kExitBackpressure == 4

(* Where a flag with a value stands; the search goes on past a "--".        *)
Places(args, name) == {i \in 1 .. Len(args) - 1 : args[i] = name}

RECURSIVE take_flag(_, _, _)

(* while (take_flag(...)): all values of a flag, and the line without them. *)
take_flag(args, name, values) ==
  IF Places(args, name) = {} THEN [values |-> values, rest |-> args]
  ELSE LET i == CHOOSE k \in Places(args, name) : \A l \in Places(args, name) : k <= l
       IN  take_flag(SubSeq(args, 1, i - 1) \o SubSeq(args, i + 2, Len(args)), name,
                     Append(values, args[i + 1]))

(* The flags in the order in which they are taken from the line.            *)
TakeFlags(args, names) ==
  FoldLeft(LAMBDA got, name :
             LET taken == take_flag(got.rest, name, <<>>)
             IN  [value |-> With(got.value, name :> taken.values), rest |-> taken.rest],
           [value |-> <<>>, rest |-> args], names)

take_bool_flag(args, name) == [taken |-> Contains(args, name), rest |-> RemoveFirst(args, name)]

Final(values, default) == IF values = <<>> THEN default ELSE Last(values)

Entries(text) == IF text \in DOMAIN Listed THEN Listed[text] ELSE <<text>>

IsNumber(text) == text \in DOMAIN Number

Usage == [code |-> kExitUsage, request |-> [kind |-> "NONE"]]
Help == [code |-> kExitOk, request |-> [kind |-> "NONE"]]
Calls(request) == [code |-> kExitOk, request |-> request]

-----------------------------------------------------------------------------

SubmitFlags ==
  <<"--gpus", "--gpu", "--gpu-any-of", "--gpu-preferred", "--tensorboard-logdir", "--cwd",
    "--capture-env">>

(* command_submit: the flags, the GPUs asked for, the captured environment  *)
(* and the resolved program.  Every failed check is a usage error.          *)
command_submit(args, source, cwd) ==
  LET line     == TakeFlags(args, SubmitFlags)
      flag     == line.value
      inherit  == take_bool_flag(line.rest, "--inherit-env")
      env      == take_flag(inherit.rest, "--env", <<>>)
      settings == {i \in DOMAIN env.values : env.values[i] \in DOMAIN KeyValue}
      explicit == FoldLeft(LAMBDA e, text : With(e, KeyValue[text][1] :> KeyValue[text][2]),
                           <<>>, env.values)
      required == (IF flag["--gpu"] = <<>> THEN <<>> ELSE Entries(Last(flag["--gpu"])))
                    \o FlattenSeq([i \in DOMAIN flag["--gpu-any-of"] |->
                                     Entries(flag["--gpu-any-of"][i])])
      preferred == flag["--gpu-preferred"]
      captured == capture_environment(source, [inherit_all |-> inherit.taken,
                                               extra |-> ToSet(flag["--capture-env"])])
      final    == With(captured.env, explicit)
      where    == IF Final(flag["--cwd"], "") = "" THEN cwd ELSE Last(flag["--cwd"])
      argv     == Tail(env.rest)
      program  == resolve_executable(Head(argv), where, final)
  IN  IF /\ \A i \in DOMAIN flag["--gpus"] : IsNumber(flag["--gpus"][i])
         /\ flag["--gpus"] # <<>> => Number[Last(flag["--gpus"])] = 1
         /\ required = <<>> \/ preferred = <<>>
         /\ required # <<>> \/ preferred # <<>> => flag["--gpus"] = <<>>
         /\ Len(required) <= MaxDevices
         /\ "" \notin ToSet(required) \cup (IF preferred = <<>> THEN {} ELSE {Last(preferred)})
         /\ settings = DOMAIN env.values
         /\ Len(env.rest) > 1 /\ Head(env.rest) = "--"
         /\ \A name \in DOMAIN explicit : ~is_reserved_environment_key(name)
         /\ captured.ok
         /\ program # NoPath
      THEN Calls([kind |-> "SUBMIT", argv |-> argv, cwd |-> where, env |-> final,
                  executable |-> program, source |-> detect_environment_source(final),
                  gpu_spec |-> required, gpu_preferred |-> Final(preferred, ""),
                  logdir |-> Final(flag["--tensorboard-logdir"], ""),
                  gpu_request |-> 1, launch_profile |-> ""])
      ELSE Usage

(* A request about one job, which the line names by its number.             *)
AboutJob(kind, text) ==
  IF IsNumber(text) /\ Number[text] # 0 THEN Calls([kind |-> kind, job |-> Number[text]])
                                        ELSE Usage

(* command_logs: -f is only recognised in front of the job id, and whatever *)
(* follows the job id is ignored.                                           *)
command_logs(args) ==
  LET line   == TakeFlags(args, <<"--bytes", "--since-offset", "--since-stdout",
                                  "--since-stderr">>)
      Valid(name) == \A i \in DOMAIN line.value[name] : IsNumber(line.value[name][i])
      follow == line.rest # <<>> /\ Head(line.rest) \in {"-f", "--follow"}
      rest   == IF follow THEN Tail(line.rest) ELSE line.rest
      Since(name) == Final(line.value[name], Final(line.value["--since-offset"], ""))
  IN  IF /\ \A name \in DOMAIN line.value : Valid(name)
         /\ \A i \in DOMAIN line.value["--bytes"] : Number[line.value["--bytes"][i]] # 0
         /\ rest # <<>> /\ IsNumber(Head(rest)) /\ Number[Head(rest)] # 0
      THEN IF follow
           THEN Calls([kind |-> "LOGS_FOLLOW", job |-> Number[Head(rest)],
                       since |-> <<Since("--since-stdout"), Since("--since-stderr")>>])
           ELSE Calls([kind |-> "LOGS", job |-> Number[Head(rest)]])
      ELSE Usage

command_tensorboard(args) ==
  LET line == TakeFlags(args, <<"--logdir", "--port", "--host">>)
  IN  IF /\ \A i \in DOMAIN line.value["--port"] : IsNumber(line.value["--port"][i])
         /\ Final(line.value["--host"], "127.0.0.1") # ""
         /\ Len(line.rest) = 1
      THEN AboutJob("TENSORBOARD", Head(line.rest)) ELSE Usage

(* main: the request of a command line, or the usage error.                 *)
Command(line, source, cwd) ==
  LET args == Tail(line) IN
  CASE line = <<>> -> Usage
    [] line # <<>> /\ Head(line) \in {"help", "--help", "-h"} -> Help
    [] line # <<>> /\ Head(line) = "submit" -> command_submit(args, source, cwd)
    [] line # <<>> /\ Head(line) = "logs" -> command_logs(args)
    [] line # <<>> /\ Head(line) = "tensorboard" -> command_tensorboard(args)
    [] line # <<>> /\ Head(line) \in {"ps", "queue", "gpu"} ->
         IF args # <<>> THEN Usage
         ELSE Calls([kind |-> CASE Head(line) = "ps" -> "PS"
                                [] Head(line) = "queue" -> "QUEUE"
                                [] Head(line) = "gpu" -> "GPU"])
    [] line # <<>> /\ Head(line) \in {"cancel", "inspect"} ->
         IF Len(args) # 1 THEN Usage
         ELSE AboutJob(IF Head(line) = "cancel" THEN "CANCEL" ELSE "INSPECT", Head(args))
    [] OTHER -> Usage

-----------------------------------------------------------------------------
(* call_daemon and what the commands do with its result: the exit code and  *)
(* whether the payload of the response is shown.                            *)

call_daemon(response) ==
  IF response.error = "NONE" THEN kExitOk ELSE kExitRequestFailed

Report(response) ==
  LET status    == call_daemon(response)
      cancelled == /\ response.kind = "CANCEL"
                   /\ response.error = "INVALID_STATE"
                   /\ response.state = "CANCELLED"
  IN  [code |-> IF cancelled THEN kExitOk ELSE status, shown |-> status = kExitOk]

=============================================================================
