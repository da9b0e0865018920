--------------------------- MODULE MCIpcExchange ---------------------------
(***************************************************************************)
(* One client that may make every kind of request, in every version, next   *)
(* to one that cancels a job; the first may be another program, too.  Bytes *)
(* have 14 values, so that eight of them stay within TLC's integers; ids    *)
(* and times take more than one byte.                                       *)
(***************************************************************************)
EXTENDS IpcExchange

CONSTANTS c1, c2

MCClient == {c1, c2}

S(n) == <<n>>
Metadata == [source |-> 2, python_version |-> <<S(3)>>]

Submit(v) ==
    [version |-> v, kind |-> "SUBMIT",
     body |-> [argv |-> <<S(5), <<6, 7>> >>, cwd |-> S(8), env |-> [n \in {S(2), <<1, 3>>} |-> S(9)],
               gpu_request |-> 1, launch_profile |-> <<>>, tensorboard_logdir |-> <<S(4)>>,
               executable |-> IF v < 2 THEN <<>> ELSE <<S(7)>>,
               env_metadata |-> IF v < 2 THEN <<>> ELSE <<Metadata>>,
               gpu_spec |-> IF v < 3 THEN <<>> ELSE <<S(1)>>,
               gpu_preferred_spec |-> IF v < 4 THEN <<>> ELSE <<S(2)>>]]

\* Submissions the encoder refuses: a field the version does not carry, an
\* argument too long or with a NUL, too many arguments, too much in all.
Refused ==
    {[Submit(4) EXCEPT !.version = 2], [Submit(4) EXCEPT !.body.cwd = <<1, 1, 1, 1>>],
     [Submit(4) EXCEPT !.body.cwd = <<0>>],
     [Submit(4) EXCEPT !.body.argv = <<S(1), S(1), S(1), S(1), S(1)>>],
     [Submit(4) EXCEPT !.body.argv = [i \in 1 .. 4 |-> <<1, 1, 1>>],
                       !.body.env = [n \in {<<1, 1, i>> : i \in 1 .. 4} |-> <<1, 1, 1>>]]}

OfJob(kind, v) == [version |-> v, kind |-> kind, body |-> [job_id |-> 200]]

MCRequests(c) ==
    IF c = c2 THEN {OfJob("CANCEL", 4)}
    ELSE {Submit(v) : v \in 1 .. 4} \cup Refused
         \cup {[version |-> v, kind |-> k, body |-> <<>>] :
                  v \in {1, 4}, k \in {"PS", "QUEUE", "GPU"}}
         \cup {OfJob(k, 4) : k \in {"CANCEL", "TENSORBOARD"}}
         \cup {OfJob("INSPECT", v) : v \in 2 .. 4}
         \cup {[version |-> 4, kind |-> "LOGS", body |-> [job_id |-> 200, max_bytes |-> 30]],
               [version |-> 4, kind |-> "LOGS_FOLLOW",
                body |-> [job_id |-> 200, since_stdout |-> <<17>>, since_stderr |-> <<>>]]}

Exited == [exited_normally |-> FALSE, code |-> -9]

Summary(j, masked) ==
    [job_id |-> j, state |-> 4, owner_uid |-> 20, revision |-> 3, masked |-> masked,
     argv |-> IF masked THEN <<>> ELSE <<S(5)>>, cwd |-> IF masked THEN <<>> ELSE S(8),
     tensorboard_logdir |-> <<>>, exit |-> <<Exited>>, wait_reason |-> 0, wait_detail |-> <<>>]

Inspected ==
    [job_id |-> 200, state |-> 2, owner_uid |-> 20, revision |-> 3, cwd |-> S(8),
     executable |-> <<S(7)>>, argv |-> <<S(5)>>, env_metadata |-> <<Metadata>>,
     env |-> <<[name |-> S(2), masked |-> TRUE, value |-> S(10)]>>,
     gpu_uuid |-> <<S(1)>>, gpu_index |-> <<0>>, submit_time_unix_ns |-> 999, exit |-> <<>>,
     log_path |-> <<S(11)>>, gpu_placement_mode |-> 1, gpu_placement_device |-> <<>>,
     gpu_placement_devices |-> <<S(1), S(2)>>]

Bodies(kind) ==
    CASE kind = "SUBMIT" -> {[job_id |-> 201]}
      [] kind = "PS" -> {[jobs |-> <<Summary(200, FALSE), Summary(7, TRUE)>>],
                         [jobs |-> [i \in 1 .. 4 |-> Summary(i, FALSE)]]}
      [] kind = "QUEUE" ->
            {[queue |-> <<[job_id |-> 200, owner_uid |-> 20, submit_time_unix_ns |-> 999,
                           state |-> 0, wait_reason |-> 4, wait_detail |-> <<S(1)>>]>>]}
      [] kind = "GPU" ->
            {[gpu_revision |-> 15,
              devices |-> <<[uuid |-> S(1), index |-> 0, observed_state |-> 1,
                             logical_state |-> 2, utilization |-> <<[percent |-> 100]>>,
                             memory |-> <<[used |-> 40, total |-> 40]>>,
                             leased_by_job |-> <<200>>]>>]}
      [] kind = "CANCEL" -> {[state |-> 7]}
      [] kind = "LOGS" -> {[stdout_truncated |-> TRUE, stdout_tail |-> <<0, 13>>,
                            stderr_truncated |-> FALSE, stderr_tail |-> <<>>]}
      [] kind = "LOGS_FOLLOW" -> {[job_state |-> 2, stdout_offset |-> 17, stderr_offset |-> 0]}
      [] kind = "TENSORBOARD" -> {[logdir |-> <<>>, cwd |-> S(8)]}
      [] kind = "INSPECT" -> {Inspected}

MCAnswer(r) ==
    {[version |-> 4, kind |-> r.kind, error |-> "none", detail |-> <<>>, body |-> b] :
        b \in Bodies(r.kind)}

Frame(kind, body) == [kind |-> kind, body |-> body]
DataFrame == Frame("LOG_DATA", [stream |-> 1, begin_offset |-> 17, end_offset |-> 19,
                                data |-> <<0, 13>>])
GapFrame == Frame("LOG_GAP", [stream |-> 0, begin_offset |-> 3, end_offset |-> 17])

MCStream ==
    {<<GapFrame, DataFrame, Frame("LOG_BACKPRESSURE", [stream |-> 1, begin_offset |-> 19])>>,
     <<DataFrame, Frame("LOG_EOF", [job_state |-> 4, exit |-> <<Exited>>])>>}

\* The header of a version that is not supported yet, and a longer frame.
MCForeignFrame(c) ==
    IF c = c2 THEN {} ELSE {<<2, 0, 0, 0, 5, 1>>, <<0, 0, 13, 0, 4, 1>>, <<1, 0, 0, 0, 4>>}
=============================================================================
