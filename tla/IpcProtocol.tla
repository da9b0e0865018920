---------------------------- MODULE IpcProtocol ----------------------------
(***************************************************************************)
(* The message layouts of ipc_protocol.cpp, written once from the encoder   *)
(* and once from the decoder, and the payload functions around them.        *)
(*                                                                         *)
(* A request is [version, kind, body], a response has an error and a detail *)
(* too, a stream frame is [kind, body].  Fields a version does not carry    *)
(* keep the default of the message structs (Missing).                       *)
(***************************************************************************)
EXTENDS Wire

CONSTANTS MaxPayload,     \* kMaxPayloadBytes
          MaxItems,       \* kMaxItemCount
          MaxListItems,   \* kMaxListItems
          MaxStreamData   \* kMaxStreamDataBytes

ProtocolVersion == 4
StreamFrameVersion == 1
Supported(version) == version \in 1 .. ProtocolVersion

Kinds == <<"SUBMIT", "PS", "QUEUE", "GPU", "CANCEL", "LOGS", "LOGS_FOLLOW", "TENSORBOARD",
           "INSPECT">>
StreamKinds == <<"LOG_DATA", "LOG_GAP", "LOG_BACKPRESSURE", "LOG_EOF">>

Errors == <<"none", "protocol", "unsupported", "denied", "invalid_spec", "queue_rejected",
            "store_failed", "not_found", "invalid_state", "not_available", "limit", "internal">>

Code(names, name) == CHOOSE i \in DOMAIN names : names[i] = name

JobStateMax == 7
ObservedMax == 2
LogicalMax == 3
WaitReasonMax == 4
PlacementMax == 2
SourceMax == 2
StreamMax == 1

Since(version, v, layout) == IF version >= v THEN layout ELSE <<>>

-----------------------------------------------------------------------------
(* Requests.                                                                *)

EncMetadata == Rec(<<AtMost("source", SourceMax), Field("source", U8),
                     Field("python_version", Opt(Str))>>)
DecMetadata == Rec(<<Field("source", U8), AtMost("source", SourceMax),
                     Field("python_version", Opt(Str))>>)

\* The gpu preference of version 4 written before the placement of version 3.
EncSubmit_PreferredFirst(v) ==
    <<Field("argv", List(U32, MaxItems, Str)), Field("cwd", Str), Field("env", Map(MaxItems)),
      Field("gpu_request", U32), Field("launch_profile", Opt(Str)),
      Field("tensorboard_logdir", Opt(Str))>>
    \o Since(v, 2, <<Field("executable", Opt(Str)), Field("env_metadata", Opt(EncMetadata))>>)
    \o Since(v, 4, <<Field("gpu_preferred_spec", Opt(Str))>>)
    \o Since(v, 3, <<Field("gpu_spec", Opt(Str))>>)

EncSubmit(v) ==
    <<Field("argv", List(U32, MaxItems, Str)), Field("cwd", Str), Field("env", Map(MaxItems)),
      Field("gpu_request", U32), Field("launch_profile", Opt(Str)),
      Field("tensorboard_logdir", Opt(Str))>>
    \o Since(v, 2, <<Field("executable", Opt(Str)), Field("env_metadata", Opt(EncMetadata))>>)
    \o Since(v, 3, <<Field("gpu_spec", Opt(Str))>>)
    \o Since(v, 4, <<Field("gpu_preferred_spec", Opt(Str))>>)

DecSubmit(v) ==
    <<Field("argv", List(U32, MaxItems, Str)), Field("cwd", Str), Field("env", Map(MaxItems)),
      Field("gpu_request", U32), Field("launch_profile", Opt(Str)),
      Field("tensorboard_logdir", Opt(Str))>>
    \o Since(v, 2, <<Field("executable", Opt(Str)), Field("env_metadata", Opt(DecMetadata))>>)
    \o Since(v, 3, <<Field("gpu_spec", Opt(Str))>>)
    \o Since(v, 4, <<Field("gpu_preferred_spec", Opt(Str))>>)

\* Fields a submission of version v does not carry.
Missing(kind, v) ==
    IF kind # "SUBMIT" THEN {}
    ELSE (IF v < 2 THEN {"executable", "env_metadata"} ELSE {})
         \cup (IF v < 3 THEN {"gpu_spec"} ELSE {})
         \cup (IF v < 4 THEN {"gpu_preferred_spec"} ELSE {})

\* The gates on versions: an older frame may not leave a given field out.
Sendable(request) ==
    \A n \in Missing(request.kind, request.version) : request.body[n] = <<>>

JobOnly == <<Field("job_id", U64)>>

EncRequest(kind, v) ==
    CASE kind = "SUBMIT" -> EncSubmit(v)
      [] kind \in {"PS", "QUEUE", "GPU"} -> <<>>
      [] kind = "LOGS" -> JobOnly \o <<Field("max_bytes", U32)>>
      [] kind = "LOGS_FOLLOW" ->
            JobOnly \o <<Field("since_stdout", Opt(U64)), Field("since_stderr", Opt(U64))>>
      [] kind \in {"CANCEL", "TENSORBOARD", "INSPECT"} -> JobOnly

DecRequest(kind, v) ==
    CASE kind = "SUBMIT" -> DecSubmit(v)
      [] kind \in {"PS", "QUEUE", "GPU"} -> <<>>
      [] kind = "LOGS" -> JobOnly \o <<Field("max_bytes", U32)>>
      [] kind = "LOGS_FOLLOW" ->
            JobOnly \o <<Field("since_stdout", Opt(U64)), Field("since_stderr", Opt(U64))>>
      [] kind \in {"CANCEL", "TENSORBOARD", "INSPECT"} -> JobOnly

-----------------------------------------------------------------------------
(* Responses.                                                               *)

Exit == Opt(Rec(<<Field("exited_normally", Flag), Field("code", I32)>>))

EncWait(v) == Since(v, 3, <<AtMost("wait_reason", WaitReasonMax), Field("wait_reason", U8),
                            Field("wait_detail", Opt(Str))>>)
DecWait(v) == Since(v, 3, <<Field("wait_reason", U8), AtMost("wait_reason", WaitReasonMax),
                            Field("wait_detail", Opt(Str))>>)

EncSummary(v) ==
    <<Field("job_id", U64), Field("state", U8), Field("owner_uid", U32), Field("revision", U64),
      Field("masked", Flag), Unless("masked", "argv", List(U32, MaxItems, Str), <<>>),
      Unless("masked", "cwd", Str, <<>>), Unless("masked", "tensorboard_logdir", Opt(Str), <<>>),
      Field("exit", Exit)>> \o EncWait(v)

DecSummary(v) ==
    <<Field("job_id", U64), Field("state", U8), Field("owner_uid", U32), Field("revision", U64),
      AtMost("state", JobStateMax), Field("masked", Flag),
      Unless("masked", "argv", List(U32, MaxItems, Str), <<>>),
      Unless("masked", "cwd", Str, <<>>), Unless("masked", "tensorboard_logdir", Opt(Str), <<>>),
      Field("exit", Exit)>> \o DecWait(v)

EncQueueEntry(v) ==
    <<Field("job_id", U64), Field("owner_uid", U32), Field("submit_time_unix_ns", U64),
      Field("state", U8)>> \o EncWait(v)

DecQueueEntry(v) ==
    <<Field("job_id", U64), Field("owner_uid", U32), Field("submit_time_unix_ns", U64),
      Field("state", U8), AtMost("state", JobStateMax)>> \o DecWait(v)

\* Both memory figures, or neither.
EncDevice ==
    <<Field("uuid", Str), Field("index", U32), Field("observed_state", U8),
      Field("logical_state", U8),
      Field("utilization", Opt(Rec(<<Field("percent", U32)>>))),
      Field("memory", Opt(Rec(<<Field("used", U64), Field("total", U64)>>))),
      Field("leased_by_job", Opt(U64))>>

DecDevice ==
    <<Field("uuid", Str), Field("index", U32), Field("observed_state", U8),
      Field("logical_state", U8), AtMost("observed_state", ObservedMax),
      AtMost("logical_state", LogicalMax),
      Field("utilization", Opt(Rec(<<Field("percent", U32), AtMost("percent", 100)>>))),
      Field("memory", Opt(Rec(<<Field("used", U64), Field("total", U64),
                                NotBelow("total", "used")>>))),
      Field("leased_by_job", Opt(U64))>>

EncLogs == <<Field("stdout_truncated", Flag), Field("stdout_tail", Bytes),
             Field("stderr_truncated", Flag), Field("stderr_tail", Bytes)>>

DecLogs == <<Field("stdout_truncated", Flag), Field("stdout_tail", Bytes),
             Field("stderr_truncated", Flag), Field("stderr_tail", Bytes)>>

EncInspect(v) ==
    <<Field("job_id", U64), Field("state", U8), Field("owner_uid", U32), Field("revision", U64),
      Field("cwd", Str), Field("executable", Opt(Str)), Field("argv", List(U32, MaxItems, Str)),
      Field("env_metadata", Opt(EncMetadata)),
      Field("env", List(U32, MaxListItems, Rec(<<Field("name", Str), Field("masked", Flag),
                                                 Field("value", Str)>>))),
      Field("gpu_uuid", Opt(Str)), Field("gpu_index", Opt(U32)),
      Field("submit_time_unix_ns", U64), Field("exit", Exit), Field("log_path", Opt(Str))>>
    \o Since(v, 3, <<AtMost("gpu_placement_mode", PlacementMax), Field("gpu_placement_mode", U8),
                     Field("gpu_placement_device", Opt(Str))>>)
    \o Since(v, 4, <<Field("gpu_placement_devices", List(U8, MaxItems, Str))>>)

DecInspect(v) ==
    <<Field("job_id", U64), Field("state", U8), Field("owner_uid", U32), Field("revision", U64),
      AtMost("state", JobStateMax),
      Field("cwd", Str), Field("executable", Opt(Str)), Field("argv", List(U32, MaxItems, Str)),
      Field("env_metadata", Opt(DecMetadata)),
      Field("env", List(U32, MaxListItems, Rec(<<Field("name", Str), Field("masked", Flag),
                                                 Field("value", Str)>>))),
      Field("gpu_uuid", Opt(Str)), Field("gpu_index", Opt(U32)),
      Field("submit_time_unix_ns", U64), Field("exit", Exit), Field("log_path", Opt(Str))>>
    \o Since(v, 3, <<Field("gpu_placement_mode", U8), AtMost("gpu_placement_mode", PlacementMax),
                     Field("gpu_placement_device", Opt(Str))>>)
    \o Since(v, 4, <<Field("gpu_placement_devices", List(U8, Radix, Str))>>)

EncResponse(kind, v) ==
    CASE kind = "SUBMIT" -> JobOnly
      [] kind = "PS" -> <<Field("jobs", List(U32, MaxListItems, Rec(EncSummary(v))))>>
      [] kind = "QUEUE" -> <<Field("queue", List(U32, MaxListItems, Rec(EncQueueEntry(v))))>>
      [] kind = "GPU" -> <<Field("gpu_revision", U64),
                           Field("devices", List(U32, MaxListItems, Rec(EncDevice)))>>
      [] kind = "CANCEL" -> <<Field("state", U8)>>
      [] kind = "LOGS" -> EncLogs
      [] kind = "LOGS_FOLLOW" -> <<Field("job_state", U8), Field("stdout_offset", U64),
                                   Field("stderr_offset", U64)>>
      [] kind = "TENSORBOARD" -> <<Field("logdir", Opt(Str)), Field("cwd", Str)>>
      [] kind = "INSPECT" -> EncInspect(v)

DecResponse(kind, v) ==
    CASE kind = "SUBMIT" -> JobOnly
      [] kind = "PS" -> <<Field("jobs", List(U32, MaxListItems, Rec(DecSummary(v))))>>
      [] kind = "QUEUE" -> <<Field("queue", List(U32, MaxListItems, Rec(DecQueueEntry(v))))>>
      [] kind = "GPU" -> <<Field("gpu_revision", U64),
                           Field("devices", List(U32, MaxListItems, Rec(DecDevice)))>>
      [] kind = "CANCEL" -> <<Field("state", U8), AtMost("state", JobStateMax)>>
      [] kind = "LOGS" -> DecLogs
      [] kind = "LOGS_FOLLOW" -> <<Field("job_state", U8), Field("stdout_offset", U64),
                                   Field("stderr_offset", U64),
                                   AtMost("job_state", JobStateMax)>>
      [] kind = "TENSORBOARD" -> <<Field("logdir", Opt(Str)), Field("cwd", Str)>>
      [] kind = "INSPECT" -> DecInspect(v)

-----------------------------------------------------------------------------
(* Stream frames.                                                           *)

Range64 == <<Field("begin_offset", U64), Field("end_offset", U64)>>

EncStream(kind) ==
    CASE kind = "LOG_DATA" ->
            <<AtMost("stream", StreamMax), DataAtMost("data", MaxStreamData),
              NotBelow("end_offset", "begin_offset"), Field("stream", U8)>>
            \o Range64 \o <<Field("data", Bytes)>>
      [] kind = "LOG_GAP" ->
            <<AtMost("stream", StreamMax), NotBelow("end_offset", "begin_offset"),
              Field("stream", U8)>> \o Range64
      [] kind = "LOG_BACKPRESSURE" ->
            <<AtMost("stream", StreamMax), Field("stream", U8), Field("begin_offset", U64)>>
      [] kind = "LOG_EOF" ->
            <<AtMost("job_state", JobStateMax), Field("job_state", U8), Field("exit", Exit)>>

DecStream(kind) ==
    CASE kind = "LOG_DATA" ->
            <<Field("stream", U8)>> \o Range64
            \o <<AtMost("stream", StreamMax), NotBelow("end_offset", "begin_offset"),
                 Field("data", Bytes), DataAtMost("data", MaxStreamData)>>
      [] kind = "LOG_GAP" ->
            <<Field("stream", U8)>> \o Range64
            \o <<AtMost("stream", StreamMax), NotBelow("end_offset", "begin_offset")>>
      [] kind = "LOG_BACKPRESSURE" ->
            <<Field("stream", U8), Field("begin_offset", U64), AtMost("stream", StreamMax)>>
      [] kind = "LOG_EOF" ->
            <<Field("job_state", U8), AtMost("job_state", JobStateMax), Field("exit", Exit)>>

-----------------------------------------------------------------------------
(* Payloads.  Nothing is sent of a message that does not fit.               *)

NoPayload == [ok |-> FALSE, out |-> <<>>]

Fitting(payload) == IF payload.ok /\ Len(payload.out) <= MaxPayload THEN payload ELSE NoPayload

encode_request_payload(request) ==
    IF Supported(request.version) /\ Sendable(request)
    THEN Fitting(Both(Good(<<request.version, Code(Kinds, request.kind)>>),
                      PutAll(EncRequest(request.kind, request.version), request.body)))
    ELSE NoPayload

encode_response_payload(response) ==
    IF Supported(response.version) /\ ~(response.kind = "INSPECT" /\ response.version < 2)
    THEN Fitting(Both(Both(Good(<<response.version, Code(Kinds, response.kind),
                                  Code(Errors, response.error) - 1>>),
                           Put(Str, response.detail)),
                      PutAll(EncResponse(response.kind, response.version), response.body)))
    ELSE NoPayload

encode_stream_frame_payload(frame) ==
    Fitting(Both(Good(<<StreamFrameVersion, Code(StreamKinds, frame.kind)>>),
                 PutAll(EncStream(frame.kind), frame.body)))

\* What the header of a request or a response says is wrong with it.
BadHeader(in) ==
    IF Len(in) > MaxPayload THEN "oversize"
    ELSE IF Len(in) < 2 THEN "truncated"
    ELSE IF ~Supported(in[1]) THEN "bad version"
    ELSE IF in[2] \notin DOMAIN Kinds \/ (Kinds[in[2]] = "INSPECT" /\ in[1] < 2) THEN "bad kind"
    ELSE "none"

\* A body is accepted when nothing is left of the payload, whatever it says
\* before.
Whole_AllowsRest(body) == body

Whole(body) ==
    Then(body, LAMBDA fields, rest :
             IF rest # <<>> THEN Refuse("trailing bytes") ELSE Took(fields, rest))

decode_request_payload(in) ==
    IF BadHeader(in) # "none" THEN Refuse(BadHeader(in))
    ELSE LET kind == Kinds[in[2]]
         IN  Then(Whole(TakeAll(DecRequest(kind, in[1]), <<>>, Drop(in, 2))), LAMBDA body, rest :
                  Took([version |-> in[1], kind |-> kind,
                        body |-> [n \in DOMAIN body \cup Missing(kind, in[1]) |->
                                     IF n \in DOMAIN body THEN body[n] ELSE <<>>]], rest))

ErrorCode(in) ==
    Then(Take(U8, in), LAMBDA code, rest :
             IF code + 1 \in DOMAIN Errors THEN Took(Errors[code + 1], rest)
             ELSE Refuse("invalid value"))

decode_response_payload(in) ==
    IF BadHeader(in) # "none" THEN Refuse(BadHeader(in))
    ELSE LET kind == Kinds[in[2]]
         IN  Then(ErrorCode(Drop(in, 2)), LAMBDA error, rest :
             Then(Take(Str, rest), LAMBDA detail, left :
             Then(Whole(TakeAll(DecResponse(kind, in[1]), <<>>, left)), LAMBDA body, end :
                  Took([version |-> in[1], kind |-> kind, error |-> error, detail |-> detail,
                        body |-> body], end))))

decode_stream_frame_payload(in) ==
    IF Len(in) > MaxPayload THEN Refuse("oversize")
    ELSE IF Len(in) < 2 THEN Refuse("truncated")
    ELSE IF in[1] # StreamFrameVersion THEN Refuse("bad version")
    ELSE IF in[2] \notin DOMAIN StreamKinds THEN Refuse("bad kind")
    ELSE LET kind == StreamKinds[in[2]]
         IN  Then(Whole(TakeAll(DecStream(kind), <<>>, Drop(in, 2))), LAMBDA body, rest :
                  Took([kind |-> kind, body |-> body], rest))
=============================================================================
