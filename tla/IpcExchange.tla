---------------------------- MODULE IpcExchange ----------------------------
(***************************************************************************)
(* One call of UdsIpcClient per client against the single worker of         *)
(* UdsIpcServer: connect, a request frame, a response frame, and for logs   *)
(* -f the frames that follow it (uds_client.cpp, uds_io.cpp,                *)
(* ipc_server.cpp).  The bytes are those of IpcProtocol.                    *)
(*                                                                         *)
(* The socket delivers what was written in order and in pieces.  What the   *)
(* handler answers, and which frames the follow service streams, is chosen  *)
(* from Answer and Stream: their meaning is the subject of IpcService and   *)
(* LogFollow.                                                               *)
(***************************************************************************)
EXTENDS IpcProtocol, FiniteSets

CONSTANTS Client,
          Requests(_),    \* what a client may ask
          Answer(_),      \* the handler's possible responses to a request
          Stream,         \* the frame sequences the follow service may send
          ForeignFrame(_), \* frames of clients built with other limits or versions
          Backlog         \* connections the listening socket holds (16)

VARIABLES call,     \* the client's side of its connection
          down,     \* bytes the daemon wrote to the client and it has not read
          backlog,  \* connections not yet accepted, oldest first
          server,   \* what the worker does, with which client
          asked,    \* the requests the handler was called with, per client
          told,     \* the responses it returned
          streamed  \* the frames the follow service put on the connection

vars == <<call, down, backlog, server, asked, told, streamed>>

\* request: <<>> before the call, <<r>> for a call of this library, <<>>
\* again with a foreign frame.  sent: bytes of `frame` the daemon can read.
Idle == [at |-> "idle", request |-> <<>>, frame |-> <<>>, sent |-> 0, peer |-> FALSE,
         result |-> "none", response |-> <<>>, frames |-> <<>>]

Init == /\ call = [c \in Client |-> Idle]
        /\ down = [c \in Client |-> <<>>]
        /\ backlog = <<>>
        /\ server = [at |-> "accept", client |-> <<>>, out |-> <<>>]
        /\ asked = [c \in Client |-> <<>>]
        /\ told = [c \in Client |-> <<>>]
        /\ streamed = [c \in Client |-> [left |-> <<>>, sent |-> <<>>]]

-----------------------------------------------------------------------------
(* Frames: a length of four bytes, then the payload.                        *)

Framed(payload) == Digits(Len(payload), 4) \o payload

\* What read_frame makes of the bytes that are there: a payload, a refused
\* length, or "more" while bytes are missing.
read_frame(in) ==
    LET length == Value(SubSeq(in, 1, 4))
    IN  IF Len(in) < 4 THEN Refuse("more")
        ELSE IF length < 2 THEN Refuse("bad length")
        ELSE IF length > MaxPayload THEN Refuse("oversize")
        ELSE IF Len(in) < 4 + length THEN Refuse("more")
        ELSE Took(SubSeq(in, 5, 4 + length), Drop(in, 4 + length))

\* A whole frame and what Decode makes of its payload.
Message(in, Decode(_)) ==
    Then(read_frame(in), LAMBDA payload, rest :
             Then(Decode(payload), LAMBDA message, end : Took(message, rest)))

\* Where a frame may be cut in transit: within the length, before the last
\* byte, at the end.
Cuts(frame) == {2, Len(frame) - 1, Len(frame)}

-----------------------------------------------------------------------------
(* The client.                                                              *)

Return(c, result) == call' = [call EXCEPT ![c].at = "done", ![c].result = result]

Connected(c, request, frame) ==
    call' = [call EXCEPT ![c] = [Idle EXCEPT !.at = "send", !.request = request,
                                             !.frame = frame, !.peer = TRUE]]

\* UdsIpcClient::call and follow up to the connection.
Call(c) ==
    /\ call[c].at = "idle"
    /\ \E r \in Requests(c) :
         LET payload == encode_request_payload(r)
         IN  \/ /\ ~payload.ok
                /\ call' = [call EXCEPT ![c] = [Idle EXCEPT !.at = "done", !.request = <<r>>,
                                                            !.result = "protocol"]]
                /\ UNCHANGED backlog
             \/ /\ payload.ok
                /\ server.at # "stopped" /\ Len(backlog) < Backlog
                /\ Connected(c, <<r>>, Framed(payload.out))
                /\ backlog' = Append(backlog, c)
             \/ /\ payload.ok
                /\ \E result \in {"connect_failed", "permission_denied"} :
                     /\ result = "connect_failed" =>
                            server.at = "stopped" \/ Len(backlog) = Backlog
                     /\ call' = [call EXCEPT ![c] = [Idle EXCEPT !.at = "done",
                                                        !.request = <<r>>, !.result = result]]
                /\ UNCHANGED backlog
    /\ UNCHANGED <<down, server, asked, told, streamed>>

\* A program that is not this client.
ForeignCall(c) ==
    /\ call[c].at = "idle" /\ server.at # "stopped" /\ Len(backlog) < Backlog
    /\ \E frame \in ForeignFrame(c) : Connected(c, <<>>, frame)
    /\ backlog' = Append(backlog, c)
    /\ UNCHANGED <<down, server, asked, told, streamed>>

\* write_frame, piece by piece; a daemon that closed already is an I/O error.
Send(c) ==
    /\ call[c].at = "send"
    /\ \/ /\ call[c].peer
          /\ \E n \in Cuts(call[c].frame) :
               /\ n > call[c].sent
               /\ call' = [call EXCEPT ![c].sent = n,
                              ![c].at = IF n = Len(call[c].frame) THEN "wait" ELSE "send"]
       \/ ~call[c].peer /\ Return(c, "protocol")
    /\ UNCHANGED <<down, backlog, server, asked, told, streamed>>

\* The stream ended before a whole frame, or what came is no message.
Unreadable(c, got) ==
    /\ got.err # "none"
    /\ got.err = "more" => ~call[c].peer
    /\ Return(c, IF got.err = "more" THEN "closed" ELSE "protocol")
    /\ UNCHANGED down

\* The response frame: the end of a call, and of a follow that was refused.
Receive(c) ==
    LET got == Message(down[c], decode_response_payload)
    IN  /\ call[c].at = "wait"
        /\ \/ Unreadable(c, got)
           \/ /\ got.err = "none"
              /\ LET following == /\ call[c].request # <<>>
                                  /\ call[c].request[1].kind = "LOGS_FOLLOW"
                                  /\ got.val.error = "none"
                 IN  call' = [call EXCEPT ![c].at = IF following THEN "follow" ELSE "done",
                                          ![c].result = IF following THEN "none" ELSE "ok",
                                          ![c].response = <<got.val>>]
              /\ down' = [down EXCEPT ![c] = got.rest]
        /\ UNCHANGED <<backlog, server, asked, told, streamed>>

Terminal == {"LOG_EOF", "LOG_BACKPRESSURE"}

\* The frame loop of follow: it ends with a terminal frame.
ReceiveFrame_AnyEnd(c) ==
    LET got == Message(down[c], decode_stream_frame_payload)
    IN  /\ call[c].at = "follow"
        /\ \/ got.err = "more" /\ ~call[c].peer /\ Return(c, "ok") /\ UNCHANGED down
           \/ /\ got.err = "none"
              /\ call' = [call EXCEPT ![c].frames = Append(@, got.val)]
              /\ down' = [down EXCEPT ![c] = got.rest]
        /\ UNCHANGED <<backlog, server, asked, told, streamed>>

ReceiveFrame(c) ==
    LET got == Message(down[c], decode_stream_frame_payload)
    IN  /\ call[c].at = "follow"
        /\ \/ Unreadable(c, got)
           \/ /\ got.err = "none"
              /\ LET last == got.val.kind \in Terminal
                 IN  call' = [call EXCEPT ![c].frames = Append(@, got.val),
                                          ![c].at = IF last THEN "done" ELSE "follow",
                                          ![c].result = IF last THEN "ok" ELSE "none"]
              /\ down' = [down EXCEPT ![c] = got.rest]
        /\ UNCHANGED <<backlog, server, asked, told, streamed>>

\* The call's deadline passes, or the user stops a follow, which has none.
GiveUp(c) ==
    /\ call[c].at \in {"send", "wait", "follow"}
    /\ Return(c, IF call[c].at = "follow" THEN "interrupted" ELSE "timeout")
    /\ UNCHANGED <<down, backlog, server, asked, told, streamed>>

-----------------------------------------------------------------------------
(* The server worker.                                                       *)

Current == server.client[1]
ToAccept == server' = [at |-> "accept", client |-> <<>>, out |-> <<>>]
CloseOn(c) == call' = [call EXCEPT ![c].peer = FALSE]

\* accept_once; without the peer's credentials the connection is closed.
accept_once ==
    /\ server.at = "accept" /\ backlog # <<>>
    /\ backlog' = Tail(backlog)
    /\ \/ server' = [server EXCEPT !.at = "read", !.client = <<Head(backlog)>>] /\ UNCHANGED call
       \/ CloseOn(Head(backlog)) /\ UNCHANGED server
    /\ UNCHANGED <<down, asked, told, streamed>>

Incoming == SubSeq(call[Current].frame, 1, call[Current].sent)

\* Without a whole frame at the deadline, or with the client gone, nobody is
\* answered.
DropUnread ==
    /\ server.at = "read" /\ read_frame(Incoming).err = "more"
    /\ CloseOn(Current) /\ ToAccept
    /\ UNCHANGED <<down, backlog, asked, told, streamed>>

\* The bytes write_response_and_close sends for a response: what does not
\* fit becomes an INTERNAL response of the server's own version.
Default(kind) ==
    CASE kind = "SUBMIT" -> [job_id |-> 0]
      [] kind = "PS" -> [jobs |-> <<>>]
      [] kind = "QUEUE" -> [queue |-> <<>>]
      [] kind = "GPU" -> [gpu_revision |-> 0, devices |-> <<>>]
      [] kind = "CANCEL" -> [state |-> 0]
      [] kind = "LOGS" -> [stdout_truncated |-> FALSE, stdout_tail |-> <<>>,
                           stderr_truncated |-> FALSE, stderr_tail |-> <<>>]
      [] kind = "LOGS_FOLLOW" -> [job_state |-> 0, stdout_offset |-> 0, stderr_offset |-> 0]
      [] kind = "TENSORBOARD" -> [logdir |-> <<>>, cwd |-> <<>>]
      [] kind = "INSPECT" ->
            [job_id |-> 0, state |-> 0, owner_uid |-> 0, revision |-> 0, cwd |-> <<>>,
             executable |-> <<>>, argv |-> <<>>, env_metadata |-> <<>>, env |-> <<>>,
             gpu_uuid |-> <<>>, gpu_index |-> <<>>, submit_time_unix_ns |-> 0, exit |-> <<>>,
             log_path |-> <<>>, gpu_placement_mode |-> 0, gpu_placement_device |-> <<>>,
             gpu_placement_devices |-> <<>>]

error_response(kind, error) ==
    [version |-> ProtocolVersion, kind |-> kind, error |-> error, detail |-> <<1>>,
     body |-> Default(kind)]

Outgoing(response) ==
    LET payload == encode_response_payload(response)
    IN  Framed(IF payload.ok THEN payload.out
               ELSE encode_response_payload(error_response(response.kind, "internal")).out)

Respond(response) == server' = [server EXCEPT !.at = "write", !.out = Outgoing(response)]

\* A frame the server cannot take is answered with a PROTOCOL error.
Reject ==
    /\ server.at = "read"
    /\ Message(Incoming, decode_request_payload).err \notin {"none", "more"}
    /\ Respond(error_response("SUBMIT", "protocol"))
    /\ UNCHANGED <<call, down, backlog, asked, told, streamed>>

\* flush_session: the follow service writes all the bytes of a frame, or a
\* part of them when the client does not take them in time or is gone, and
\* then it closes the connection.
Flush(c, bytes, after, last) ==
    \E n \in Cuts(bytes) \cup {0} :
        /\ down' = [down EXCEPT ![c] = @ \o SubSeq(bytes, 1, n)]
        /\ streamed' = IF n = Len(bytes) THEN [streamed EXCEPT ![c] = after] ELSE streamed
        /\ IF n < Len(bytes) \/ last THEN CloseOn(c) ELSE UNCHANGED call

\* The handler runs; an exception of it is an INTERNAL response.  The
\* response gets the version of the request.
Handle ==
    LET decoded == Message(Incoming, decode_request_payload)
    IN  /\ server.at = "read" /\ decoded.err = "none"
        /\ asked' = [asked EXCEPT ![Current] = Append(@, decoded.val)]
        /\ \E answer \in Answer(decoded.val)
                         \cup {error_response(decoded.val.kind, "internal")} :
             LET response == [answer EXCEPT !.version = decoded.val.version]
             IN  /\ told' = [told EXCEPT ![Current] = Append(@, response)]
                 /\ \/ /\ ~(decoded.val.kind = "LOGS_FOLLOW" /\ response.error = "none")
                       /\ Respond(response)
                       /\ UNCHANGED <<call, down, streamed>>
                    \/ /\ decoded.val.kind = "LOGS_FOLLOW" /\ response.error = "none"
                       /\ ToAccept
                       /\ \E frames \in Stream :
                            Flush(Current, Outgoing(response),
                                  [left |-> frames, sent |-> <<>>], FALSE)
        /\ UNCHANGED backlog

\* write_response_and_close: all of it, or a part when the client does not
\* take it before the deadline or is gone.
Write ==
    /\ server.at = "write"
    /\ \E n \in Cuts(server.out) :
         down' = [down EXCEPT ![Current] = SubSeq(server.out, 1, n)]
    /\ CloseOn(Current) /\ ToAccept
    /\ UNCHANGED <<backlog, asked, told, streamed>>

\* The follow service puts the next frame on the connection it took over,
\* and closes it after the last one, after a part of a frame, or when it stops.
StreamFrame(c) ==
    /\ streamed[c].left # <<>> /\ call[c].peer
    /\ LET frame == Head(streamed[c].left)
           left  == Tail(streamed[c].left)
       IN  Flush(c, Framed(encode_stream_frame_payload(frame).out),
                 [left |-> left, sent |-> Append(streamed[c].sent, frame)], left = <<>>)
    /\ UNCHANGED <<backlog, server, asked, told>>

\* UdsIpcServer::stop joins the worker and closes the listening socket, and
\* with it every connection nobody accepted.
Stop ==
    /\ server.at = "accept"
    /\ server' = [at |-> "stopped", client |-> <<>>, out |-> <<>>]
    /\ backlog' = <<>>
    /\ call' = [c \in Client |-> [call[c] EXCEPT !.peer = @ /\ c \notin ToSet(backlog)]]
    /\ UNCHANGED <<down, asked, told, streamed>>

-----------------------------------------------------------------------------

ClientStep(c) ==
    Call(c) \/ ForeignCall(c) \/ Send(c) \/ Receive(c) \/ ReceiveFrame(c) \/ GiveUp(c)

ServerStep == accept_once \/ DropUnread \/ Reject \/ Handle \/ Write

Next == (\E c \in Client : ClientStep(c) \/ StreamFrame(c)) \/ ServerStep \/ Stop

Spec == Init /\ [][Next]_vars

-----------------------------------------------------------------------------
(* Properties.                                                              *)

\* The handler is called at most once per call, and with exactly the request
\* the client made: what encode_request_body wrote, in whatever pieces it
\* arrived, decode_request_body reads back, whatever its version.
RequestIntact ==
    \A c \in Client :
        asked[c] # <<>> /\ call[c].request # <<>> => asked[c] = call[c].request

\* The fields a decoded body has are those of the body that was encoded.
Carries(decoded, body) ==
    \A n \in DOMAIN decoded :
        IF n \in {"jobs", "queue", "devices"}
        THEN /\ Len(decoded[n]) = Len(body[n])
             /\ \A i \in DOMAIN decoded[n] :
                    \A k \in DOMAIN decoded[n][i] : decoded[n][i][k] = body[n][i][k]
        ELSE decoded[n] = body[n]

\* A response the client returns is the one the handler gave to its request
\* (of the request's kind and version, every field of that version as it
\* was), or says that the server could not take the request, or could not
\* send the response: these two are of the server's own version, where the
\* design has every response repeat the version of its request.
AnswerIntact ==
    \A c \in Client :
        call[c].response # <<>> =>
            LET got == call[c].response[1]
            IN  \/ /\ got.error = "protocol" /\ asked[c] = <<>>
                   /\ got.version = ProtocolVersion
                \/ /\ got.error = "internal" /\ got.kind = told[c][1].kind
                   /\ got.version = ProtocolVersion
                   /\ ~encode_response_payload(told[c][1]).ok
                \/ /\ got.kind = asked[c][1].kind /\ got.version = asked[c][1].version
                   /\ got.error = told[c][1].error /\ got.detail = told[c][1].detail
                   /\ Carries(got.body, told[c][1].body)

\* A request and its response pass through the transport unchanged.
MessagesIntact == RequestIntact /\ AnswerIntact

\* The client's follow was granted.
Following(c) ==
    /\ call[c].request # <<>> /\ call[c].request[1].kind = "LOGS_FOLLOW"
    /\ call[c].response # <<>> /\ call[c].response[1].error = "none"

\* What a follow printed is a beginning of what the daemon streamed, in
\* order, and it reports success only after a terminal frame: no cut of a
\* frame or of the connection passes for a frame or for the end of the log.
StreamIntact ==
    \A c \in Client :
        /\ IsPrefix(call[c].frames, streamed[c].sent)
        /\ call[c].result = "ok" /\ Following(c) =>
               call[c].frames # <<>> /\ Last(call[c].frames).kind \in Terminal

\* Only the whole payload of a request decodes: not a beginning of it, and
\* not with a byte more (the decoder's exhausted check).
OnlyWhole ==
    \A c \in Client :
        call[c].at = "send" /\ call[c].sent = 0 /\ call[c].request # <<>> =>
            LET payload == Drop(call[c].frame, 4)
            IN  /\ \A n \in 0 .. Len(payload) - 1 :
                       decode_request_payload(SubSeq(payload, 1, n)).err # "none"
                /\ \A b \in {0, 1} :
                       decode_request_payload(Append(payload, b)).err # "none"

=============================================================================
