----------------------------- MODULE LogFollow -----------------------------
(***************************************************************************)
(* Following the log of one job, from the process that writes it to the    *)
(* clients that read it: the pipes, the pump worker (src/runtime/          *)
(* log_pump.cpp) that puts what it reads into the sink and publishes what  *)
(* the sink accepted, the streamer's topic with one bounded subscription   *)
(* per follower (log_streamer.cpp), and the follow worker that replays,    *)
(* drains and writes the sessions in turn (log_follow_service.cpp).        *)
(*                                                                         *)
(* The pump, the follow worker, the IPC worker that admits followers and   *)
(* the job manager are threads of their own.  The follow worker's cycle is *)
(* cut where another thread can tell: between sessions, between two        *)
(* receives, and between an empty receive and the look at is_closed.       *)
(***************************************************************************)
EXTENDS LogSink, LogStreamer, SequencesExt

CONSTANTS
  Client,            \* programs that follow the log
  StreamOrder,       \* the streams, in the order the code visits them
  MaxRead,           \* the pump's buffer, kMaxChunkBytes
  QueueCapacity,     \* LogStreamerConfig::subscription_capacity
  MaxPerJob,         \* LogStreamerConfig::max_sessions_per_job
  CommandCapacity,   \* of the admission channel
  ReplayPerCycle,    \* kReplayChunksPerCycle
  DrainPerCycle,     \* LogFollowServiceConfig::max_drain_chunks_per_cycle
  MaxBuffer,         \* max_session_buffer_bytes, in frames
  MaxWrites,         \* bound: units the process writes to each stream
  MaxConnects,       \* bound: connections of all clients
  MaxFaults          \* bound: failed log writes and rotations, and clients that hang up
                     \* or miss a write deadline

Stream == Range(StreamOrder)

ASSUME FollowAssumption ==
  /\ {MaxRead, QueueCapacity, MaxPerJob, CommandCapacity, ReplayPerCycle, DrainPerCycle,
      MaxBuffer} \subseteq Nat \ {0}
  /\ {MaxWrites, MaxConnects, MaxFaults} \subseteq Nat
  /\ Stream \subseteq STRING

VARIABLES
  job,        \* the manager's view: new, launching, up, failed, ended
  sink,       \* per stream: the log file
  pump,       \* the pump: its command, open streams, marker to publish, done event
  entry,      \* the streamer's JobEntry: registered, finished or erased; its streams
  sub,        \* per client: the queue of its subscription
  sessions_,  \* the follow worker's vector of sessions, by client
  session,    \* per client: its Session
  commands,   \* the admission channel
  worker,     \* the follow worker: where it is in its cycle
  conn,       \* per client: the connection as the client sees it; when it is over,
              \* start is where the client would resume
  budget      \* the bounds still available

writer == <<job, sink, pump>>
vars == <<writer, entry, sub, sessions_, session, commands, worker, conn, budget>>

Data(c) == [kind |-> "data", stream |-> c.stream, begin |-> c.begin, end |-> c.end]
Gap(s, plan) == [kind |-> "gap", stream |-> s, begin |-> plan.start_offset - plan.gap_bytes,
                 end |-> plan.start_offset]
Backpressure(c) == [kind |-> "backpressure", stream |-> c.stream, begin |-> c.begin,
                    end |-> c.begin]
Eof == [kind |-> "eof"]
Ack == [kind |-> "ack"]   \* it carries the start offsets

NoSession == [job_finished |-> FALSE, eof_queued |-> FALSE, closing |-> FALSE,
              replay |-> [s \in Stream |-> <<>>], delivered |-> [s \in Stream |-> 0],
              outgoing |-> <<>>]

NoConn == [at |-> "none", start |-> [s \in Stream |-> NoSince], recv |-> <<>>,
           rejected |-> FALSE]

Polling == [at |-> "poll", i |-> 0, end |-> 0, drained |-> 0, stopping |-> FALSE]

Init ==
  /\ job = "new"
  /\ sink = [s \in Stream |-> Opened]
  /\ pump = [attach |-> FALSE, open |-> {}, marker |-> <<>>, done |-> FALSE, stopped |-> FALSE]
  /\ entry = [at |-> "none", streams |-> [s \in Stream |-> NewStream], sessions |-> 0]
  /\ sub = [c \in Client |-> <<>>]
  /\ sessions_ = <<>> /\ session = [c \in Client |-> NoSession]
  /\ commands = <<>>
  /\ worker = Polling
  /\ conn = [c \in Client |-> NoConn]
  /\ budget = [write |-> [s \in Stream |-> MaxWrites], connect |-> MaxConnects,
               fault |-> MaxFaults]

At(here) == worker.at = here

(* Where a client would continue each stream: after the last frame it got,  *)
(* or where the admission said the stream starts.                           *)
Resume(start, recv) ==
  [s \in Stream |->
    LET got == {i \in DOMAIN recv : recv[i].kind \notin {"ack", "eof"} /\ recv[i].stream = s}
    IN  IF got = {} THEN start[s] ELSE recv[Max(got)].end]

(* A connection that is over: the client knows where to resume.             *)
Over(c, recv, at) == [NoConn EXCEPT !.at = at, !.start = Resume(conn[c].start, recv)]

TopicClosed == entry.at \in {"finished", "erased"}

(* Clients whose session or queued admission holds a subscription.          *)
Subscribed == {c \in Client : conn[c].at \in {"open", "hung"}}

(* The topic's RejectNewest subscription: a full one does not take a chunk. *)
Accepts(c) == Len(sub[c]) < QueueCapacity

(* topic.publish to every subscription.                                     *)
PublishToAll(chunk) ==
  /\ sub' = [c \in Client |-> IF c \in Subscribed /\ Accepts(c)
                              THEN Append(sub[c], chunk) ELSE sub[c]]
  /\ conn' = [c \in Client |-> IF c \in Subscribed /\ ~Accepts(c)
                               THEN [conn[c] EXCEPT !.rejected = TRUE] ELSE conn[c]]

NoPublish == UNCHANGED <<entry, sub, conn>>

(* publish_chunk and publish_drop_marker: refused unless the job is         *)
(* registered, unfinished and the chunk continues the stream.               *)
Publish(chunk) ==
  IF entry.at = "registered" /\ Continues(entry.streams[chunk.stream], chunk)
  THEN /\ entry' = [entry EXCEPT !.streams[chunk.stream] = Published(@, chunk)]
       /\ PublishToAll(chunk)
  ELSE NoPublish

-----------------------------------------------------------------------------
(* The job manager and the process.                                         *)

(* launch: the job is registered with the streamer, the process spawned and *)
(* its pipes sent to the pump.                                              *)
Launch ==
  /\ job = "new"
  /\ job' = "launching"
  /\ entry' = [entry EXCEPT !.at = "registered"]
  /\ pump' = [pump EXCEPT !.attach = TRUE]
  /\ UNCHANGED <<sink, sub, sessions_, session, commands, worker, conn, budget>>

(* attach times out while its command waits.  The failed launch unregisters *)
(* the job and kills the process; the command stays in the channel.         *)
AttachTimesOut ==
  /\ job = "launching"
  /\ job' = "failed"
  /\ entry' = [entry EXCEPT !.at = "erased"]
  /\ UNCHANGED <<sink, pump, sub, sessions_, session, commands, worker, conn, budget>>

(* The exit and the pump's done event have both arrived: finish_job         *)
(* publishes the end of the stream and closes the topic.                    *)
FinishJob ==
  /\ job = "up" /\ pump.done
  /\ job' = "ended"
  /\ pump' = [pump EXCEPT !.done = FALSE]
  /\ entry' = [entry EXCEPT !.at = "finished"]
  /\ PublishToAll(Eof)
  /\ UNCHANGED <<sink, sessions_, session, commands, worker, budget>>

-----------------------------------------------------------------------------
(* The pump worker.                                                         *)

PumpRuns == ~pump.stopped /\ pump.marker = <<>>

(* The command is applied, and acknowledged if the manager still waits.     *)
apply_attach ==
  /\ PumpRuns /\ pump.attach
  /\ pump' = [pump EXCEPT !.attach = FALSE, !.open = Stream]
  /\ job' = IF job = "launching" THEN "up" ELSE job
  /\ UNCHANGED <<sink, entry, sub, sessions_, session, commands, worker, conn,
                 budget>>

Marker(s, offset) == [stream |-> s, begin |-> offset, end |-> offset, size |-> MarkerBytes]

(* pump_stream reads some of what the process has written, appends it to    *)
(* the sink and publishes what the sink accepted.                           *)
pump_stream(s, n) ==
  /\ PumpRuns /\ s \in pump.open
  /\ n <= budget.write[s]
  /\ LET begin == sink[s].offset
     IN  \E r \in AppendOutcomes(sink[s], n) :
           /\ r.faults <= budget.fault
           /\ sink' = [sink EXCEPT ![s] = r.st]
           /\ budget' = [budget EXCEPT !.fault = @ - r.faults, !.write[s] = @ - n]
           /\ pump' = [pump EXCEPT !.marker = IF r.dropped > 0
                                              THEN <<Marker(s, begin + r.accepted)>> ELSE <<>>]
           /\ IF r.accepted > 0
              THEN Publish([stream |-> s, begin |-> begin, end |-> begin + r.accepted,
                            size |-> r.accepted])
              ELSE NoPublish
  /\ UNCHANGED <<job, sessions_, session, commands, worker>>

(* pump_stream, after on_chunk: the drop is published as a marker.          *)
on_drop ==
  /\ ~pump.stopped /\ pump.marker # <<>>
  /\ pump' = [pump EXCEPT !.marker = <<>>]
  /\ Publish(pump.marker[1])
  /\ UNCHANGED <<job, sink, sessions_, session, commands, worker, budget>>

(* pump_stream at the end of a stream, which the process closes whenever it *)
(* likes and at its exit; the last one finalizes the entry: the sink is     *)
(* closed and the done event posted.                                        *)
StreamEnds(s) ==
  /\ PumpRuns /\ s \in pump.open
  /\ pump' = [pump EXCEPT !.open = @ \ {s}, !.done = (pump.open = {s})]
  /\ sink' = IF pump.open = {s} THEN [t \in Stream |-> Closed(sink[t])] ELSE sink
  /\ UNCHANGED <<job, entry, sub, sessions_, session, commands, worker, conn, budget>>

(* stop(), after the follow service's: every stream and sink is closed and  *)
(* no done event posted.                                                    *)
PumpStops ==
  /\ ~pump.stopped /\ worker.at = "stopped"
  /\ pump' = [pump EXCEPT !.stopped = TRUE, !.open = {}]
  /\ sink' = [s \in Stream |-> Closed(sink[s])]
  /\ UNCHANGED <<job, entry, sub, sessions_, session, commands, worker, conn, budget>>

-----------------------------------------------------------------------------
(* Clients and their admission on the IPC worker.                           *)

Live == worker.at \notin {"stopped", "crashed"}

(* A client follows from now on, from the beginning, or goes on.            *)
Sinces(c) == {[s \in Stream |-> NoSince], [s \in Stream |-> 0], conn[c].start}

(* subscribe, the initial GAP frames, the hand-over to the follow worker   *)
(* and the kick that wakes it.  A follower beyond the limits, or one the    *)
(* admission channel has no room for, is answered and its slot returned.    *)
begin_stream(c, since) ==
  /\ conn[c].at \in {"none", "ended", "dropped"}
  /\ budget.connect > 0
  /\ Live /\ ~worker.stopping
  /\ entry.at \in {"registered", "finished"}
  /\ budget' = [budget EXCEPT !.connect = @ - 1]
  /\ LET plan == [s \in Stream |-> plan_locked(entry.streams[s], since[s])]
         gapped == SelectSeq(StreamOrder, LAMBDA s : plan[s].gap_bytes > 0)
     IN  IF entry.sessions < MaxPerJob /\ Len(commands) < CommandCapacity
         THEN /\ entry' = [entry EXCEPT !.sessions = @ + 1]
              /\ sub' = [sub EXCEPT ![c] = <<>>]
              /\ session' = [session EXCEPT ![c] =
                   [NoSession EXCEPT !.job_finished = (entry.at = "finished"),
                      !.replay = [s \in Stream |-> plan[s].chunks],
                      !.delivered = [s \in Stream |-> plan[s].start_offset],
                      !.outgoing = <<Ack>> \o
                         [i \in DOMAIN gapped |-> Gap(gapped[i], plan[gapped[i]])]]]
              /\ commands' = Append(commands, c)
              /\ conn' = [conn EXCEPT ![c] =
                   [NoConn EXCEPT !.at = "open",
                                  !.start = [s \in Stream |-> plan[s].start_offset]]]
         ELSE UNCHANGED <<entry, sub, session, commands, conn>>
  /\ UNCHANGED <<writer, sessions_, worker>>

HangUp(c) ==
  /\ conn[c].at = "open"
  /\ budget.fault > 0
  /\ conn' = [conn EXCEPT ![c].at = "hung"]
  /\ budget' = [budget EXCEPT !.fault = @ - 1]
  /\ UNCHANGED <<writer, entry, sub, sessions_, session, commands, worker>>

-----------------------------------------------------------------------------
(* The follow worker's cycle_once.                                          *)

(* A mutated destruction that keeps the slots.                              *)
Destroyed_KeepsSlots(gone, at) ==
  /\ UNCHANGED entry
  /\ sub' = [c \in Client |-> IF c \in gone THEN <<>> ELSE sub[c]]
  /\ session' = [c \in Client |-> IF c \in gone THEN NoSession ELSE session[c]]
  /\ conn' = [c \in Client |-> IF c \in gone THEN Over(c, conn[c].recv, at) ELSE conn[c]]

(* The sessions of a set of clients are destroyed: their descriptors are    *)
(* closed and their slots returned.                                         *)
Destroyed(gone, at) ==
  /\ entry' = [entry EXCEPT !.sessions = @ - Cardinality(gone)]
  /\ sub' = [c \in Client |-> IF c \in gone THEN <<>> ELSE sub[c]]
  /\ session' = [c \in Client |-> IF c \in gone THEN NoSession ELSE session[c]]
  /\ conn' = [c \in Client |-> IF c \in gone THEN Over(c, conn[c].recv, at) ELSE conn[c]]

(* poll returned, by an event or its tick: queued admissions are applied,   *)
(* since each was followed by a kick, and the sessions that have hung up    *)
(* are dropped.                                                             *)
Poll ==
  /\ At("poll") /\ ~worker.stopping
  /\ LET gone == {c \in Range(sessions_) : conn[c].at = "hung"}
     IN  /\ sessions_' = SelectSeq(sessions_, LAMBDA c : c \notin gone) \o commands
         /\ commands' = <<>>
         /\ Destroyed(gone, "dropped")
  /\ worker' = [worker EXCEPT !.at = IF sessions_' = <<>> THEN "poll" ELSE "advance",
                              !.i = IF sessions_' = <<>> THEN 0 ELSE 1]
  /\ UNCHANGED <<writer, budget>>

Current == sessions_[worker.i]

(* The worker goes on to the next session, or to the write-out loop, whose  *)
(* end is fixed where it begins.                                            *)
NextSession(w) ==
  IF w.i < Len(sessions_)
  THEN [w EXCEPT !.at = "advance", !.i = @ + 1, !.drained = 0]
  ELSE [w EXCEPT !.at = "flush", !.i = 1, !.end = Len(sessions_), !.drained = 0]

(* advance_replay: so many chunks of each stream, while the buffer has      *)
(* room.  The delivered offset stays where the plan put it.                 *)
advance_replay(se) ==
  FoldLeft(LAMBDA acc, s :
             LET k == Min({Len(acc.replay[s]), ReplayPerCycle,
                           Max({0, MaxBuffer - Len(acc.outgoing)})})
             IN  [acc EXCEPT
                    !.outgoing = @ \o [i \in 1..k |-> Data(acc.replay[s][i])],
                    !.replay[s] = From(@, k + 1)],
           se, StreamOrder)

all_replay_done(se) == \A s \in Stream : se.replay[s] = <<>>

queue_eof(se) ==
  [se EXCEPT !.eof_queued = TRUE, !.closing = TRUE, !.outgoing = Append(@, Eof)]

(* advance_session up to the live part: a session that was admitted after   *)
(* the job had finished ends with its replay.                               *)
Advance ==
  /\ At("advance")
  /\ LET se == session[Current]
         replayed == advance_replay(se)
     IN  IF se.closing
         THEN worker' = NextSession(worker) /\ UNCHANGED session
         ELSE IF replayed.job_finished /\ all_replay_done(replayed)
         THEN /\ session' = [session EXCEPT ![Current] = queue_eof(replayed)]
              /\ worker' = NextSession(worker)
         ELSE /\ session' = [session EXCEPT ![Current] = replayed]
              /\ worker' = [worker EXCEPT !.at = "live"]
  /\ UNCHANGED <<writer, entry, sub, sessions_, commands, conn, budget>>

MayDrain == /\ worker.drained < DrainPerCycle
            /\ Len(session[Current].outgoing) < MaxBuffer

(* A mutated drain that takes a chunk wherever it begins.                   *)
Drained_AnyOffset(se, chunk) ==
  [se EXCEPT !.outgoing = Append(@, Data(chunk)), !.delivered[chunk.stream] = chunk.end]

(* advance_live on a data chunk: a repeated one is skipped, one beyond the  *)
(* delivered offset ends the session with BACKPRESSURE.                     *)
Drained(se, chunk) ==
  IF chunk.begin < se.delivered[chunk.stream] THEN se
  ELSE IF chunk.begin > se.delivered[chunk.stream]
  THEN [se EXCEPT !.closing = TRUE, !.outgoing = Append(@, Backpressure(chunk))]
  ELSE [se EXCEPT !.outgoing = Append(@, Data(chunk)), !.delivered[chunk.stream] = chunk.end]

(* One turn of advance_live's loop.                                         *)
Receive ==
  /\ At("live")
  /\ IF ~MayDrain
     THEN worker' = NextSession(worker) /\ UNCHANGED <<session, sub>>
     ELSE IF sub[Current] = <<>>
     THEN worker' = [worker EXCEPT !.at = "closed?"] /\ UNCHANGED <<session, sub>>
     ELSE LET chunk == Head(sub[Current])
              se == session[Current]
              next == IF chunk = Eof THEN queue_eof(se) ELSE Drained(se, chunk)
          IN  /\ sub' = [sub EXCEPT ![Current] = Tail(@)]
              /\ session' = [session EXCEPT ![Current] = next]
              /\ worker' = IF next.closing THEN NextSession(worker)
                           ELSE [worker EXCEPT !.drained = @ + 1]
  /\ UNCHANGED <<writer, entry, sessions_, commands, conn, budget>>

(* A mutated end of the drain that only EOF can close the session.          *)
IsClosed_Ignored ==
  /\ At("closed?")
  /\ worker' = NextSession(worker)
  /\ UNCHANGED <<writer, entry, sub, sessions_, session, commands, conn, budget>>

(* The receive found nothing: a closed topic ends the session without EOF.  *)
IsClosed ==
  /\ At("closed?")
  /\ session' = [session EXCEPT ![Current].closing = TopicClosed]
  /\ worker' = NextSession(worker)
  /\ UNCHANGED <<writer, entry, sub, sessions_, commands, conn, budget>>

NextFlush(w) == [w EXCEPT !.i = @ + 1]

InFlush == At("flush") /\ worker.i <= worker.end

(* flush_session: everything pending is written within the deadline.        *)
Flush ==
  /\ InFlush /\ worker.i <= Len(sessions_)
  /\ LET c == Current
     IN  /\ session[c].outgoing = <<>> \/ conn[c].at = "open"
         /\ session' = [session EXCEPT ![c].outgoing = <<>>]
         /\ conn' = [conn EXCEPT ![c].recv = @ \o session[c].outgoing]
  /\ worker' = NextFlush(worker)
  /\ UNCHANGED <<writer, entry, sub, sessions_, commands, budget>>

(* flush_session fails, because the client is gone or misses the deadline   *)
(* after part of the frames: the session is erased from the vector the loop *)
(* is running over.                                                         *)
FlushFails ==
  /\ InFlush /\ worker.i <= Len(sessions_)
  /\ session[Current].outgoing # <<>>
  /\ conn[Current].at = "hung" \/ budget.fault > 0
  /\ budget' = [budget EXCEPT !.fault = IF conn[Current].at = "hung" THEN @ ELSE @ - 1]
  /\ \E k \in 0..(Len(session[Current].outgoing) - 1) :
       /\ conn[Current].at = "hung" => k = 0
       /\ conn' = [conn EXCEPT ![Current] =
                     Over(Current, @.recv \o SubSeq(session[Current].outgoing, 1, k), "dropped")]
  /\ entry' = [entry EXCEPT !.sessions = @ - 1]
  /\ sub' = [sub EXCEPT ![Current] = <<>>]
  /\ session' = [session EXCEPT ![Current] = NoSession]
  /\ sessions_' = RemoveAt(sessions_, worker.i)
  /\ worker' = NextFlush(worker)
  /\ UNCHANGED <<writer, commands>>

(* The loop has passed the end of the shortened vector.  Reading there is   *)
(* undefined: the erased slot holds a null pointer and the daemon dies, or  *)
(* the read does no harm.                                                   *)
FlushBeyond ==
  /\ InFlush /\ worker.i > Len(sessions_)
  /\ \/ /\ worker' = NextFlush(worker)
        /\ UNCHANGED <<entry, sub, session, sessions_, commands, conn>>
     \/ /\ worker' = [worker EXCEPT !.at = "crashed"]
        /\ sessions_' = <<>> /\ commands' = <<>>
        /\ Destroyed(Subscribed, "dropped")
  /\ UNCHANGED <<writer, budget>>

(* collect_finished_sessions: closing sessions with nothing left to write.  *)
Collect ==
  /\ At("flush") /\ worker.i > worker.end
  /\ LET gone == {c \in Range(sessions_) : session[c].closing /\ session[c].outgoing = <<>>}
     IN  /\ sessions_' = SelectSeq(sessions_, LAMBDA c : c \notin gone)
         /\ Destroyed(gone, "ended")
  /\ worker' = [worker EXCEPT !.at = "poll", !.i = 0, !.end = 0]
  /\ UNCHANGED <<writer, commands, budget>>

(* LogFollowService::stop, before the pump's.                               *)
Stop ==
  /\ Live /\ ~worker.stopping
  /\ worker' = [worker EXCEPT !.stopping = TRUE]
  /\ UNCHANGED <<writer, entry, sub, sessions_, session, commands, conn, budget>>

(* shutdown_sessions, once the cycle is over: admitted and queued followers *)
(* are disconnected.                                                        *)
Shutdown ==
  /\ At("poll") /\ worker.stopping
  /\ worker' = [worker EXCEPT !.at = "stopped"]
  /\ sessions_' = <<>> /\ commands' = <<>>
  /\ Destroyed(Subscribed, "dropped")
  /\ UNCHANGED <<writer, budget>>

-----------------------------------------------------------------------------
WorkerStep == \/ Poll \/ Advance \/ Receive \/ IsClosed \/ Flush \/ FlushFails \/ FlushBeyond
              \/ Collect \/ Shutdown

PumpStep == \/ apply_attach \/ on_drop
            \/ \E s \in Stream : StreamEnds(s) \/ \E n \in 1..MaxRead : pump_stream(s, n)

Next ==
  \/ Launch \/ AttachTimesOut \/ FinishJob \/ PumpStops \/ Stop
  \/ PumpStep
  \/ \E c \in Client : \/ \E since \in Sinces(c) : begin_stream(c, since)
                       \/ HangUp(c)
  \/ WorkerStep

Spec == Init /\ [][Next]_vars

(* The executor keeps running the follow worker, which blocks on nothing    *)
(* for ever: its poll has a 100 ms tick and every write a deadline.         *)
FairSpec == Spec /\ WF_vars(WorkerStep)

-----------------------------------------------------------------------------
(* publish_locked never refuses what the pump publishes: as long as the job *)
(* is registered, the streamer's offset is the sink's logical offset, over  *)
(* rotations, failed writes and dropped bytes.                              *)
OffsetsAgree ==
  entry.at = "registered" => \A s \in Stream : entry.streams[s].offset = sink[s].offset

(* A slot of max_sessions_per_job is taken for every connected follower and *)
(* for no other: refused, finished, dropped and unflushed sessions all      *)
(* return theirs.                                                           *)
SlotsReturned ==
  Live => /\ entry.sessions = Cardinality(Subscribed)
          /\ entry.sessions = Len(sessions_) + Len(commands)

(* The frames of a connection, written or pending.                          *)
Frames(c, s) ==
  SelectSeq(conn[c].recv \o session[c].outgoing,
            LAMBDA f : f.kind \in {"data", "gap"} /\ f.stream = s)

(* What a follower is sent of a stream has no hole and no repetition: it    *)
(* starts in the chunk that holds the announced offset, and every frame     *)
(* begins where the one before it ended, within the gap and the replay and  *)
(* within the live chunks of a follower that had nothing to replay.  One    *)
(* that was replayed something never gets a live chunk at all, as           *)
(* BackpressureOnlyWhenSlow tells.                                          *)
FramesFollowOn ==
  \A c \in Client, s \in Stream :
    LET f == Frames(c, s)
    IN  /\ f # <<>> => IF f[1].kind = "gap" THEN f[1].end = conn[c].start[s]
                       ELSE \/ f[1].begin = conn[c].start[s]
                            \/ f[1].begin < conn[c].start[s] /\ conn[c].start[s] < f[1].end
        /\ \A i \in 1..(Len(f) - 1) : f[i + 1].begin = f[i].end

Reached(c, s) == LET f == Frames(c, s)
                 IN  IF f = <<>> THEN conn[c].start[s] ELSE f[Len(f)].end

(* An EOF frame says that the client has everything: a chunk its            *)
(* subscription rejected is noticed at the EOF at the latest, and a replay  *)
(* is finished first.  advance_live queues the EOF it receives without a    *)
(* look at the offsets or at the replay.                                    *)
EofDetectsLoss ==
  \A c \in Client :
    Eof \in Range(session[c].outgoing)
      => \A s \in Stream : Reached(c, s) = entry.streams[s].offset

(* A follower is cut off with BACKPRESSURE only for being slow, that is     *)
(* after its subscription rejected a chunk.  advance_replay leaves the      *)
(* delivered offset at the start of the replay, so the first live chunk     *)
(* after any replay looks like one beyond a hole.                           *)
BackpressureOnlyWhenSlow ==
  \A c \in Client :
    (\E f \in Range(session[c].outgoing) : f.kind = "backpressure") => conn[c].rejected

(* Every follower is let go: once the job's topic is closed, or the service *)
(* stops, the connection ends.                                              *)
FollowerEnds(c) ==
  (TopicClosed \/ worker.stopping) /\ conn[c].at = "open" ~> conn[c].at # "open"

=============================================================================
