---------------------------- MODULE LogStreamer ----------------------------
(***************************************************************************)
(* The live view of one stream of a job (src/runtime/log_streamer.cpp):    *)
(* the window of recent chunks, its trimming, and the replay plan of a     *)
(* subscriber.  A chunk has the half-open range of logical offsets it      *)
(* covers and its size; a drop marker covers nothing and has a size.       *)
(***************************************************************************)
EXTENDS Integers, Sequences, FiniteSetsExt

CONSTANTS
  BacklogBytes,   \* LogStreamerConfig::backlog_bytes_per_stream
  NoSince         \* a follower that gives no offset to resume from

ASSUME StreamerAssumption == BacklogBytes \in Nat /\ NoSince \notin Nat

NewStream == [backlog |-> <<>>, offset |-> 0, seen |-> FALSE]

Bytes(backlog) == MapThenSumSet(LAMBDA i : backlog[i].size, DOMAIN backlog)

From(seq, i) == SubSeq(seq, i, Len(seq))

(* Whole chunks go, oldest first, until the rest fits; the newest stays.    *)
trim_backlog(backlog) ==
  From(backlog, Min({i \in DOMAIN backlog : \/ i = Len(backlog)
                                            \/ Bytes(From(backlog, i)) <= BacklogBytes}))

(* publish_locked refuses a chunk that does not continue the stream.        *)
Continues(state, chunk) == ~state.seen \/ chunk.begin = state.offset

(* publish_locked: the chunk enters the window.                             *)
Published(state, chunk) ==
  [backlog |-> trim_backlog(Append(state.backlog, chunk)), offset |-> chunk.end, seen |-> TRUE]

(* plan_locked: the chunks to replay to a follower that resumes at `since`, *)
(* where they start and how many bytes the window no longer has.            *)
plan_locked(state, since) ==
  IF since = NoSince \/ since >= state.offset
  THEN [start_offset |-> state.offset, gap_bytes |-> 0, chunks |-> <<>>]
  ELSE LET later == {i \in DOMAIN state.backlog : state.backlog[i].end > since}
       IN  IF later = {}
           THEN [start_offset |-> state.offset, gap_bytes |-> state.offset - since,
                 chunks |-> <<>>]
           ELSE LET first == state.backlog[Min(later)]
                    start == Max({since, first.begin})
                IN  [start_offset |-> start, gap_bytes |-> start - since,
                     chunks |-> From(state.backlog, Min(later))]
=============================================================================
