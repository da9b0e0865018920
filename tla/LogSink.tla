------------------------------ MODULE LogSink ------------------------------
(***************************************************************************)
(* One stream of a job's log file (src/observe/log_sink.cpp): appending,   *)
(* rotating at the size limit, and dropping what cannot be written.  Bytes *)
(* are counted in units; a drop marker takes one unit of the file and none *)
(* of the logical offset.                                                  *)
(***************************************************************************)
EXTENDS Integers

CONSTANTS
  MaxFileBytes,   \* LogSinkConfig::max_file_bytes
  MarkerBytes     \* the size of a drop marker

ASSUME SinkAssumption == MaxFileBytes \in Nat \ {0} /\ MarkerBytes \in Nat

(* open_stream on a new file.                                               *)
Opened == [open |-> TRUE, file_bytes |-> 0, offset |-> 0, pending_drop |-> 0]

(* close: the descriptor goes, the counters stay.                           *)
Closed(st) == [st EXCEPT !.open = FALSE]

(* The marker of an earlier drop is written first; when that fails it stays *)
(* pending.                                                                 *)
MarkerOutcomes(st) ==
  IF st.pending_drop = 0
  THEN {[st |-> st, faults |-> 0]}
  ELSE {[st |-> [st EXCEPT !.file_bytes = @ + MarkerBytes, !.pending_drop = 0], faults |-> 0],
        [st |-> st, faults |-> 1]}

FileIsFull(bytes) == bytes >= MaxFileBytes

(* The size of the current file once `accepted` more bytes are in, each     *)
(* full file having been rotated away by the write that found it full.      *)
FileAfter(bytes, accepted) ==
  LET base == IF FileIsFull(bytes) THEN 0 ELSE bytes
  IN  IF accepted = 0 THEN bytes ELSE ((base + accepted - 1) % MaxFileBytes) + 1

(* A mutated rotation that leaves the stream at the offset open_stream read *)
(* from the new, empty file.                                                *)
Written_RotationResetsOffset(st, accepted) ==
  LET after == FileAfter(st.file_bytes, accepted)
  IN  [st EXCEPT !.file_bytes = after,
                 !.offset = IF st.file_bytes + accepted > MaxFileBytes THEN after
                            ELSE @ + accepted]

(* The stream after the loop accepted so many bytes: rotations keep the     *)
(* logical offset.                                                          *)
Written(st, accepted) ==
  [st EXCEPT !.file_bytes = FileAfter(@, accepted), !.offset = @ + accepted]

(* What is left of n bytes is dropped and marked as pending.                *)
Dropping(st, n, accepted) == [st EXCEPT !.pending_drop = @ + (n - accepted)]

(* The loop asks for one write per file: it can only fail where a write     *)
(* begins.                                                                  *)
WriteBegins(st, accepted) == accepted = 0 \/ FileIsFull(FileAfter(st.file_bytes, accepted))

(* The write at that point fails, after the rotation it was preceded by.    *)
WriteFailed(st, accepted) ==
  LET after == Written(st, accepted)
  IN  [after EXCEPT !.file_bytes = IF FileIsFull(@) THEN 0 ELSE @]

(* The rotation at that point fails: the stream stays closed.               *)
RotateFailed(st, accepted) == [Written(st, accepted) EXCEPT !.open = FALSE]

(* append: what a call with n bytes may do, with the bytes it accepts, the  *)
(* bytes it reports as dropped and the number of failures it met.  A closed *)
(* stream takes nothing and reports no drop.                                *)
AppendOutcomes(st, n) ==
  IF ~st.open
  THEN {[st |-> st, accepted |-> 0, dropped |-> 0, faults |-> 0]}
  ELSE UNION {
    {[st |-> Written(m.st, n), accepted |-> n, dropped |-> 0, faults |-> m.faults]}
    \cup {[st |-> Dropping(WriteFailed(m.st, k), n, k), accepted |-> k, dropped |-> n - k,
           faults |-> m.faults + 1] : k \in {i \in 0..(n - 1) : WriteBegins(m.st, i)}}
    \cup {[st |-> Dropping(RotateFailed(m.st, k), n, k), accepted |-> k, dropped |-> n - k,
           faults |-> m.faults + 1] :
             k \in {i \in 0..(n - 1) : FileIsFull(FileAfter(m.st.file_bytes, i))}}
    : m \in MarkerOutcomes(st)}
=============================================================================
