------------------------------ MODULE JobBoard ------------------------------
(***************************************************************************)
(* What the daemon promises about its jobs and GPUs, without the daemon:   *)
(* no queue, no threads, no processes, no crashes and no partial failures. *)
(* A job waits, runs on one GPU that is its own, may be stopped, and ends  *)
(* once; its GPU is free again in the very step in which it ends.          *)
(***************************************************************************)
EXTENDS FiniteSets

CONSTANTS Job, Gpu

VARIABLES
  board,    \* the jobs there are, and how each of them stands
  holder    \* the GPUs in use, and the job each of them is used by

boardVars == <<board, holder>>

Waiting == "waiting"
Running == "running"
Stopping == "stopping"
Outcome == {"FINISHED", "FAILED", "CANCELLED", "LOST"}

(* f with x mapped to v.                                                    *)
Put(f, x, v) == [y \in DOMAIN f \cup {x} |-> IF y = x THEN v ELSE f[y]]

Move(j, from, to) ==
  /\ j \in DOMAIN board /\ board[j] = from
  /\ board' = Put(board, j, to)

Init == board = [j \in {} |-> Waiting] /\ holder = [g \in {} |-> Waiting]

(* A job is accepted, or refused and remembered as cancelled.               *)
Submit(j) ==
  /\ j \notin DOMAIN board
  /\ \E as \in {Waiting, "CANCELLED"} : board' = Put(board, j, as)
  /\ UNCHANGED holder

Start(j, g) ==
  /\ Move(j, Waiting, Running)
  /\ g \notin DOMAIN holder
  /\ holder' = Put(holder, g, j)

(* A cancelled job that waits is over; one that runs is being stopped.      *)
Withdraw(j) == Move(j, Waiting, "CANCELLED") /\ UNCHANGED holder
Stop(j) == Move(j, Running, Stopping) /\ UNCHANGED holder

(* Jobs end, several at once when a new daemon finds them gone: one that is *)
(* being stopped ends as cancelled or lost, never as if nothing had been.   *)
End(S, outcome) ==
  /\ S # {} /\ S \subseteq {j \in DOMAIN board : board[j] \in {Running, Stopping}}
  /\ \A j \in S : outcome[j] \in IF board[j] = Stopping THEN {"CANCELLED", "LOST"}
                                                        ELSE {"FINISHED", "FAILED", "LOST"}
  /\ board' = [j \in DOMAIN board |-> IF j \in S THEN outcome[j] ELSE board[j]]
  /\ holder' = [g \in {h \in DOMAIN holder : holder[h] \notin S} |-> holder[g]]

Next ==
  \/ \E j \in Job : Submit(j) \/ Withdraw(j) \/ Stop(j)
  \/ \E j \in Job, g \in Gpu : Start(j, g)
  \/ \E S \in SUBSET Job : \E outcome \in [S -> Outcome] : End(S, outcome)

Spec == Init /\ [][Next]_boardVars

=============================================================================
