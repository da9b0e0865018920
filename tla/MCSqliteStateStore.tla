------------------------- MODULE MCSqliteStateStore -------------------------
(* Two jobs, two GPUs and two callers over the SQLite backend, with the     *)
(* edits the daemon makes, a lease that moves between GPUs and two records  *)
(* the core must refuse.                                                    *)
EXTENDS SqliteStateStore, TLC

CONSTANTS g1, g2, c1, c2, i1, x1

MCJobId == 1 .. 2
MCGpuUuid == {g1, g2}
MCTwoClients == {c1, c2}
MCJobSpec == {[submit_time |-> 1]}
MCIdentity == {i1}
MCExitStatus == {x1}

Plain(s) ==
  [state |-> s, bump |-> 1, identity |-> NoIdentity, start_time |-> NoTime,
   end_time |-> NoTime, exit |-> NoExit]

Nothing == [create |-> <<>>, update |-> <<>>, release |-> {}, acquire |-> <<>>]

Single(x, y) == [z \in {x} |-> y]

Start(j, g) == [Nothing EXCEPT !.update = Single(j, Plain("STARTING")), !.acquire = Single(g, j)]

(* The ends the callers write, with and without the lease they give back:   *)
(* an exit, a failure and a cancellation, which may all come late.          *)
Ends ==
  {[Plain("FINISHED") EXCEPT !.exit = x1, !.end_time = 1],
   [Plain("FAILED") EXCEPT !.end_time = 1], Plain("CANCELLED")}

MCEdit ==
  {[Nothing EXCEPT !.create = Single(j, s)] : j \in MCJobId, s \in MCJobSpec}
  \cup {Start(j, g) : j \in MCJobId, g \in MCGpuUuid}
  \cup {[Nothing EXCEPT !.update =
            Single(j, [Plain("RUNNING") EXCEPT !.identity = i1, !.start_time = 1])] :
          j \in MCJobId}
  \cup {[Nothing EXCEPT !.update = Single(j, end), !.release = R] :
          j \in MCJobId, end \in Ends, R \in {{}} \cup {{g} : g \in MCGpuUuid}}
  \cup {[Nothing EXCEPT !.update = (1 :> Plain("LOST")) @@ (2 :> Plain("LOST")),
                        !.release = MCGpuUuid]}
  \cup {[Nothing EXCEPT !.release = {g1}, !.acquire = Single(g2, k)] : k \in MCJobId}
  \cup {[Start(1, g1) EXCEPT !.update = Single(1, [Plain("STARTING") EXCEPT !.bump = 0])]}
=============================================================================
