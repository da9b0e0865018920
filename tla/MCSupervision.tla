--------------------------- MODULE MCSupervision ---------------------------
(***************************************************************************)
(* Model checking Supervision: one recovered process and two children, and *)
(* channels that hold one element, so that a delivery does block and a     *)
(* registration does time out.                                             *)
(***************************************************************************)
EXTENDS Supervision

CONSTANTS a, c1, c2

MCProc    == {a, c1, c2}
MCAdopted == {a}

(* The exits of the recovered process and of a child are handled, and a     *)
(* cancelled child ends, despite the full channels: c1 stands for c2 too,   *)
(* which the specification treats alike.                                    *)
ExitsHandled == ExitHandled(a) /\ ExitHandled(c1)

(* The cancellation of a child ends with its recorded exit once the grace   *)
(* timer of GraceEscalation is armed.                                       *)
CancelledEnds == CancelEnds(c1)

=============================================================================
