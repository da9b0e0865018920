---------------------------- MODULE MCLogFollow ----------------------------
(* Two followers of a job with one output stream.                           *)
EXTENDS LogFollow

CONSTANTS c1, c2

MCClient == {c1, c2}
MCStreamOrder == <<"stdout">>

(* FollowerEnds for one client; the clients are interchangeable.            *)
FollowersEnd == FollowerEnds(c1)
=============================================================================
