------------------------------- MODULE MCDesk -------------------------------
(***************************************************************************)
(* Instances of Desk for TLC.                                              *)
(***************************************************************************)
EXTENDS Desk, TLC

CONSTANTS r1, r2

TwoRequests == {r1, r2}
OneFiled == {r1}

\* Two requests of one queue, whose forms share a box; and one that the
\* employee may withdraw beside one that is rejected without a form.
TwoKindings ==
    {[r \in TwoRequests |-> "attendance"],
     [r \in TwoRequests |-> IF r = r1 THEN "claim" ELSE "shift"]}
=============================================================================
