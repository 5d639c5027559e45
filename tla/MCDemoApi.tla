----------------------------- MODULE MCDemoApi -----------------------------
(* The demo with two calls at a time, two employees and two codes. *)
EXTENDS DemoApi, TLC

CONSTANTS c1, c2, e1, e2

MCSlots == {c1, c2}
MCEmployees == {e1, e2}
MCCodes == {"A", "B"}
Symmetry == Permutations(MCSlots) \cup Permutations(MCEmployees)
=============================================================================
