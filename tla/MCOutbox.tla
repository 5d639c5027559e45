------------------------------ MODULE MCOutbox ------------------------------
(* Instances of NotificationOutbox for TLC. *)
EXTENDS NotificationOutbox, TLC

CONSTANTS r1, r2, m1, m2

\* A notification for each of two members.
oneEach == r1 :> m1 @@ r2 :> m2
=============================================================================
