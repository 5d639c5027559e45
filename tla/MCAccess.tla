------------------------------ MODULE MCAccess ------------------------------
(***************************************************************************)
(* An instance of Access for TLC.                                          *)
(***************************************************************************)
EXTENDS Access, TLC

CONSTANTS owner, admin, emp, new, here, there, p1, k1, k2, s1

\* An owner and an administrator at their consoles; an employee of two organisations;
\* and somebody who has no account yet.
Rows == {<<owner, here>>, <<admin, here>>, <<emp, here>>, <<emp, there>>, <<new, here>>}
TwoPeople == {emp, new}
RolesAtStart ==
    [m \in Rows |-> CASE m = <<owner, here>> -> {"OWNER"}
                      [] m = <<admin, here>> -> {"ADMIN"}
                      [] m[1] = emp -> {"EMPLOYEE"}
                      [] OTHER -> {}]
NumbersAtStart ==
    [m \in Rows |-> CASE m = <<owner, here>> -> 1
                      [] m = <<admin, here>> -> 2
                      [] m = <<emp, here>> -> 3
                      [] m = <<emp, there>> -> 1
                      [] OTHER -> 0]
TwoConsoles == {k1, k2}
AllSessions == {k1, k2, s1}
Actors == [s \in TwoConsoles |-> IF s = k1 THEN <<owner, here>> ELSE <<admin, here>>]
OnePhone == {p1}
EditedRoles == {{"EMPLOYEE"}}
OneTypedNumber == {4}
=============================================================================
