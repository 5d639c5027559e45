---------------------------- MODULE MCAttendance ----------------------------
(***************************************************************************)
(* Small instances of Attendance.  A day is three ticks long; an ordinary  *)
(* shift and an event lie on the first day, so the second day starts with  *)
(* rows left over from the first and with unscheduled clock-ins.           *)
(***************************************************************************)
EXTENDS Attendance, TLC

CONSTANTS ordinary, occasion

MCShiftStart == [s \in Shifts |-> IF s = ordinary THEN 1 ELSE 2]
MCShiftEnd == [s \in Shifts |-> IF s = ordinary THEN 2 ELSE 3]
MCEventShifts == {occasion} \cap Shifts
MCAssigned == [m \in Members |-> Shifts]

\* Every decision is left to a manager, and the worker closes the shift one tick
\* after its end.
Reviewed ==
  [auto |-> TRUE, earlyIn |-> 0, lateIn |-> 0, earlyOut |-> 0, lateOut |-> 1,
   prevents |-> {}, approves |-> {"CLOCK_IN", "WORK_MORE", "START_BREAK"},
   breakFrom |-> 0, breakTo |-> 1, qr |-> FALSE]

\* Nothing needs a manager; every time window is enforced.
Strict ==
  [auto |-> FALSE, earlyIn |-> 1, lateIn |-> 1, earlyOut |-> 0, lateOut |-> 2,
   prevents |-> Restrictions, approves |-> {}, breakFrom |-> 0, breakTo |-> 1,
   qr |-> FALSE]

\* Clock actions need a code.
Coded == [Reviewed EXCEPT !.qr = TRUE, !.approves = {"WORK_MORE"}]
OnlyReviewed == {Reviewed}
OnlyStrict == {Strict}
OnlyCoded == {Coded}
OnlyPlain == {[Reviewed EXCEPT !.approves = {}]}
NoInputs == {}

AnyKey == Permutations(Keys)
=============================================================================
