----------------------------- MODULE WorkSession -----------------------------
(***************************************************************************)
(* What the attendance core promises to a member and to payroll, with no   *)
(* database, policy, key or clock in sight: a member is off, working, on a *)
(* break, or waiting for a manager's word on one action; at most one       *)
(* clock-in counts on a day; extra work follows a clock-in that counts.    *)
(***************************************************************************)
EXTENDS Integers

CONSTANTS Members, Days

VARIABLES
  phase,   \* what each member is doing
  counted  \* the days on which a clock-in of the member counts

Awaiting == {"awaitsClockIn", "awaitsBreak", "awaitsMore"}
Phases == {"off", "working", "onBreak"} \cup Awaiting

Init ==
  /\ phase = [m \in Members |-> "off"]
  /\ counted = [m \in Members |-> {}]

Enter(m, from, to) ==
  /\ phase[m] \in from
  /\ phase' = [phase EXCEPT ![m] = to]

\* A clock-in counts from the moment it is made, approved or not yet, and is
\* the first and the latest of its day.
ClockIn(m, day) ==
  /\ \A d \in counted[m] : d < day
  /\ \E to \in {"working", "awaitsClockIn"} : Enter(m, {"off"}, to)
  /\ counted' = [counted EXCEPT ![m] = @ \cup {day}]

RejectClockIn(m) ==
  /\ Enter(m, {"awaitsClockIn"}, "off")
  /\ \E day \in counted[m] :
       /\ \A d \in counted[m] : d <= day
       /\ counted' = [counted EXCEPT ![m] = @ \ {day}]

WorkMore(m) ==
  /\ counted[m] # {}
  /\ \E to \in {"working", "awaitsMore"} : Enter(m, {"off"}, to)
  /\ UNCHANGED counted

\* Everything else leaves the days alone.
Carry(m) ==
  /\ \/ Enter(m, {"working"}, "onBreak") \/ Enter(m, {"working"}, "awaitsBreak")
     \/ Enter(m, {"onBreak"}, "working")
     \/ Enter(m, {"working", "onBreak"}, "off")     \* clock-out, or the worker's
     \/ Enter(m, {"awaitsClockIn", "awaitsMore", "awaitsBreak"}, "working")
     \/ Enter(m, {"awaitsBreak"}, "onBreak")
     \/ Enter(m, {"awaitsMore"}, "off")
  /\ UNCHANGED counted

Next == \E m \in Members :
          \/ (\E day \in Days : ClockIn(m, day))
          \/ RejectClockIn(m) \/ WorkMore(m) \/ Carry(m)

Spec == Init /\ [][Next]_<<phase, counted>>
=============================================================================
