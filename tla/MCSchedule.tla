----------------------------- MODULE MCSchedule -----------------------------
(***************************************************************************)
(* Instances of Schedule for TLC.                                          *)
(***************************************************************************)
EXTENDS Schedule, TLC

CONSTANTS a, b, c, e, ana, budi, early, late

\* Three shifts at one time: one published, which Budi asks for and from which
\* Ana was removed, a draft that she is in, and one to be created; and an event to
\* be created in another period, at the end of the night shift a.
FourShifts == {a, b, c, e}
TwoMembers == {ana, budi}
TwoPeriods == {early, late}
OneEvent == {e}
OneOpen == {a}
OnePublished == {a}
OneDraft == {b}
OneAssigned == {<<b, ana>>}
OneRemoved == {<<a, ana>>}
OneWish == {<<a, budi>>}
OverlappingPairs ==
    {{s} : s \in FourShifts} \cup {{a, b}, {a, c}, {b, c}, {a, e}}
PeriodsOfShifts ==
    [s \in FourShifts |-> CASE s = e -> {late} [] s = a -> {early, late} [] OTHER -> {early}]
=============================================================================
