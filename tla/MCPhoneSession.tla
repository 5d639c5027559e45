--------------------------- MODULE MCPhoneSession ---------------------------
(* A phone with one sign-in, two organisations and two requests. *)
EXTENDS PhoneSession

CONSTANTS f1, o1, o2, c1, c2

MCOneFamily == {f1}
MCOrgs == {o1, o2}
MCCalls == {c1, c2}
=============================================================================
