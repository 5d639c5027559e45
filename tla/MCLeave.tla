------------------------------ MODULE MCLeave ------------------------------
(***************************************************************************)
(* The last work day of a year and the first of the next: a range lies in  *)
(* one year or in two, so two handlers can lock both balances in opposite  *)
(* orders.  Entitlements of one and of two days leave room for one of two  *)
(* requests on a day, or for both.                                         *)
(***************************************************************************)
EXTENDS Leave, TLC

MCYearOf == [d \in Days |-> d]
=============================================================================
