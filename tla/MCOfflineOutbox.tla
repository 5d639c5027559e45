---------------------------- MODULE MCOfflineOutbox ----------------------------
(* OfflineOutbox on a small instance: two memberships share the phone. *)
EXTENDS OfflineOutbox
=============================================================================
