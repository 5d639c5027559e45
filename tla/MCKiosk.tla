-------------------------------- MODULE MCKiosk --------------------------------
(* One kiosk, two employees: ana, and budi, whose clock-in waits for an approval. *)
EXTENDS Kiosk

CONSTANTS ana, budi, p1
=============================================================================
