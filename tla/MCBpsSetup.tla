----------------------------- MODULE MCBpsSetup -----------------------------
(* Instance of BpsSetup for TLC with the LPC313x values: a 64-byte ep0,    *)
(* full-speed bulk packets of 64 bytes, a dual-speed controller, and       *)
(* wLength values below, at and above the descriptor lengths.             *)
EXTENDS BpsSetup

MCWLengths == {8, 18, 255}
=============================================================================
