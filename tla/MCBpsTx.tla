------------------------------ MODULE MCBpsTx ------------------------------
(* Instance of BpsTx for TLC: the two channels as model values, buffers of *)
(* two bytes (error report: one byte), writes of up to three bytes, so a   *)
(* write is split into a full chunk and a short one.                       *)
EXTENDS BpsTx

MCInCap == 2
MCErrCap == 1
MCMaxWrite == 3
=============================================================================
