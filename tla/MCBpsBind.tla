------------------------------ MODULE MCBpsBind ------------------------------
(* BpsBind with int and long 16 bits wide, so that TLC's integers hold     *)
(* 2^IntBits; the sign wrap at the top bit is the same at 32 bits.  The    *)
(* sku values: every SKU of the range, a neighbour outside each end,      *)
(* and -1.                                                                 *)
EXTENDS BpsBind

MCSkuValues == {-1, 770, 771, 772, 773, 774, 775}
=============================================================================
