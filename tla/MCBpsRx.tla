------------------------------ MODULE MCBpsRx ------------------------------
(* Model-checking instance of BpsRx: two channels, transfers of up to two  *)
(* bytes (enough for a read to take part of a transfer and leave the rest) *)
(* in the runs with suspend, and of up to four bytes in the data run.      *)
EXTENDS BpsRx, TLC

CONSTANTS c1, c2

MCChannels == {c1, c2}
MCMaxPacket == 2
MCOwedBound == 2 * MCMaxPacket

\* The larger instance for the data runs: a transfer of four bytes can be
\* read in one to four reads of different lengths.
MCLargeMaxPacket == 4
MCLargeOwedBound == 2 * MCLargeMaxPacket

\* The channels are interchangeable on the receive path.
ChannelSymmetry == Permutations(MCChannels)
=============================================================================
