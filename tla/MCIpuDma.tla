------------------------------ MODULE MCIpuDma ------------------------------
(***************************************************************************)
(* A stream of three slots for TLC: two quadwords a slot, two bytes a      *)
(* quadword, two units a byte.                                             *)
(***************************************************************************)
EXTENDS IpuDma

MCCommands ==
  {[op |-> "vdec", len |-> 1], [op |-> "vdec", len |-> 3],
   [op |-> "setiq", len |-> 4], [op |-> "bdec", len |-> 5]}

\* Macroblocks larger than the FIFO and the open quadword, and two in a row.
MCFrames == {[op |-> "csc", len |-> 13, mbs |-> 1], [op |-> "csc", len |-> 9, mbs |-> 2]}

\* No stuffing; a run over two slots after an odd position; a short one.
MCStreams == {{}, 5..16, 7..10 \cup 14..15}
=============================================================================
