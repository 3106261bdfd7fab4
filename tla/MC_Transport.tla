---------------------------- MODULE MC_Transport ----------------------------
(* Two chips, one on a board get_board does not know, with two cores each; *)
(* chip 0 runs the monitor. Two writer threads send one message each      *)
(* through a one-slot mailbox, so one can find it full.                   *)
EXTENDS Transport

CONSTANTS w1, w2

MCChips == {0, 1}
MCSwitchDevice == [ch \in MCChips |-> IF ch = 0 THEN 34340 ELSE 4660]  \* 0x8624, 0x1234
MCAddrs == {8388608, 201326592}       \* 0x00800000 (L2), 0x0C000000 (MSMC)
MCSizes == {4, 24576}
MCValues == {1}
MCWriters == {w1, w2}
=============================================================================
