---------------------------- MODULE MC_SubDevices ----------------------------
(* A 3-core root device and three more device objects: enough for the    *)
(* root to be split into three 1-core sub-devices (which cannot be split   *)
(* further), or into one 2-core sub-device with one core left over, which *)
(* is then split into two 1-core ones. num_devices = 1 lets a 2-core    *)
(* split succeed and makes a 1-core split of the root too many for it.    *)
EXTENDS SubDevices

CONSTANTS r, d1, d2, d3

MCDevSeq == <<r, d1, d2, d3>>
MCCounts == {0, 1, 2, 4}
MCCapacities == {1}
\* 4 bytes hold a cl_uint but not a cl_device_id or a partition list;
\* 32 bytes hold any of them.
MCInfoSizes == {4, 32}
=============================================================================
