---------------------------- MODULE MCDeviceSync ----------------------------
(* Our own user and one other: a model value each. *)
EXTENDS DeviceSync

CONSTANTS me, peer
==============================================================================
