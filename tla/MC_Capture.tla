----------------------------- MODULE MC_Capture -----------------------------
(* Instances of Capture small enough for TLC. *)
EXTENDS Capture, TLC

CONSTANTS d1, d2, p1, p2

MCDevices == {d1, d2}
MCPids == {p1, p2}
DeviceSymmetry == Permutations(MCDevices)
=============================================================================
