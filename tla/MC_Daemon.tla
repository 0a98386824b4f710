----------------------------- MODULE MC_Daemon ------------------------------
(* The daemon with one client beside the pump, and enough sleep signals to *)
(* interrupt a barrier and to change one's mind again.                     *)
EXTENDS Daemon
=============================================================================
