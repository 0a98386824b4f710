--------------------------- MODULE MC_FanBackend ---------------------------
(* Instances of FanBackend small enough for TLC. *)
EXTENDS FanBackend

MCPolicies == {"calm", "brisk"}
MCRequests ==
  {[mode |-> "direct", policy |-> "calm"], [mode |-> "direct", policy |-> "brisk"],
   [mode |-> "firmware", policy |-> "calm"], [mode |-> "stock", policy |-> "calm"]}

MCCalm == {"calm"}
MCCalmRequests == {r \in MCRequests : r.policy = "calm"}
=============================================================================
