------------------------- MODULE MC_ProfileEditor -------------------------
(* The profile editor with two built-in profiles. *)
EXTENDS ProfileEditor

MCStockProfiles == [id \in {"balanced", "turbo"} |-> IF id = "turbo" THEN "performance" ELSE id]
=============================================================================
