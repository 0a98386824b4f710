--------------------------- MODULE MC_Transactions ---------------------------
(* Bounds for TLC: a quiet request, one past the threshold under direct     *)
(* fans, one past it with the protection overridden, and one that leaves    *)
(* the power alone.                                                         *)
EXTENDS Transactions

Ask(ppd, power, how, curves, override) ==
  [ppd |-> ppd, power |-> power, mode |-> how, curves |-> curves, override |-> override]

MCRequests ==
  {Ask("balanced", NoWatts, "firmware", FALSE, FALSE),
   Ask("performance", 90, "direct", TRUE, FALSE),
   Ask("performance", 90, "firmware", TRUE, TRUE),
   Ask(NoPpd, NoWatts, "firmware", TRUE, FALSE)}

MCLimits == {60, 80}
MCLights == {"red"}
=============================================================================
