---------------------------- MODULE MC_Executor -----------------------------
(* A small executor for TLC: one slot for work beside the two reserved     *)
(* ones, and an outcome store that retains a single completion.            *)
EXTENDS Executor, TLC

CONSTANTS c1, c2, k1, k2

MCClients == {c1, c2}
MCKeys    == {k1, k2}

MCSymmetry == Permutations(MCClients) \cup Permutations(MCKeys)

(* For liveness, two commands with a key each: what only touches the store *)
(* (duplicates, queries, immediate mutations) neither moves the owner nor  *)
(* waits for it, and is left out.                                          *)
KeyOf(c) == IF c = c1 THEN k1 ELSE k2

CommandsNext ==
  \/ Owner \/ Main
  \/ \E c \in Clients :
       \/ RegisterCommand(c, KeyOf(c))
       \/ SubmitCommand(c) \/ WithdrawKey(c) \/ Relay(c) \/ GiveUp(c) \/ HangUp(c)

CommandsFairSpec == Init /\ [][CommandsNext]_vars /\ Fairness
=============================================================================
