---------------------------- MODULE MC_Backend -----------------------------
(* Two parts of the daemon: the transactions of its backend, and the       *)
(* capture of controllers by its pump and its input thread. They share no  *)
(* state, so a behaviour moves one and leaves the other as it starts.      *)
EXTENDS MC_Transactions, MC_Capture

VARIABLE part

BackendInit ==
  /\ part \in {"transactions", "capture"}
  /\ Init
  /\ part # "transactions" => file.kind = "missing" /\ ~full
  /\ CaptureInit
  /\ part # "capture" => attached = {}

BackendNext ==
  /\ UNCHANGED part
  /\ \/ part = "transactions" /\ Next /\ UNCHANGED captureVars
     \/ part = "capture" /\ CaptureNext /\ UNCHANGED vars

BackendSpec == BackendInit /\ [][BackendNext]_<<part, vars, captureVars>>
=============================================================================
