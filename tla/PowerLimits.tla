---------------------------- MODULE PowerLimits ----------------------------
(***************************************************************************)
(* Sysfs::set_tdp: how a table of power limits gets into the hardware.     *)
(* asus-armoury takes each limit in its own range and starts an update     *)
(* that the BIOS lands in the SMU later; the SMU takes the exact values at *)
(* once. The limits are therefore sent to both, read back until they agree *)
(* and watched for as long as an update may still be on its way.           *)
(*                                                                         *)
(* Watts are a few levels. Time passes in units, by the calls to sleep of  *)
(* the one thread that does this; the BIOS may land an update between any  *)
(* two steps. Operators named Bug... are mistaken forms of the ones they   *)
(* precede; no specification uses them.                                    *)
(***************************************************************************)
EXTENDS Naturals, Sequences, FiniteSetsExt

CONSTANTS
  Watts,            \* levels of a request
  RangeMin, RangeMax, \* what asus-armoury accepts
  SettleTimeout,    \* STRIX_HALO_POWER_LIMIT_SETTLE_TIMEOUT
  Hold,             \* STRIX_HALO_POWER_LIMIT_HOLD
  RetryDelay,       \* the sleep between two attempts
  BiosLatency,      \* within which an update lands
  FastCaps,         \* what the firmware may limit the fast limit to
  MaxLimitFaults    \* bound of the model: reads and commands that fail

\* sysfs.rs:27: updates land up to ~1.2 s later; the limits are held 1.5 s.
ASSUME PowerLimitsAssumption ==
  /\ Watts \subseteq Nat /\ RangeMin \in Nat /\ RangeMax \in Nat /\ RangeMin <= RangeMax
  /\ SettleTimeout \in Nat /\ RetryDelay \in Nat /\ BiosLatency \in Nat
  /\ Hold \in Nat /\ Hold >= BiosLatency
  /\ MaxLimitFaults \in Nat

\* What the PM table reports and is checked. PL1 is the slow limit, FPPT the
\* fast one; the BIOS derives the APU's from PL2, which is not reported.
Limits == {"slow", "fast", "apu"}
ArmouryPpt == <<"slow", "apu", "fast">>  \* the limit each of ARMOURY_PPT lands in
SmuCommands == <<"stapm", "fast", "slow", "apu">>

VARIABLES
  smuPresent,  \* has_smu
  fastCap,     \* the firmware's, unknown to the program
  armoury,     \* current_value of the three attributes
  updates,     \* time within which the BIOS lands each limit; 0: none on its way
  smu,         \* the limits in force
  request,     \* the table asked for: the three limits, and PL2
  setter,      \* the thread: where it is, and what it has learnt
  limitFaults

limitVars == <<smuPresent, fastCap, armoury, updates, smu, request, setter, limitFaults>>

Resting == [at |-> "idle", index |-> 0, timer |-> 0, attempt |-> 0,
         cappedOk |-> FALSE, warned |-> FALSE]

PowerLimitsInit ==
  /\ smuPresent \in BOOLEAN /\ fastCap \in FastCaps
  /\ armoury \in [Limits -> {RangeMin, RangeMax}]
  \* A change of the PPD profile has just started updates of its own.
  /\ updates \in {[limit \in Limits |-> 0], [limit \in Limits |-> BiosLatency]}
  /\ smu = [limit \in Limits |-> RangeMin]
  /\ request \in [Limits \cup {"pl2"} -> Watts]
  /\ request["slow"] <= request["pl2"]
  /\ setter = Resting /\ limitFaults = 0

----------------------------------------------------------------------------
(* The BIOS.                                                               *)

Capped(limit, watts) == IF limit = "fast" THEN Min({watts, fastCap}) ELSE watts

Land(limit) ==
  /\ updates[limit] > 0
  /\ smu' = [smu EXCEPT ![limit] = Capped(limit, armoury[limit])]
  /\ updates' = [updates EXCEPT ![limit] = 0]
  /\ UNCHANGED <<smuPresent, fastCap, armoury, request, setter, limitFaults>>

\* One unit of sleep. What is due lands first.
TimePasses ==
  /\ \A limit \in Limits : updates[limit] # 1
  /\ updates' = [limit \in Limits |-> IF updates[limit] = 0 THEN 0 ELSE updates[limit] - 1]
  /\ UNCHANGED <<smuPresent, fastCap, armoury, smu, request>>

----------------------------------------------------------------------------
(* The thread.                                                             *)

At(place) == setter.at = place
Go(place, timer) == setter' = [setter EXCEPT !.at = place, !.timer = timer, !.index = 1]
Fault == limitFaults < MaxLimitFaults /\ limitFaults' = limitFaults + 1
Quiet == UNCHANGED <<smuPresent, fastCap, request>>

StartSetTdp == At("idle") /\ Go("armoury", 0) /\ Quiet /\ UNCHANGED <<armoury, updates, smu, limitFaults>>

\* One attribute: its range, its value, and a write when it differs. A value
\* out of range is an error only if nothing else can set it.
Asked(limit) == request[IF limit = "apu" THEN "pl2" ELSE limit]
WriteArmoury ==
  LET limit == ArmouryPpt[setter.index]
      value == Max({RangeMin, Min({Asked(limit), RangeMax})})
      refused == value # Asked(limit) /\ ~smuPresent
      last == setter.index = Len(ArmouryPpt)
  IN /\ At("armoury") /\ ~refused
     /\ IF armoury[limit] = value THEN UNCHANGED <<armoury, updates>>
        ELSE /\ armoury' = [armoury EXCEPT ![limit] = value]
             /\ updates' = [updates EXCEPT ![limit] = BiosLatency]
     /\ IF ~last THEN setter' = [setter EXCEPT !.index = @ + 1]
        ELSE Go(IF smuPresent THEN "send" ELSE "ok", 0)
     /\ Quiet /\ UNCHANGED <<smu, limitFaults>>

ArmouryRefuses ==
  LET limit == ArmouryPpt[setter.index]
  IN /\ At("armoury")
     /\ \/ ~smuPresent /\ Asked(limit) \notin RangeMin..RangeMax /\ UNCHANGED limitFaults
        \/ Fault
     /\ Go("error", 0) /\ Quiet /\ UNCHANGED <<armoury, updates, smu>>

\* PPT fast alone may be lower, once a resend has not helped.
Verified(cappedOk) ==
  /\ smu["slow"] = request["slow"] /\ smu["apu"] = request["apu"]
  /\ smu["fast"] = request["fast"] \/ (cappedOk /\ smu["fast"] < request["fast"])

SendCommand ==
  LET limit == SmuCommands[setter.index]
  IN /\ At("send")
     /\ smu' = IF limit = "stapm" THEN smu ELSE [smu EXCEPT ![limit] = Capped(limit, request[limit])]
     /\ IF setter.index < Len(SmuCommands) THEN setter' = [setter EXCEPT !.index = @ + 1]
        ELSE Go("settle", SettleTimeout)
     /\ Quiet /\ UNCHANGED <<armoury, updates, limitFaults>>

BugAgreed ==
  /\ At("settle") /\ Verified(setter.cappedOk) /\ Go("hold", 0)
  /\ Quiet /\ UNCHANGED <<armoury, updates, smu, limitFaults>>

\* poll_smu_power_limits: until they agree, then for as long as they are held.
Agreed ==
  /\ At("settle") /\ Verified(setter.cappedOk) /\ Go("hold", Hold)
  /\ Quiet /\ UNCHANGED <<armoury, updates, smu, limitFaults>>

NotYetAgreed ==
  /\ At("settle") /\ ~Verified(setter.cappedOk) /\ setter.timer > 0
  /\ TimePasses /\ setter' = [setter EXCEPT !.timer = @ - 1] /\ UNCHANGED limitFaults

\* After each sleep the limits are read again.
StillHeld ==
  /\ At("hold") /\ setter.timer > 0 /\ TimePasses /\ Go("held", setter.timer - 1)
  /\ UNCHANGED limitFaults

HeldAgain ==
  /\ At("held") /\ Verified(setter.cappedOk) /\ Go("hold", setter.timer)
  /\ Quiet /\ UNCHANGED <<armoury, updates, smu, limitFaults>>

\* The fast limit is read once more, for the warning.
Report ==
  /\ At("hold") /\ setter.timer = 0
  /\ setter' = [setter EXCEPT !.at = "ok", !.warned = smu["fast"] < request["fast"]]
  /\ Quiet /\ UNCHANGED <<armoury, updates, smu, limitFaults>>

ReportFails ==
  /\ At("hold") /\ setter.timer = 0 /\ Fault /\ Go("error", 0)
  /\ Quiet /\ UNCHANGED <<armoury, updates, smu>>

\* A rejected command, a failed read, a settling that takes too long, or a
\* limit that moves while held ends the attempt; three attempts are made.
AttemptFails ==
  /\ \/ At("send") /\ Fault
     \/ At("settle") /\ Fault
     \/ At("settle") /\ ~Verified(setter.cappedOk) /\ setter.timer = 0 /\ UNCHANGED limitFaults
     \/ At("held") /\ (Fault \/ (~Verified(setter.cappedOk) /\ UNCHANGED limitFaults))
  /\ \E readable \in BOOLEAN :
       setter' = [setter EXCEPT !.at = IF setter.attempt < 2 THEN "retry" ELSE "error",
                                !.timer = RetryDelay, !.attempt = @ + 1,
                                !.cappedOk = readable /\ Verified(TRUE)]
  /\ Quiet /\ UNCHANGED <<armoury, updates, smu>>

WaitToRetry ==
  /\ At("retry") /\ setter.timer > 0 /\ TimePasses
  /\ setter' = [setter EXCEPT !.timer = @ - 1] /\ UNCHANGED limitFaults

Resend ==
  /\ At("retry") /\ setter.timer = 0 /\ Go("send", 0)
  /\ Quiet /\ UNCHANGED <<armoury, updates, smu, limitFaults>>

SetTdp ==
  \/ StartSetTdp \/ WriteArmoury \/ ArmouryRefuses \/ SendCommand \/ Agreed \/ NotYetAgreed
  \/ StillHeld \/ HeldAgain \/ Report \/ ReportFails \/ AttemptFails \/ WaitToRetry \/ Resend

PowerLimitsNext == SetTdp \/ \E limit \in Limits : Land(limit)

LimitsSpec == PowerLimitsInit /\ [][PowerLimitsNext]_limitVars

----------------------------------------------------------------------------
(* A table that set_tdp reports as set is in force and stays so, whatever  *)
(* updates the BIOS still had on its way: no later landing changes it. The *)
(* fast limit alone may be lower, and then the caller has been told.       *)
VerifiedLimitsHold ==
  At("ok") /\ smuPresent =>
    /\ smu["slow"] = request["slow"] /\ smu["apu"] = request["apu"]
    /\ IF setter.warned THEN smu["fast"] < request["fast"] ELSE smu["fast"] = request["fast"]
=============================================================================
