---------------------------- MODULE Transactions ----------------------------
(***************************************************************************)
(* The settings the daemon owns and what it keeps of them: Backend in      *)
(* backend.rs with apply_request (core/apply.rs), the state file           *)
(* (state.rs, config.rs) and the boot, resume and hotplug paths that write *)
(* the kept settings back. The hardware, the memory of the daemon and the  *)
(* file are three copies; every operation moves them one write at a time,  *)
(* each write may fail having had its effect or not, and the daemon or the *)
(* machine may stop between any two.                                       *)
(*                                                                         *)
(* FanBackend models how the fans change hands; here a fan write is one    *)
(* step. Power is PL1 in watts, a request's curves are there or not, a     *)
(* lighting state is a value. Warnings, telemetry and the undervolt are    *)
(* left out but for their failures. Operators named Bug... are mistaken    *)
(* forms of the ones they precede; no specification uses them.             *)
(***************************************************************************)
EXTENDS Integers

CONSTANTS
  Requests,     \* what clients may ask to apply
  Limits,       \* battery limits they may set
  Lights,       \* lighting states they may set
  MaxOps,       \* bound of the model: requests, sleeps, changes of the battery
  MaxFaults,    \* bound of the model: writes and reads that fail
  MaxStops      \* bound of the model: crashes and reboots

HighPower == 80
Stock == [balanced |-> 52, performance |-> 70]
NoPpd == "none"
NoWatts == 0     \* no limits of its own; also a battery limit not known
LimitRange == 40..100

NoRequest ==
  [ppd |-> NoPpd, power |-> NoWatts, mode |-> "none", curves |-> FALSE, override |-> FALSE]

ApplyRequests ==
  [ppd : {NoPpd} \cup DOMAIN Stock, power : {NoWatts} \cup 5..93,
   mode : {"firmware", "direct"}, curves : BOOLEAN, override : BOOLEAN]

(* ApplyRequest::validate *)
Valid(r) == r.mode = "direct" => r.curves

ASSUME TransactionsAssumption ==
  /\ Requests \subseteq {r \in ApplyRequests : Valid(r)}
  /\ Limits \subseteq LimitRange
  /\ MaxOps \in Nat /\ MaxFaults \in Nat /\ MaxStops \in Nat

VARIABLES
  hw,          \* what the hardware is set to
  plugged,     \* the keyboard is there
  reconnected, \* and was (re)opened since hotplug last looked
  full,        \* the battery is at 100%
  kept,        \* persisted: the desired request and the flattened state
  file,        \* state.json
  copied,      \* a corrupt state.json was preserved beside it
  saved,       \* the last save succeeded
  mode,        \* PersistenceMode
  op, at, phase, \* the operation in hand, its next step, and how far it got
  goal,        \* the request being applied
  before,      \* what was kept when the operation began
  aux,         \* the auxiliary transaction in hand
  ops, faults, stops

memory == <<kept, mode>>
disk   == <<file, copied, saved>>
world  == <<plugged, reconnected, full>>
plan   == <<op, phase, goal, before, aux>>
bounds == <<ops, faults, stops>>
vars   == <<hw, world, memory, disk, at, plan, bounds>>

Default ==
  [desired |-> NoRequest, degraded |-> FALSE, limit |-> NoWatts, onetime |-> FALSE,
   overdrive |-> "unset", light |-> "none"]
State(k) == [kind |-> "state", is |-> k]
Bad(kind) == [kind |-> kind, is |-> Default]
NoAux == [dev |-> "none"]

MayFail == faults < MaxFaults /\ faults' = faults + 1 /\ UNCHANGED <<ops, stops>>
Fine == UNCHANGED bounds

----------------------------------------------------------------------------
(* Powers and fans.                                                        *)

(* fan_protection_required *)
Required(watts, override) == watts >= HighPower /\ ~override

EffectivePl1(r) ==
  IF r.power # NoWatts THEN r.power ELSE IF r.ppd # NoPpd THEN Stock[r.ppd] ELSE NoWatts

(* set_fans, fan_curves_for_hardware: the curves that a request runs at    *)
(* the power it asks for, or else at the one the hardware has.             *)
CurvesFor(r) ==
  LET pl1 == IF EffectivePl1(r) # NoWatts THEN EffectivePl1(r) ELSE hw.pl1
  IN IF Required(pl1, hw.override) THEN "locked" ELSE "authored"

(* What the fans run by: the EC's curves while it is direct, else those of *)
(* the firmware.                                                           *)
FansOf(h) == IF h.ec # "auto" THEN h.ec ELSE h.fw

SetFans(r) ==
  IF r.mode = "direct" THEN [hw EXCEPT !.ec = CurvesFor(r)]
  ELSE [hw EXCEPT !.fw = CurvesFor(r), !.ec = "auto"]

(* A direct install that fails gives the EC back; a firmware write that    *)
(* fails may have reached a fan, and the EC goes on driving.               *)
SetFansHalf(r) ==
  IF r.mode = "direct" THEN {[hw EXCEPT !.ec = "auto"]}
  ELSE {hw, [hw EXCEPT !.fw = CurvesFor(r)], SetFans(r)}

Dropped == [hw EXCEPT !.ec = "auto", !.fw = "auto"]
DroppedHalf == {hw, [hw EXCEPT !.ec = "auto"], Dropped}

(* The BIOS may write its own table again after a change of the PPD        *)
(* profile or of the fans.                                                 *)
BiosPower(h) == {h} \cup (IF h.ppd = NoPpd THEN {} ELSE {[h EXCEPT !.pl1 = Stock[h.ppd]]})

CommittedOverride(k) == k.desired # NoRequest /\ k.desired.override

----------------------------------------------------------------------------
(* StateStore::save writes a sibling, renames it over the file and syncs   *)
(* the directory: an error does not say whether the rename was done.       *)

Saved(k) ==
  /\ mode = "rw" /\ file' = State(k) /\ saved' = TRUE
  /\ UNCHANGED copied /\ Fine

(* save_state refuses a read-only store before it touches the file.        *)
SaveRefused(k) == mode = "ro" /\ Fine /\ saved' = FALSE /\ UNCHANGED <<file, copied>>

SaveBroken(k) ==
  /\ mode = "rw" /\ MayFail
  /\ file' \in {file, State(k)} /\ saved' = FALSE /\ UNCHANGED copied

NotSaved(k) == SaveRefused(k) \/ SaveBroken(k)

----------------------------------------------------------------------------
(* Where an operation goes next.                                           *)

Restores == {"boot", "resume"}
Applies == {"apply"} \cup Restores

Goes(o, p, a) ==
  op' = o /\ phase' = p /\ at' = a /\ aux' = NoAux /\ UNCHANGED <<goal, before>>
To(a) == Goes(op, phase, a)
Ends ==
  /\ op' = "idle" /\ phase' = "none" /\ at' = "none"
  /\ goal' = NoRequest /\ before' = Default /\ aux' = NoAux

(* An apply is over; a restore that failed still gives the EC back.        *)
ApplyEnds(failed) ==
  IF op = "apply" THEN Ends ELSE Goes(op, "none", IF failed THEN "disarm" ELSE "battery")

Worse(k) == [k EXCEPT !.degraded = TRUE]

(* The request in hand: the new one, or the committed one coming back.     *)
Target == IF phase = "try" THEN goal ELSE before.desired

(* Where apply_request begins, once PPD is selected: fans before power     *)
(* when the power needs them, power before fans when it does not.          *)
BugFirst(r) == "lower"
First(r) == IF Required(EffectivePl1(r), r.override) THEN "fans" ELSE "lower"

FanStep(r) == IF r.curves THEN "fans" ELSE "drop"
SetsPower(r) == EffectivePl1(r) # NoWatts

(* What follows an apply_request that succeeded, ...                       *)
Applied ==
  CASE phase = "try" ->
         /\ kept' = [kept EXCEPT !.desired = goal, !.degraded = FALSE] /\ To("observe")
    [] phase = "undo" -> To("observe") /\ UNCHANGED kept
    [] phase = "back" -> kept' = Worse(kept) /\ To("save")
    [] phase = "query" -> Goes(op, "good", "observe") /\ UNCHANGED kept

(* ... and one that failed. The committed policy comes back before the     *)
(* committed request is tried.                                             *)
BugFailed(h) ==
  CASE phase = "try" ->
         /\ hw' = [h EXCEPT !.override = CommittedOverride(before)]
         /\ Goes(op, "undo", "observe") /\ UNCHANGED kept
    [] phase = "undo" -> hw' = h /\ kept' = Worse(kept) /\ To("observe")
    [] phase = "back" -> hw' = h /\ kept' = Worse(kept) /\ To("save")
    [] phase = "query" -> hw' = h /\ Goes(op, "worse", "observe") /\ UNCHANGED kept

Failed(h) ==
  CASE phase = "try" ->
         /\ hw' = [h EXCEPT !.override = CommittedOverride(before)]
         /\ IF before.desired = NoRequest
            THEN kept' = Worse(kept) /\ Goes(op, "undo", "observe")
            ELSE Goes(op, "undo", "ppd") /\ UNCHANGED kept
    [] phase = "undo" -> hw' = h /\ kept' = Worse(kept) /\ To("observe")
    [] phase = "back" -> hw' = h /\ kept' = Worse(kept) /\ To("save")
    [] phase = "query" -> hw' = h /\ Goes(op, "worse", "observe") /\ UNCHANGED kept

----------------------------------------------------------------------------
(* apply, and the apply_request in it.                                     *)

Free == op = "idle"
Counted == ops < MaxOps /\ ops' = ops + 1 /\ UNCHANGED <<faults, stops>>

Apply ==
  /\ Free /\ mode = "rw" /\ Counted
  /\ goal' \in Requests /\ before' = kept
  /\ op' = "apply" /\ phase' = "try" /\ at' = "policy" /\ UNCHANGED aux
  /\ UNCHANGED <<hw, world, memory, disk>>

(* The direct owner may refuse the policy; the committed flag comes back.  *)
Policy ==
  /\ at = "policy" /\ UNCHANGED <<world, mode, disk>>
  /\ \/ /\ hw' = [hw EXCEPT !.override = Target.override]
        /\ Fine /\ To("ppd") /\ UNCHANGED kept
     \/ /\ MayFail
        /\ IF phase = "query" THEN Failed([hw EXCEPT !.override = Target.override])
           ELSE /\ hw' = [hw EXCEPT !.override = CommittedOverride(before)]
                /\ ApplyEnds(TRUE) /\ UNCHANGED kept

(* ppd_set; a profile is skipped while power-profiles-daemon is away.      *)
Ppd ==
  /\ at = "ppd" /\ UNCHANGED <<world, mode, disk>>
  /\ LET chosen == IF Target.ppd = NoPpd THEN hw ELSE [hw EXCEPT !.ppd = Target.ppd]
     IN \/ hw' \in BiosPower(chosen) \cup {hw} /\ Fine /\ To(First(Target)) /\ UNCHANGED kept
        \/ Target.ppd # NoPpd /\ MayFail /\ Failed(hw)

WithPower == IF SetsPower(Target) THEN [hw EXCEPT !.pl1 = EffectivePl1(Target)] ELSE hw

PowerStep(next) ==
  \/ hw' = WithPower /\ Fine /\ To(next) /\ UNCHANGED kept
  \/ SetsPower(Target) /\ MayFail /\ \E h \in {hw, WithPower} : Failed(h)

(* Power below the threshold, or under the override, goes before the fans  *)
(* and again after them.                                                   *)
Lower ==
  at = "lower" /\ PowerStep(FanStep(Target)) /\ UNCHANGED <<world, mode, disk>>

Fans ==
  /\ at = "fans" /\ UNCHANGED <<world, mode, disk>>
  /\ \/ hw' \in BiosPower(SetFans(Target)) /\ Fine /\ To("power") /\ UNCHANGED kept
     \/ MayFail /\ \E h \in SetFansHalf(Target) : Failed(h)

(* fans_release: refused while the measured power needs the protection.    *)
Drop ==
  /\ at = "drop" /\ UNCHANGED <<world, mode, disk>>
  /\ \/ Required(hw.pl1, hw.override) /\ Fine /\ Failed(hw)
     \/ /\ ~Required(hw.pl1, hw.override)
        /\ \/ hw' \in BiosPower(Dropped) /\ Fine /\ To("power") /\ UNCHANGED kept
           \/ MayFail /\ \E h \in DroppedHalf : Failed(h)

Power == at = "power" /\ PowerStep("tune") /\ UNCHANGED <<world, mode, disk>>

(* The temperature limit and the undervolt come last.                      *)
Tune ==
  /\ at = "tune" /\ UNCHANGED <<world, mode, disk>>
  /\ \/ Fine /\ UNCHANGED hw /\ Applied
     \/ MayFail /\ Failed(hw)

(* Every operation that saves what is kept, with what it does of the       *)
(* answer.                                                                 *)
Save ==
  /\ at = "save" /\ UNCHANGED <<hw, world, memory>> /\ Saved(kept)
  /\ CASE op \in Applies /\ phase \in {"try", "undo"} -> ApplyEnds(phase = "undo")
       [] op \in Applies /\ phase \in {"back", "again"} -> Goes(op, "over", "observe")
       [] op = "boot" /\ phase = "none" -> To("battery")
       [] op = "sleep" -> Goes("asleep", "none", "none")
       [] OTHER -> Ends

(* An apply that cannot be saved takes everything back, and says on disk   *)
(* what it took back: a rename that was done must not outlive it.          *)
SaveFails ==
  /\ at = "save" /\ UNCHANGED <<world, mode>> /\ NotSaved(kept)
  /\ CASE op \in Applies /\ phase = "try" ->
            /\ hw' = [hw EXCEPT !.override = CommittedOverride(before)]
            /\ IF before.desired = NoRequest
               THEN kept' = Worse(before) /\ Goes(op, "back", "save")
               ELSE kept' = before /\ Goes(op, "back", "ppd")
       [] op \in Applies /\ phase = "undo" -> ApplyEnds(TRUE) /\ UNCHANGED <<hw, kept>>
       [] op \in Applies /\ phase = "back" -> Goes(op, "again", "save") /\ UNCHANGED <<hw, kept>>
       [] op \in Applies /\ phase = "again" -> Goes(op, "over", "observe") /\ UNCHANGED <<hw, kept>>
       [] op = "boot" /\ phase = "none" -> To("battery") /\ UNCHANGED <<hw, kept>>
       [] op = "sleep" -> Goes("asleep", "none", "none") /\ UNCHANGED <<hw, kept>>
       [] OTHER -> Ends /\ UNCHANGED <<hw, kept>>

----------------------------------------------------------------------------
(* observe: the hardware's own battery limit and overdrive are taken for   *)
(* the settings; a battery that is full ends a one-time charge, which is a *)
(* transaction of its own in the middle of whatever observes.              *)

Read(k) == IF ~k.onetime /\ hw.limit \in LimitRange THEN [k EXCEPT !.limit = hw.limit] ELSE k

AfterObserve(k) ==
  /\ \E value \in {k.overdrive, hw.overdrive} :
       kept' = [k EXCEPT !.overdrive = value, !.degraded = @ \/ phase = "worse"]
  /\ CASE op = "boot" /\ phase = "none" /\ k.desired # NoRequest ->
            /\ op' = op /\ phase' = "try" /\ at' = "policy"
            /\ goal' = k.desired /\ before' = kept' /\ aux' = NoAux
       [] op = "boot" /\ phase = "none" /\ k.desired = NoRequest ->
            Goes(op, "none", IF mode = "rw" THEN "save" ELSE "battery")
       [] op \in Applies /\ phase = "over" -> ApplyEnds(TRUE)
       [] op = "observe" \/ phase = "good" -> Ends
       [] OTHER -> To("save")

Observe ==
  /\ Free /\ Goes("observe", "none", "observe")
  /\ UNCHANGED <<hw, world, memory, disk, bounds>>

Look ==
  /\ at = "observe" /\ UNCHANGED <<hw, world, mode, disk>>
  /\ \E k \in {kept, Read(kept)} :
       /\ IF k = Read(kept) THEN Fine ELSE MayFail
       /\ IF k.onetime /\ full /\ k.limit # NoWatts
          THEN /\ kept' = k /\ at' = "write"
               /\ aux' = [dev |-> "limit", to |-> k.limit, back |-> hw.limit, from |-> k,
                          new |-> [k EXCEPT !.onetime = FALSE], why |-> "none", again |-> FALSE]
               /\ UNCHANGED <<op, phase, goal, before>>
          ELSE AfterObserve(k)

----------------------------------------------------------------------------
(* apply_and_commit_auxiliary: write the hardware, publish the candidate,  *)
(* take back what failed.                                                  *)

(* effective_battery_limit *)
LimitFor(onetime, limit) == IF onetime THEN 100 ELSE limit

Begin(d, v, b, n) ==
  /\ Free /\ mode = "rw" /\ Counted
  /\ op' = "aux" /\ at' = "write"
  /\ aux' = [dev |-> d, to |-> v, back |-> b, from |-> kept, new |-> n,
             why |-> "none", again |-> FALSE]
  /\ UNCHANGED <<phase, goal, before, hw, world, memory, disk>>

SetBatteryLimit ==
  \E limit \in Limits :
    Begin("limit", LimitFor(kept.onetime, limit), hw.limit, [kept EXCEPT !.limit = limit])

SetBatteryOneTimeCharge ==
  \E enabled \in BOOLEAN \ {kept.onetime} :
    LET normal == IF kept.limit = NoWatts THEN hw.limit ELSE kept.limit
    IN Begin("limit", LimitFor(enabled, normal), hw.limit,
             [kept EXCEPT !.limit = normal, !.onetime = enabled])

SetPanelOverdrive ==
  \E value \in {"on", "off"} :
    Begin("overdrive", value, hw.overdrive, [kept EXCEPT !.overdrive = value])

SetLighting ==
  \E state \in Lights : Begin("light", state, kept.light, [kept EXCEPT !.light = state])

(* release_fans, refused before the transaction while power is high.       *)
ReleaseFans ==
  /\ ~Required(hw.pl1, hw.override)
  /\ Begin("fans", "auto", "none",
           [kept EXCEPT !.desired = IF @ = NoRequest THEN @
                                    ELSE [@ EXCEPT !.curves = FALSE, !.mode = "firmware"]])

With(value) == [hw EXCEPT ![aux.dev] = value]
AuxTo(a) == at' = a /\ UNCHANGED plan
AuxEnds(k) == IF op = "aux" THEN kept' = k /\ Ends ELSE AfterObserve(k)

AuxWrite ==
  /\ at = "write" /\ UNCHANGED <<world, memory, disk>>
  /\ LET Wrong(h) ==
           hw' = h /\ at' = "compensate" /\ aux' = [aux EXCEPT !.why = "write"]
             /\ UNCHANGED <<op, phase, goal, before>>
     IN IF aux.dev = "fans"
        THEN \/ hw' \in BiosPower(Dropped) /\ Fine /\ AuxTo("commit")
             \/ MayFail /\ \E h \in DroppedHalf : Wrong(h)
        ELSE IF aux.dev = "light" /\ ~plugged THEN Fine /\ Wrong(hw)
        ELSE \/ hw' = With(aux.to) /\ Fine /\ AuxTo("commit")
             \/ MayFail /\ \E h \in {hw, With(aux.to)} : Wrong(h)

Commit ==
  /\ at = "commit" /\ UNCHANGED <<hw, world, mode>>
  /\ \/ Saved(aux.new) /\ AuxEnds(aux.new)
     \/ /\ NotSaved(aux.new) /\ UNCHANGED kept
        /\ at' = "compensate" /\ aux' = [aux EXCEPT !.why = "save"]
        /\ UNCHANGED <<op, phase, goal, before>>

(* compensate_fan_release: the committed fans, or else the locked copy of  *)
(* their curves in the firmware, which is not what was there before.       *)
LockedFirmware == [hw EXCEPT !.fw = "locked", !.ec = "auto"]
FansBack ==
  LET r == aux.from.desired
      restorable == r # NoRequest /\ r.curves /\ ~r.override
  IN [done |-> IF restorable THEN SetFans(r) ELSE LockedFirmware,
      good |-> restorable,
      half |-> {hw, LockedFirmware} \cup (IF restorable THEN SetFansHalf(r) ELSE {})]

BugCompensation ==
  CASE aux.dev = "fans" -> FansBack
    [] aux.dev = "light" /\ (~plugged \/ aux.back = "none") ->
         [done |-> hw, good |-> TRUE, half |-> {hw}]
    [] OTHER -> [done |-> With(aux.back), good |-> TRUE, half |-> {hw, With(aux.back)}]

(* A detached keyboard has nothing to take back; one never lit has nothing *)
(* to go back to.                                                          *)
Compensation ==
  CASE aux.dev = "fans" -> FansBack
    [] aux.dev = "light" /\ ~plugged -> [done |-> hw, good |-> TRUE, half |-> {hw}]
    [] aux.dev = "light" /\ aux.back = "none" -> [done |-> hw, good |-> FALSE, half |-> {hw}]
    [] OTHER -> [done |-> With(aux.back), good |-> TRUE, half |-> {hw, With(aux.back)}]

Compensate ==
  /\ at = "compensate" /\ UNCHANGED <<world, mode, disk>>
  /\ LET Then(h, good) ==
           /\ hw' = h
           /\ CASE aux.why = "save" ->
                     /\ kept' = aux.from /\ at' = "repair"
                     /\ aux' = [aux EXCEPT !.again = ~good]
                     /\ UNCHANGED <<op, phase, goal, before>>
                [] aux.why = "write" /\ good -> AuxEnds(aux.from)
                [] OTHER -> kept' = Worse(aux.from) /\ AuxTo("note")
     IN \/ /\ Fine
           /\ \E h \in IF aux.dev = "fans" THEN BiosPower(Compensation.done)
                      ELSE {Compensation.done} : Then(h, Compensation.good)
        \/ MayFail /\ \E h \in Compensation.half : Then(h, FALSE)

BugRepair ==
  /\ at = "repair" /\ UNCHANGED <<hw, world, mode, disk>> /\ Fine
  /\ IF aux.again THEN kept' = Worse(kept) /\ AuxTo("note") ELSE AuxEnds(kept)

(* commit_auxiliary restores the durable state: the error may have come    *)
(* after the rename. A failure of this, or of the compensation, is noted   *)
(* and saved once more, for each.                                          *)
Repair ==
  /\ at = "repair" /\ UNCHANGED <<hw, world, mode>>
  /\ \/ /\ Saved(kept)
        /\ IF aux.again
           THEN /\ kept' = Worse(kept) /\ at' = "note" /\ aux' = [aux EXCEPT !.again = FALSE]
                /\ UNCHANGED <<op, phase, goal, before>>
           ELSE AuxEnds(kept)
     \/ NotSaved(kept) /\ kept' = Worse(kept) /\ AuxTo("note")

Note ==
  /\ at = "note" /\ UNCHANGED <<hw, world, mode>>
  /\ Saved(kept) \/ NotSaved(kept)
  /\ IF aux.again
     THEN /\ at' = "note" /\ aux' = [aux EXCEPT !.again = FALSE]
          /\ UNCHANGED <<op, phase, goal, before, kept>>
     ELSE AuxEnds(kept)

----------------------------------------------------------------------------
(* factory_fan_curves: a reading that moves the PPD profile and the        *)
(* firmware's curves, refused at high power or when it could not be undone.*)

FactoryFanCurves ==
  /\ Free /\ Counted /\ hw.pl1 < HighPower
  /\ kept.desired # NoRequest \/ hw.ppd # NoPpd
  /\ op' = "query" /\ phase' = "query" /\ before' = kept /\ UNCHANGED aux
  /\ goal' = [NoRequest EXCEPT !.ppd = hw.ppd]
  /\ at' = (IF kept.desired # NoRequest THEN "policy" ELSE "stock")
  /\ \E p \in DOMAIN Stock :
       \E h \in BiosPower([hw EXCEPT !.ppd = p]) \cup {hw} : hw' \in {h, [h EXCEPT !.fw = "auto"]}
  /\ UNCHANGED <<world, memory, disk>>

(* With nothing desired, the PPD profile found and its stock table.        *)
StockBack ==
  /\ at = "stock" /\ UNCHANGED <<world, mode, disk>>
  /\ \/ /\ hw' = [hw EXCEPT !.ppd = goal.ppd, !.pl1 = Stock[goal.ppd]] /\ Fine
        /\ Goes(op, "good", "observe") /\ UNCHANGED kept
     \/ MayFail /\ Failed(hw)

----------------------------------------------------------------------------
(* What firmware may lose is written back at boot and after a sleep.       *)

(* restore_volatile, Backend::start: the order of the parts.               *)
NextRestore(part) ==
  CASE part = "panel" -> IF op = "boot" THEN "observe" ELSE "light"
    [] part = "battery" -> IF op = "boot" THEN "light" ELSE "panel"
    [] part = "light" -> IF op = "boot" THEN "done" ELSE "observe"

Part(part, due, h) ==
  /\ at = part /\ UNCHANGED <<world, mode, disk>>
  /\ \/ /\ hw' = (IF due THEN h ELSE hw) /\ Fine /\ UNCHANGED kept
     \/ due /\ MayFail /\ hw' \in {hw, h} /\ kept' = Worse(kept)
  /\ IF NextRestore(part) = "done" THEN Ends ELSE To(NextRestore(part))

RestorePanelOverdrive ==
  Part("panel", kept.overdrive # "unset", [hw EXCEPT !.overdrive = kept.overdrive])

(* restore_battery_policy: with nothing kept, only a reading that is no    *)
(* limit is replaced.                                                      *)
RestoreBatteryPolicy ==
  LET target == LimitFor(kept.onetime, kept.limit)
  IN IF target # NoWatts THEN Part("battery", TRUE, [hw EXCEPT !.limit = target])
     ELSE Part("battery", hw.limit \notin LimitRange, [hw EXCEPT !.limit = 100])

RestoreLighting ==
  Part("light", plugged /\ kept.light # "none", [hw EXCEPT !.light = kept.light])

(* restore_desired, when its apply failed. *)
Disarm ==
  /\ at = "disarm" /\ UNCHANGED <<world, mode, disk>>
  /\ kept' = Worse(kept) /\ To("battery")
  /\ (hw' = [hw EXCEPT !.ec = "auto"] /\ Fine) \/ (MayFail /\ UNCHANGED hw)

Suspend ==
  /\ Free /\ Counted /\ UNCHANGED <<hw, world, memory, disk>> /\ Goes("sleep", "none", "release")

(* Backend::shutdown *)
ReleaseForSleep ==
  /\ at = "release" /\ UNCHANGED <<world, mode, disk>>
  /\ \/ hw' = [hw EXCEPT !.ec = "auto"] /\ Fine /\ UNCHANGED kept /\ Goes("asleep", "none", "none")
     \/ MayFail /\ UNCHANGED hw /\ kept' = Worse(kept) /\ To("observe")

Forgets(h) ==
  {h} \cup {[h EXCEPT !.pl1 = Stock.balanced, !.fw = "auto", !.ec = "auto",
                      !.limit = l, !.overdrive = "off", !.light = "dark"] : l \in {0, 100}}

Resume ==
  /\ op = "asleep" /\ hw' \in Forgets(hw) /\ Fine
  /\ UNCHANGED <<world, memory, disk>>
  /\ op' = "resume" /\ goal' = kept.desired /\ before' = kept /\ aux' = NoAux
  /\ IF kept.desired = NoRequest THEN phase' = "none" /\ at' = "battery"
     ELSE phase' = "try" /\ at' = "policy"

(* restore_hotplugged_lighting *)
Hotplug ==
  /\ Free /\ reconnected
  /\ reconnected' = FALSE /\ UNCHANGED <<plugged, full, mode, disk, at, plan>>
  /\ LET lit == [hw EXCEPT !.light = kept.light]
         due == plugged /\ kept.light # "none"
     IN \/ hw' = (IF due THEN lit ELSE hw) /\ Fine /\ UNCHANGED kept
        \/ due /\ MayFail /\ hw' \in {hw, lit} /\ kept' = Worse(kept)

(* StateStore::load, loaded_state, PlatformHardware::acquire.              *)
BugLoaded == IF file.kind = "unreadable" THEN "rw" ELSE "ro"
Loaded == IF file.kind \in {"unsupported", "unreadable"} THEN "ro" ELSE "rw"

Boot ==
  /\ op = "off"
  /\ Goes("boot", "none", "panel")
  /\ hw' = [hw EXCEPT !.ec = "auto", !.override = FALSE]
  /\ reconnected' = FALSE /\ UNCHANGED <<plugged, full, file, saved>>
  /\ CASE file.kind \in {"state", "missing"} ->
            kept' = file.is /\ mode' = Loaded /\ UNCHANGED copied /\ Fine
       [] file.kind = "corrupt" ->
            /\ kept' = Default
            /\ \/ mode' = Loaded /\ copied' = TRUE /\ Fine
               \/ mode' = "ro" /\ UNCHANGED copied /\ MayFail
       [] OTHER -> kept' = Default /\ mode' = Loaded /\ UNCHANGED copied /\ Fine

----------------------------------------------------------------------------
(* The world: the daemon or the machine stops, the keyboard comes and      *)
(* goes, the battery fills and empties.                                    *)

Stops ==
  /\ op # "off" /\ stops < MaxStops /\ stops' = stops + 1 /\ UNCHANGED <<ops, faults>>
  /\ op' = "off" /\ phase' = "none" /\ at' = "none"
  /\ goal' = NoRequest /\ before' = Default /\ aux' = NoAux
  /\ kept' = Default /\ hw' \in Forgets(hw)
  /\ UNCHANGED <<mode, disk, world>>

Unplug ==
  /\ plugged /\ op # "off" /\ Counted
  /\ plugged' = FALSE /\ hw' = [hw EXCEPT !.light = "dark"]
  /\ UNCHANGED <<reconnected, full, memory, disk, at, plan>>

Plug ==
  /\ ~plugged /\ plugged' = TRUE /\ reconnected' = TRUE
  /\ UNCHANGED <<hw, full, memory, disk, at, plan, bounds>>

Charge ==
  /\ Free /\ Counted /\ full' = ~full
  /\ UNCHANGED <<hw, plugged, reconnected, memory, disk, at, plan>>

Init ==
  /\ hw = [pl1 |-> Stock.balanced, ppd |-> "balanced", fw |-> "auto", ec |-> "auto",
           override |-> FALSE, limit |-> 100, overdrive |-> "off", light |-> "dark"]
  /\ plugged = TRUE /\ reconnected = FALSE /\ full \in BOOLEAN
  /\ kept = Default /\ mode = "rw"
  /\ file \in {Bad("missing"), Bad("corrupt"), Bad("unsupported"), Bad("unreadable")}
  /\ copied = FALSE /\ saved = FALSE
  /\ op = "off" /\ phase = "none" /\ at = "none"
  /\ goal = NoRequest /\ before = Default /\ aux = NoAux
  /\ ops = 0 /\ faults = 0 /\ stops = 0

Request ==
  \/ Apply \/ SetBatteryLimit \/ SetBatteryOneTimeCharge \/ SetPanelOverdrive
  \/ SetLighting \/ ReleaseFans \/ FactoryFanCurves
Step ==
  \/ Policy \/ Ppd \/ Lower \/ Fans \/ Drop \/ Power \/ Tune \/ Save \/ SaveFails
  \/ Look \/ AuxWrite \/ Commit \/ Compensate \/ Repair \/ Note \/ StockBack
  \/ RestorePanelOverdrive \/ RestoreBatteryPolicy \/ RestoreLighting \/ Disarm
  \/ ReleaseForSleep
Next ==
  \/ Request \/ Step \/ Observe \/ Suspend \/ Resume \/ Hotplug \/ Boot
  \/ Stops \/ Unplug \/ Plug \/ Charge

TransactionsSpec == Init /\ [][Next]_vars

----------------------------------------------------------------------------

(* The power never rises past the threshold before the fans that must      *)
(* carry it, whatever failed, is rolled back or restored on the way:       *)
(* apply_request, rollbacks, the factory query and the boot restore.       *)
RaiseNeedsProtection ==
  [][hw.pl1 < HighPower /\ hw'.pl1 >= HighPower /\ ~hw.override
       => FansOf(hw') = "locked"]_vars

(* A daemon at rest that does not call itself degraded has the power and   *)
(* the fans of the request it keeps, whichever operations failed since: a  *)
(* request's watts, or those of the BIOS where the fans moved after them.  *)
UndegradedMatchesHardware ==
  op = "idle" /\ ~kept.degraded /\ kept.desired # NoRequest =>
    LET r == kept.desired
    IN /\ hw.override = r.override
       /\ Required(hw.pl1, r.override) => FansOf(hw) = "locked"
       /\ r.curves => FansOf(hw) \in {"authored", "locked"}
       /\ ~r.curves /\ ~Required(hw.pl1, r.override) => FansOf(hw) = "auto"
       /\ SetsPower(r) => hw.pl1 \in {EffectivePl1(r), Stock[hw.ppd]}

Setting(k, d) ==
  CASE d = "limit" -> <<k.limit, k.onetime>>
    [] d = "overdrive" -> k.overdrive
    [] d = "light" -> k.light
    [] OTHER -> k.desired

InReach(d) == d \in {"limit", "overdrive"} \/ (d = "light" /\ plugged /\ ~reconnected)

(* A transaction is all or nothing in memory and in the hardware, or the   *)
(* daemon says it is degraded; what it did not change it leaves as it was  *)
(* found. The end of a one-time charge within an observation is held to    *)
(* the same.                                                               *)
TransactionsAreAtomic ==
  [][aux.dev # "none" /\ aux'.dev = "none" /\ op' # "off" /\ ~kept'.degraded =>
       \/ /\ Setting(kept', aux.dev) = Setting(aux.new, aux.dev)
          /\ InReach(aux.dev) => hw'[aux.dev] = aux.to
       \/ /\ Setting(kept', aux.dev) = Setting(aux.from, aux.dev)
          /\ InReach(aux.dev) => hw'[aux.dev] = aux.back]_vars

(* A restart would bring back the power request, the one-time charge and   *)
(* the light the daemon holds now: an error after the rename never leaves  *)
(* a rejected one on disk, unless the daemon says it is degraded or could  *)
(* not write at all. The battery limit and the overdrive are not compared: *)
(* an observation takes the hardware's for them without saving, so between *)
(* two saves memory is meant to differ from the file.                      *)
DurableAgrees ==
  op = "idle" /\ mode = "rw" /\ file.kind = "state" /\ ~kept.degraded =>
    LET Durable(k) == [desired |-> k.desired, onetime |-> k.onetime, light |-> k.light]
    IN Durable(file.is) = Durable(kept)

(* A file of a version or of contents the daemon cannot read is never      *)
(* written over, and a corrupt one only once it was copied aside.          *)
PreciousFileKept ==
  [][file' # file => /\ file.kind \notin {"unsupported", "unreadable"}
                     /\ file.kind = "corrupt" => copied]_vars

(* ARCHITECTURE.md:50 "Startup and resume restore ... the persistent       *)
(* battery policy"; :55 "The stored battery limit remains the normal       *)
(* slider value": a restore leaves the limit it is to restore alone. The   *)
(* code observes before it restores, and takes the hardware's for it.      *)
BatteryPolicySurvives ==
  [][(op \in Restores) /\ op' \in Restores /\ kept.limit # NoWatts
       => kept'.limit = kept.limit]_vars

=============================================================================
