----------------------------- MODULE FanControl -----------------------------
(***************************************************************************)
(* From a fan curve to a duty: the tables a profile starts from            *)
(* (profile.rs), the editor's drags and key presses (curve_editor.rs), the *)
(* copy that hardware gets at high power (curve.rs of the core), and the   *)
(* controller that turns a temperature into a duty four times a second     *)
(* (sensors.rs, curve.rs and service.rs of the daemon).                    *)
(*                                                                         *)
(* A curve is a tuple of points <<degrees C, PWM>>; its points count from  *)
(* 1. Times are milliseconds. The two fans share the temperature, each has *)
(* its curve, and the EC takes their duties one after the other. Operators *)
(* named Bug... are mistaken forms of the ones they precede; no            *)
(* specification uses them.                                                *)
(***************************************************************************)
EXTENDS Integers, SequencesExt

CONSTANTS
  Tables,      \* curves the editor may start from
  EditPoints,  \* <<fan, point>>: the points that are edited
  EditTemps, EditDuties, \* where the pointer goes; a duty may lie off the chart
  Sensors,     \* what the hwmon inputs may say
  Tunings,     \* [up, down: degrees, seconds: averaging]
  Gaps,        \* time between two ticks
  MaxEdits, MaxTicks \* bounds of the model

POINT_COUNT == 8
TEMP_MIN == 20
TEMP_MAX == 110
PWM_MIN == 0
PWM_MAX == 255
HIGH_POWER_THRESHOLD_W == 80
HIGH_POWER_POINT_TEMP_C == 80
HIGH_POWER_POINT_PWM == 204
HIGH_POWER_FINAL_TEMP_C == 90
RISE_PWM_PER_SECOND == 255
FALL_PWM_PER_SECOND == 102
MAX_CONSECUTIVE_EC_ERRORS == 3

Fans == 1..2
Points == 1..POINT_COUNT
NoTemperature == -1000000

VARIABLES
  authored,   \* the fans' curves in their editors
  edits,
  curves,     \* Controller.curves; empty while the EC is on automatic
  tuning,     \* Controller.hysteresis, temperature_average_seconds
  protected,  \* history: the installed copies are the high-power ones
  samples,    \* TemperatureAverager: age and value, oldest first
  inUse,      \* HysteresisState: the temperature in use and its direction
  duty,       \* last_duty of each fan, and duty_known: whether the EC has it
  elapsed,    \* time since last_ramp_at, when both fans were last served
  ecErrors,   \* consecutive_ec_errors
  hotFor,     \* history: how long readings have been over each limit
  ticks

editorVars == <<authored, edits>>
controllerVars == <<curves, tuning, protected, samples, inUse, duty, elapsed, ecErrors, hotFor, ticks>>
fanControlVars == <<editorVars, controllerVars>>

Clamp(v, low, high) == Max({low, Min({v, high})})

\* The nearest whole quotient, halves away from zero.
Rounded(n, d) == IF n >= 0 THEN (n + d \div 2) \div d ELSE -((d \div 2 - n) \div d)

----------------------------------------------------------------------------
(* Curves.                                                                 *)

Valid(c) ==
  /\ \A i \in Points : c[i][1] \in 0..120 /\ c[i][2] \in 0..255
  /\ \A i \in 2..POINT_COUNT : c[i][1] >= c[i-1][1] /\ c[i][2] >= c[i-1][2]

ASSUME FanControlAssumption ==
  /\ \A c \in Tables : c \in [Points -> Int \X Int] /\ Valid(c)
  /\ EditPoints \subseteq Fans \X Points /\ EditTemps \subseteq Int /\ EditDuties \subseteq Int
  /\ Tunings \subseteq [up : Nat, down : Nat, seconds : Nat] /\ Gaps \subseteq Nat

Clamped(p) == <<Clamp(p[1], TEMP_MIN, TEMP_MAX), Clamp(p[2], PWM_MIN, PWM_MAX)>>

\* A point pushed away from the one before it, or the one after it.
After(p, before) == <<IF p[1] <= before[1] THEN Min({before[1] + 1, TEMP_MAX}) ELSE p[1],
                      Max({p[2], before[2]})>>
Before(p, after) == <<IF p[1] >= after[1] THEN Max({after[1] - 1, TEMP_MIN}) ELSE p[1],
                      Min({p[2], after[2]})>>

EnforceCurve(c, index) ==
  LET bounded == LET p == Clamped(c[index]) IN
                 <<Clamp(p[1], TEMP_MIN + index - 1, TEMP_MAX - (POINT_COUNT - index)), p[2]>>
      forward[i \in Points] ==
        IF i < index THEN c[i] ELSE IF i = index THEN bounded
        ELSE Clamped(After(c[i], forward[i-1]))
      backward[i \in Points] ==
        IF i >= index THEN forward[i] ELSE Clamped(Before(c[i], backward[i+1]))
      settled[i \in Points] ==
        IF i = 1 THEN Clamped(backward[1]) ELSE After(Clamped(backward[i]), settled[i-1])
  IN [i \in Points |-> settled[i]]

ShiftCurveVertical(c, delta) ==
  [i \in Points |-> <<c[i][1], Clamp(c[i][2] + delta, PWM_MIN, PWM_MAX)>>]

PercentToPwm(percent) == (Clamp(percent, 0, 100) * 255) \div 100

FanProtectionRequired(pl1, disabled) == pl1 >= HIGH_POWER_THRESHOLD_W /\ ~disabled

\* A point pulled onto the lock keeps the duty it was authored with.
BugHighPowerCurve(c) ==
  LET lock == Max({c[POINT_COUNT-1][2], c[POINT_COUNT-2][2], HIGH_POWER_POINT_PWM})
      pulled(p, next) == <<Min({p[1], next[1]}), Min({p[2], next[2]})>>
      locked[i \in Points] ==
        IF i = POINT_COUNT THEN <<HIGH_POWER_FINAL_TEMP_C, PWM_MAX>>
        ELSE IF i = POINT_COUNT - 1 THEN <<HIGH_POWER_POINT_TEMP_C, lock>>
        ELSE pulled(c[i], locked[i+1])
  IN [i \in Points |-> locked[i]]

\* The lock at 80 and 90 degrees; the points below are pulled under it.
HighPowerCurve(c) ==
  LET lock == Max({c[POINT_COUNT-1][2], c[POINT_COUNT-2][2], HIGH_POWER_POINT_PWM})
      pulled(p, next) ==
        LET temp == Min({p[1], next[1]})
        IN <<temp, IF temp = HIGH_POWER_POINT_TEMP_C THEN lock ELSE Min({p[2], next[2]})>>
      locked[i \in Points] ==
        IF i = POINT_COUNT THEN <<HIGH_POWER_FINAL_TEMP_C, PWM_MAX>>
        ELSE IF i = POINT_COUNT - 1 THEN <<HIGH_POWER_POINT_TEMP_C, lock>>
        ELSE pulled(c[i], locked[i+1])
  IN [i \in Points |-> locked[i]]

DutyAt(c, millic) ==
  LET at(i) == c[i][1] * 1000
      i == Min({k \in 2..POINT_COUNT : millic <= at(k)})
  IN IF millic <= at(1) THEN c[1][2]
     ELSE IF millic >= at(POINT_COUNT) THEN c[POINT_COUNT][2]
     ELSE IF at(i) = at(i-1) THEN c[i][2]
     ELSE c[i-1][2] + Rounded((millic - at(i-1)) * (c[i][2] - c[i-1][2]), at(i) - at(i-1))

----------------------------------------------------------------------------
(* Readings.                                                               *)

COLDEST_MILLIC == -20000
HOTTEST_MILLIC == 150000
Credible(millic) == millic \in COLDEST_MILLIC..HOTTEST_MILLIC

\* The last input labelled as the APU's, else the first one.
ReadTemperature(inputs) ==
  LET labelled == {i \in DOMAIN inputs : inputs[i].label \in {"tctl", "tdie"}}
      read == IF inputs = <<>> THEN NoTemperature
              ELSE inputs[IF labelled = {} THEN 1 ELSE Max(labelled)].value
  IN IF Credible(read) THEN read ELSE NoTemperature

\* TemperatureAverager::update: the samples of the window, and their mean.
Window(seconds) == seconds * 1000
Sampled(older, gap, millic, seconds) ==
  LET aged == Append([i \in DOMAIN older |-> [older[i] EXCEPT !.age = @ + gap]],
                     [age |-> 0, value |-> millic])
      fresh == {i \in DOMAIN aged : aged[i].age < Window(seconds)}
  IN IF seconds = 0 THEN <<>> ELSE SubSeq(aged, Min(fresh), Len(aged))
Total(window) ==
  LET sum[i \in 0..Len(window)] == IF i = 0 THEN 0 ELSE sum[i-1] + window[i].value
  IN sum[Len(window)]
Mean(window, millic) ==
  IF window = <<>> THEN millic ELSE Rounded(Total(window), Len(window))

FirstHeld == [at |-> NoTemperature, direction |-> "none"]
HystereticTemperature(millic, up, down, state) ==
  LET next == IF millic > state.at THEN "rising" ELSE "falling"
      deadband == 1000 * (IF next = "rising" THEN up ELSE down)
      distance == Max({millic - state.at, state.at - millic})
  IN IF state.at = NoTemperature THEN [state EXCEPT !.at = millic]
     ELSE IF \/ millic = state.at
             \/ state.direction \notin {"none", next} /\ distance < deadband THEN state
     ELSE [at |-> millic, direction |-> next]

RampDuty(current, target, millis) ==
  LET step(rate) == Min({Max({(millis * rate + 999) \div 1000, 1}), 255})
  IN IF target > current THEN Min({current + step(RISE_PWM_PER_SECOND), target})
     ELSE Max({current - step(FALL_PWM_PER_SECOND), target})

----------------------------------------------------------------------------
(* The editor. A protected curve shows its last two points locked.         *)

NoDuty == [value |-> 0, known |-> FALSE]
NoDuties == [fan \in Fans |-> NoDuty]

FanControlInit ==
  /\ authored \in [Fans -> Tables] /\ edits = 0
  /\ curves = <<>> /\ samples = <<>> /\ inUse = FirstHeld /\ duty = NoDuties
  /\ elapsed = 0 /\ ecErrors = 0 /\ tuning \in Tunings /\ protected = FALSE
  /\ hotFor = [limit \in {80, 90} |-> 0] /\ ticks = 0

Editable(index, locked) == index < POINT_COUNT - 1 \/ ~locked

Edit(fan, new) ==
  /\ curves = <<>> /\ ticks = 0 /\ edits < MaxEdits /\ new # authored[fan]
  /\ authored' = [authored EXCEPT ![fan] = new] /\ edits' = edits + 1
  /\ UNCHANGED controllerVars

DragPoint(fan, index, temp, pwm) ==
  Edit(fan, EnforceCurve([authored[fan] EXCEPT ![index] = <<temp, pwm>>], index))

DragAll(fan, index, pwm) ==
  Edit(fan, ShiftCurveVertical(authored[fan], pwm - authored[fan][index][2]))

AdjustPoint(fan, index, degrees, percent) ==
  LET p == authored[fan][index]
      step == IF percent >= 0 THEN PercentToPwm(percent) ELSE -PercentToPwm(-percent)
      moved == Clamped(<<p[1] + degrees, p[2] + step>>)
  IN Edit(fan, EnforceCurve([authored[fan] EXCEPT ![index] = moved], index))

KeySteps == {<<-1, 0>>, <<5, 0>>, <<0, 1>>, <<0, -5>>}

EditCurve ==
  \E place \in EditPoints, locked \in BOOLEAN :
    LET fan == place[1]
        index == place[2]
    IN /\ Editable(index, locked)
       /\ \/ \E temp \in EditTemps, pwm \in EditDuties : DragPoint(fan, index, temp, pwm)
          \/ \E pwm \in EditDuties : DragAll(fan, index, pwm)
          \/ \E step \in KeySteps : AdjustPoint(fan, index, step[1], step[2])

----------------------------------------------------------------------------
(* The controller. Its EC writes may fail; the third failure in a row, or  *)
(* a reading that fails, gives the fans back to the EC. An installation    *)
(* that fails does the same, and is left out here.                         *)

\* The time to average out what came before, and to ramp from 0 to 255.
\* Nothing tells heat that lasts longer than a fan may be behind from more.
AnswerTime == Window(tuning.seconds) + 1000
Heat(millic, gap) ==
  hotFor' = [limit \in {80, 90} |->
               IF millic < (limit + tuning.up) * 1000 THEN 0
               ELSE Min({AnswerTime + elapsed', hotFor[limit] + gap})]

Release ==
  /\ curves' = <<>> /\ samples' = <<>> /\ inUse' = FirstHeld /\ duty' = NoDuties
  /\ elapsed' = 0 /\ ecErrors' = 0

\* tick_inner: the fans are served in order, and an unchanged duty is not
\* written. The first write that fails ends the pass: `served' fans come
\* before it, those behind it keep the duty they had.
Drive(c, millic, gap, force, served) ==
  LET window == Sampled(samples, gap, millic, tuning.seconds)
      used == HystereticTemperature(Mean(window, millic), tuning.up, tuning.down, inUse)
      target == [fan \in Fans |-> DutyAt(c[fan], used.at)]
      next == [fan \in Fans |-> IF force THEN target[fan]
                                ELSE RampDuty(duty[fan].value, target[fan], elapsed + gap)]
      failed == served + 1
      failing == failed \in Fans /\ ~(duty[failed].known /\ next[failed] = duty[failed].value)
      after(fan) == IF fan <= served THEN [value |-> next[fan], known |-> TRUE]
                    ELSE [duty[fan] EXCEPT !.known = @ /\ fan # failed]
  IN \/ /\ served = 2
        /\ curves' = c /\ samples' = window /\ inUse' = used
        /\ duty' = [fan \in Fans |-> after(fan)] /\ elapsed' = 0 /\ ecErrors' = 0
     \/ /\ failing /\ ecErrors + 1 < MAX_CONSECUTIVE_EC_ERRORS
        /\ curves' = c /\ samples' = window /\ inUse' = used
        /\ duty' = [fan \in Fans |-> after(fan)] /\ elapsed' = elapsed + gap
        /\ ecErrors' = ecErrors + 1
     \/ failing /\ ecErrors + 1 >= MAX_CONSECUTIVE_EC_ERRORS /\ Release

\* install_and_prime: enable takes the hardware copies, prime sets their targets.
Hardware(required) ==
  [fan \in Fans |-> IF required THEN HighPowerCurve(authored[fan]) ELSE authored[fan]]

Install(pl1, disabled, inputs) ==
  LET millic == ReadTemperature(inputs)
      required == FanProtectionRequired(pl1, disabled)
  IN /\ curves = <<>> /\ ticks = 0 /\ millic # NoTemperature
     /\ \A fan \in Fans : Valid(authored[fan])
     /\ Drive(Hardware(required), millic, 0, TRUE, 2)
     /\ protected' = required /\ Heat(millic, AnswerTime) /\ ticks' = 1
     /\ UNCHANGED <<tuning, editorVars>>

Tick(inputs, gap, served) ==
  LET millic == ReadTemperature(inputs)
  IN /\ curves # <<>> /\ ticks < MaxTicks /\ ticks' = ticks + 1
     /\ \/ millic = NoTemperature /\ Release /\ UNCHANGED hotFor
        \/ /\ millic # NoTemperature
           /\ Drive(curves, millic, gap, FALSE, served) /\ Heat(millic, gap)
     /\ UNCHANGED <<tuning, protected, editorVars>>

Control ==
  \/ \E pl1 \in {70, 80}, disabled \in BOOLEAN, inputs \in Sensors : Install(pl1, disabled, inputs)
  \/ \E inputs \in Sensors, gap \in Gaps, served \in 0..2 : Tick(inputs, gap, served)

FanControlNext == EditCurve \/ Control

FanControlSpec == FanControlInit /\ [][FanControlNext]_fanControlVars

----------------------------------------------------------------------------
(* Whatever is done in the editor, the curves it holds are some the daemon *)
(* accepts, and the high-power copy of each is one too that is never below *)
(* 80 % at 80 degrees and at full speed from 90 on, also between points.   *)
CurveIsSound(c) ==
  LET locked == HighPowerCurve(c)
  IN /\ Valid(c) /\ Valid(locked)
     /\ \A temp \in 80..120 : DutyAt(locked, temp * 1000)
                                >= IF temp < 90 THEN HIGH_POWER_POINT_PWM ELSE PWM_MAX
     /\ \A temp \in 20..110 : DutyAt(c, temp * 1000) <= DutyAt(c, temp * 1000 + 500)

\* A fan behind one whose write failed keeps a duty it is known to have, for
\* as long as the fan before it keeps failing, which two ticks may do.
Behind(fan) == IF \A first \in 1..fan : duty[first].known THEN 0 ELSE elapsed
BehindTwoTicks ==
  \E gap \in Gaps \cup {0} : elapsed <= (MAX_CONSECUTIVE_EC_ERRORS - 1) * gap

\* Once readings have stayed over a limit of the lock, by the deadband, for
\* as long as averaging and ramping may take, each fan has the duty of the
\* lock, or a write to it failed just now: no order of samples, reversals
\* and late ticks hides the heat, and a fan that is not reached because the
\* one before it failed is behind by two ticks at most.
HeatIsAnswered ==
  /\ BehindTwoTicks
  /\ curves # <<>> /\ protected =>
       \A fan \in Fans : duty[fan].known =>
         /\ hotFor[80] >= AnswerTime + Behind(fan) => duty[fan].value >= HIGH_POWER_POINT_PWM
         /\ hotFor[90] >= AnswerTime + Behind(fan) => duty[fan].value = PWM_MAX

\* A protected fan is fast when the APU is hot (high_power_curve and
\* tick_inner): the curve behind it is sound and heat is answered in time.
ProtectedFansAreFast ==
  /\ edits > 0 \/ ticks = 1 => \A fan \in Fans : CurveIsSound(authored[fan])
  /\ HeatIsAnswered
=============================================================================
