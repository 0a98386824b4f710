------------------------- MODULE TransactionsProofs -------------------------
(***************************************************************************)
(* Theorems about Transactions, for any requests, limits, lights and       *)
(* bounds. None of the properties is inductive: each speaks of an end of   *)
(* an operation, and what it needs of the middle is added part by part.    *)
(*                                                                         *)
(* 1. The types, and where an operation can be (Place). An action is       *)
(* guarded by its step alone; Place says of which operation it can be.     *)
(*                                                                         *)
(* 2. The power and the fans, one write at a time (Progress): what the     *)
(* steps of apply_request have already set when the next one is taken, so  *)
(* that the fans fit the power before it is written.                       *)
(*                                                                         *)
(* 3. The file: a store that may write has a file that may be replaced.    *)
(*                                                                         *)
(* 4. The books (Owned, Degrades): what a transaction took over it still   *)
(* owns, and the steps that only a failure leads to are degraded.          *)
(*                                                                         *)
(* 5. The file agrees with the memory (InSync), but where an operation is  *)
(* on its way to saving what it changed (Unsaved).                         *)
(*                                                                         *)
(* 6. A transaction is all or nothing (Written): what is committed was     *)
(* written, what is taken back was written back.                           *)
(*                                                                         *)
(* 7. The hardware is what is kept of it (MatchInv): wherever an operation *)
(* is not setting it to a request, through every rollback and restore.     *)
(***************************************************************************)
EXTENDS Transactions, TLAPS

(***************************************************************************)
(* Part 1. Types, and where an operation can be.                           *)
(***************************************************************************)

Profiles == {"balanced", "performance"}
Curves == {"auto", "authored", "locked"}

Hardware ==
  [pl1 : Nat, ppd : Profiles \cup {NoPpd}, fw : Curves, ec : Curves, override : BOOLEAN,
   limit : 0..100, overdrive : {"on", "off"}, light : Lights \cup {"dark", "none"}]

Wanted ==
  [ppd : Profiles \cup {NoPpd}, power : 0..93, mode : {"firmware", "direct", "none"},
   curves : BOOLEAN, override : BOOLEAN]

Keep ==
  [desired : Wanted, degraded : BOOLEAN, limit : 0..100, onetime : BOOLEAN,
   overdrive : {"unset", "on", "off"}, light : Lights \cup {"none"}]

Files ==
  [kind : {"state", "missing", "corrupt", "unsupported", "unreadable"}, is : Keep]

Change(device, values) ==
  [dev : {device}, to : values, back : values, from : Keep, new : Keep,
   why : {"none", "write", "save"}, again : BOOLEAN]
Changes ==
  Change("limit", 0..100) \cup Change("overdrive", {"on", "off"})
    \cup Change("light", Lights \cup {"none"}) \cup Change("fans", {"auto", "none"})

Types ==
  /\ hw \in Hardware /\ kept \in Keep /\ before \in Keep /\ goal \in Wanted
  /\ file \in Files /\ aux \in {NoAux} \cup Changes
  /\ plugged \in BOOLEAN /\ reconnected \in BOOLEAN /\ full \in BOOLEAN
  /\ mode \in {"rw", "ro"} /\ copied \in BOOLEAN

Mending == {"write", "commit", "compensate", "repair", "note"}
Moving == {"ppd", "lower", "fans", "drop", "power", "tune"}

Where(o, p, a) ==
  \/ a = "none" /\ o \in {"off", "idle", "asleep"} /\ p = "none"
  \/ a = "policy" /\ o \in Applies /\ p = "try"
  \/ a \in Moving /\ o \in Applies /\ p \in {"try", "undo", "back"}
  \/ a \in Moving \cup {"policy", "stock"} /\ o = "query" /\ p = "query"
  \/ a = "save" /\ o \in Applies /\ p \in {"try", "undo", "back", "again"}
  \/ a = "save" /\ o \in Restores \cup {"sleep"} /\ p = "none"
  \/ a = "save" /\ o = "query" /\ p = "worse"
  \/ a \in Mending \cup {"observe"} /\ o \in Applies /\ p \in {"try", "undo", "over"}
  \/ a \in Mending \cup {"observe"} /\ o \in Restores \cup {"observe", "sleep"} /\ p = "none"
  \/ a \in Mending \cup {"observe"} /\ o = "query" /\ p \in {"good", "worse"}
  \/ a \in Mending /\ o = "aux" /\ p = "none"
  \/ a \in {"panel", "battery", "light", "disarm"} /\ o \in Restores /\ p = "none"
  \/ a = "release" /\ o = "sleep" /\ p = "none"

Place ==
  /\ Where(op, phase, at)
  /\ aux.dev # "none" <=> at \in Mending
  /\ at = "stock" => goal.ppd # NoPpd

LEMMA StockProfiles ==
  DOMAIN Stock = Profiles /\ \A p \in Profiles : Stock[p] \in Nat /\ Stock[p] < HighPower
PROOF BY DEF Stock, Profiles, HighPower

LEMMA DefaultTypes == NoRequest \in Wanted /\ Default \in Keep /\ ~Default.degraded
PROOF BY DEF NoRequest, Default, Wanted, Keep, NoPpd, NoWatts

LEMMA RequestsWanted == Requests \subseteq Wanted /\ Limits \subseteq 0..100
<1>1. ApplyRequests \subseteq Wanted
  BY StockProfiles DEF ApplyRequests, Wanted, NoWatts
<1> QED BY <1>1, TransactionsAssumption DEF LimitRange

(* The writes of the hardware keep its type. *)
LEMMA BiosTypes ==
  ASSUME NEW h \in Hardware PROVE \A g \in BiosPower(h) : g \in Hardware
<1>1. CASE h.ppd = NoPpd
  BY <1>1 DEF BiosPower
<1>2. CASE h.ppd # NoPpd
  <2>1. Stock[h.ppd] \in Nat
    BY <1>2, StockProfiles DEF Hardware
  <2> QED BY <2>1 DEF BiosPower, Hardware
<1> QED BY <1>1, <1>2

LEMMA FanTypes ==
  ASSUME hw \in Hardware, NEW r \in Wanted
  PROVE  /\ SetFans(r) \in Hardware /\ SetFansHalf(r) \subseteq Hardware
         /\ Dropped \in Hardware /\ DroppedHalf \subseteq Hardware
         /\ LockedFirmware \in Hardware
<1>1. CurvesFor(r) \in Curves
  BY DEF CurvesFor, Curves
<1>2. Dropped \in Hardware /\ LockedFirmware \in Hardware
  BY DEF Dropped, LockedFirmware, Hardware, Curves
<1>5. [hw EXCEPT !.ec = "auto"] \in Hardware
  BY DEF Hardware, Curves
<1>6. DroppedHalf \subseteq Hardware
  BY <1>2, <1>5 DEF DroppedHalf
<1>3. SetFans(r) \in Hardware
  BY <1>1 DEF SetFans, Hardware, Curves
<1>4. SetFansHalf(r) \subseteq Hardware
  BY <1>1, <1>3 DEF SetFansHalf, Hardware, Curves
<1> QED BY <1>2, <1>3, <1>4, <1>6

LEMMA PowerTypes ==
  ASSUME NEW r \in Wanted PROVE EffectivePl1(r) \in Nat
PROOF BY StockProfiles DEF EffectivePl1, Wanted, NoPpd, NoWatts

LEMMA TargetTypes == ASSUME Types PROVE Target \in Wanted /\ WithPower \in Hardware
<1>1. Target \in Wanted
  BY DEF Types, Target, Keep
<1> QED BY <1>1, PowerTypes DEF Types, WithPower, Hardware

LEMMA KeepTypes ==
  ASSUME NEW k \in Keep
  PROVE  /\ Worse(k) \in Keep /\ Worse(k).degraded /\ Worse(k).desired = k.desired
         /\ \A r \in Wanted, b \in BOOLEAN : [k EXCEPT !.desired = r, !.degraded = b] \in Keep
         /\ \A n \in 0..100, b \in BOOLEAN : [k EXCEPT !.limit = n, !.onetime = b] \in Keep
         /\ \A n \in 0..100 : [k EXCEPT !.limit = n] \in Keep
         /\ \A b \in BOOLEAN : [k EXCEPT !.onetime = b] \in Keep
         /\ \A v \in {"on", "off"} : [k EXCEPT !.overdrive = v] \in Keep
         /\ \A l \in Lights : [k EXCEPT !.light = l] \in Keep
         /\ k.desired \in Wanted /\ k.limit \in 0..100 /\ k.onetime \in BOOLEAN
PROOF BY DEF Keep, Worse
(* How an operation goes on. *)
LEMMA ToStep ==
  ASSUME NEW a, To(a)
  PROVE  op' = op /\ phase' = phase /\ at' = a /\ aux' = NoAux /\ goal' = goal /\ before' = before
PROOF BY DEF To, Goes

LEMMA EndStep ==
  ASSUME Ends
  PROVE  /\ op' = "idle" /\ phase' = "none" /\ at' = "none" /\ aux' = NoAux
         /\ goal' = NoRequest /\ before' = Default
PROOF BY DEF Ends

(* What changes besides the hardware, the memory and the file. *)
PlanTypes == goal \in Wanted /\ before \in Keep /\ aux \in {NoAux} \cup Changes

LEMMA PlansKept ==
  ASSUME Types
  PROVE  /\ \A o, p, a : Goes(o, p, a) => PlanTypes'
         /\ \A a : To(a) => PlanTypes'
         /\ Ends => PlanTypes'
         /\ \A b : ApplyEnds(b) => PlanTypes'
<1>1. \A o, p, a : Goes(o, p, a) => PlanTypes'
  BY DEF Goes, Types, PlanTypes
<1>2. Ends => PlanTypes'
  BY DefaultTypes DEF Ends, PlanTypes
<1> QED BY <1>1, <1>2 DEF To, ApplyEnds

LEMMA FailedTypes ==
  ASSUME Types, NEW h \in Hardware, Failed(h), phase \in {"try", "undo", "back", "query"}
  PROVE  hw' \in Hardware /\ kept' \in Keep /\ PlanTypes'
<1>1. CommittedOverride(before) \in BOOLEAN /\ Worse(kept) \in Keep
  BY KeepTypes DEF CommittedOverride, Types, Wanted
<1>2. [h EXCEPT !.override = CommittedOverride(before)] \in Hardware
  BY <1>1 DEF Hardware
<1>3. CASE phase = "try"
  BY <1>1, <1>2, <1>3, PlansKept DEF Failed, Types
<1>4. CASE phase \in {"undo", "back", "query"}
  BY <1>1, <1>4, PlansKept DEF Failed, Types
<1> QED BY <1>3, <1>4

LEMMA AppliedTypes ==
  ASSUME Types, Applied, phase \in {"try", "undo", "back", "query"}
  PROVE  kept' \in Keep /\ PlanTypes'
<1>1. CASE phase = "try"
  <2>1. kept' = [kept EXCEPT !.desired = goal, !.degraded = FALSE] /\ To("observe")
    BY <1>1 DEF Applied
  <2>2. kept' \in Keep
    BY <2>1 DEF Types, Keep
  <2> QED BY <2>1, <2>2, PlansKept
<1>2. CASE phase \in {"undo", "back", "query"}
  BY <1>2, PlansKept, KeepTypes DEF Applied, Types
<1> QED BY <1>1, <1>2

(* What an observation makes of what is kept, and where it goes on. *)
LEMMA AfterObserveKeeps ==
  ASSUME Types, NEW k \in Keep, AfterObserve(k)
  PROVE  /\ kept' \in Keep
         /\ kept'.degraded = (k.degraded \/ phase = "worse")
         /\ kept'.desired = k.desired /\ kept'.limit = k.limit
         /\ kept'.onetime = k.onetime /\ kept'.light = k.light
<1>1. PICK value \in {k.overdrive, hw.overdrive} :
        kept' = [k EXCEPT !.overdrive = value, !.degraded = @ \/ phase = "worse"]
  BY DEF AfterObserve
<1>2. value \in {"unset", "on", "off"}
  BY DEF Types, Keep, Hardware
<1> QED BY <1>1, <1>2 DEF Keep

LEMMA AfterObserveTypes ==
  ASSUME Types, NEW k \in Keep, AfterObserve(k)
  PROVE  kept' \in Keep /\ PlanTypes'
<1>1. kept' \in Keep
  BY AfterObserveKeeps
<1>2. (goal' = k.desired /\ before' = kept' /\ aux' = NoAux) \/ PlanTypes'
  BY PlansKept DEF AfterObserve
<1> QED BY <1>1, <1>2 DEF PlanTypes, Keep

LEMMA OverrideTypes ==
  ASSUME NEW h \in Hardware, NEW set \in BOOLEAN
  PROVE  [h EXCEPT !.override = set] \in Hardware
BY DEF Hardware

(* Steps of an apply. *)
LEMMA TypesFromParts ==
  ASSUME Types, UNCHANGED <<world, mode, disk>>, hw' \in Hardware, kept' \in Keep, PlanTypes'
  PROVE  Types'
PROOF BY DEF Types, PlanTypes, world, disk

LEMMA PowerStepTypes ==
  ASSUME Types, NEW next, PowerStep(next), phase \in {"try", "undo", "back", "query"}
  PROVE  hw' \in Hardware /\ kept' \in Keep /\ PlanTypes'
<1>1. WithPower \in Hardware /\ hw \in Hardware
  BY TargetTypes DEF Types
<1>2. CASE hw' = WithPower /\ To(next) /\ UNCHANGED kept
  BY <1>1, <1>2, PlansKept DEF Types
<1>3. CASE \E h \in {hw, WithPower} : Failed(h)
  BY <1>1, <1>3, FailedTypes
<1> QED BY <1>2, <1>3 DEF PowerStep

LEMMA PhaseOfSetting ==
  ASSUME Place, at \in Moving \cup {"policy", "stock"}
  PROVE  phase \in {"try", "undo", "back", "query"}
PROOF BY DEF Place, Where, Moving, Mending, Restores

LEMMA ApplyTypes ==
  ASSUME Types, Place, Policy \/ Ppd \/ Lower \/ Fans \/ Drop \/ Power \/ Tune \/ StockBack
  PROVE  Types'
<1>1. hw \in Hardware /\ kept \in Keep /\ before \in Keep /\ Target \in Wanted
  BY TargetTypes DEF Types
<1>2. UNCHANGED <<world, mode, disk>>
  BY DEF Policy, Ppd, Lower, Fans, Drop, Power, Tune, StockBack
<1>3. phase \in {"try", "undo", "back", "query"}
  BY PhaseOfSetting DEF Policy, Ppd, Lower, Fans, Drop, Power, Tune, StockBack, Moving
<1>4. SUFFICES hw' \in Hardware /\ kept' \in Keep /\ PlanTypes'
  BY <1>2, TypesFromParts
<1>5. CASE Policy
  <2>1. Target.override \in BOOLEAN /\ CommittedOverride(before) \in BOOLEAN
    BY <1>1 DEF Wanted, CommittedOverride, Keep
  <2>2. /\ [hw EXCEPT !.override = Target.override] \in Hardware
        /\ [hw EXCEPT !.override = CommittedOverride(before)] \in Hardware
    BY <1>1, <2>1, OverrideTypes
  <2> QED BY <1>1, <1>3, <1>5, <2>1, <2>2, FailedTypes, PlansKept DEF Policy
<1>6. CASE Ppd
  <2> DEFINE chosen == IF Target.ppd = NoPpd THEN hw ELSE [hw EXCEPT !.ppd = Target.ppd]
  <2>1. chosen \in Hardware
    BY <1>1 DEF Hardware, Wanted
  <2>2. CASE hw' \in BiosPower(chosen) \cup {hw} /\ To(First(Target)) /\ UNCHANGED kept
    <3> HIDE DEF chosen
    <3> QED BY <1>1, <2>1, <2>2, BiosTypes, PlansKept
  <2>3. CASE Failed(hw)
    BY <1>1, <1>3, <2>3, FailedTypes
  <2> QED BY <1>6, <2>2, <2>3 DEF Ppd
<1>7. CASE Lower \/ Power
  BY <1>3, <1>7, PowerStepTypes DEF Lower, Power
<1>8. CASE Fans
  <2>1. CASE hw' \in BiosPower(SetFans(Target)) /\ To("power") /\ UNCHANGED kept
    BY <1>1, <2>1, FanTypes, BiosTypes, PlansKept
  <2>2. CASE \E h \in SetFansHalf(Target) : Failed(h)
    BY <1>1, <1>3, <2>2, FanTypes, FailedTypes
  <2> QED BY <1>8, <2>1, <2>2 DEF Fans
<1>9. CASE Drop
  <2>1. CASE hw' \in BiosPower(Dropped) /\ To("power") /\ UNCHANGED kept
    BY <1>1, <2>1, FanTypes, BiosTypes, PlansKept
  <2>2. CASE \E h \in DroppedHalf \cup {hw} : Failed(h)
    BY <1>1, <1>3, <2>2, FanTypes, FailedTypes
  <2> QED BY <1>9, <2>1, <2>2 DEF Drop
<1>10. CASE Tune
  BY <1>1, <1>3, <1>10, AppliedTypes, FailedTypes DEF Tune
<1>11. CASE StockBack
  <2>1. CASE hw' = [hw EXCEPT !.ppd = goal.ppd, !.pl1 = Stock[goal.ppd]]
    <3>1. goal.ppd \in Profiles
      BY <1>11 DEF StockBack, Place, Types, Wanted
    <3>2. Stock[goal.ppd] \in Nat
      BY <3>1, StockProfiles
    <3>3. hw' \in Hardware
      BY <1>1, <2>1, <3>1, <3>2 DEF Hardware
    <3> QED BY <1>1, <1>3, <1>11, <3>3, FailedTypes, PlansKept DEF StockBack
  <2> QED BY <1>1, <1>3, <1>11, <2>1, FailedTypes DEF StockBack
<1> QED BY <1>5, <1>6, <1>7, <1>8, <1>9, <1>10, <1>11

(* Writes of the file. *)
LEMMA SavedTypes ==
  ASSUME Types, NEW k \in Keep, Saved(k) \/ NotSaved(k)
  PROVE  file' \in Files /\ copied' \in BOOLEAN
<1>1. State(k) \in Files /\ file \in Files
  BY DEF State, Files, Types
<1> QED BY <1>1 DEF Saved, NotSaved, SaveRefused, SaveBroken, Types

LEMMA TypesFromSaves ==
  ASSUME Types, UNCHANGED <<world, mode>>, file' \in Files, copied' \in BOOLEAN,
         hw' \in Hardware, kept' \in Keep, PlanTypes'
  PROVE  Types'
PROOF BY DEF Types, PlanTypes, world

LEMMA SaveTypes ==
  ASSUME Types, Place, Save \/ SaveFails
  PROVE  Types'
<1>1. hw \in Hardware /\ kept \in Keep /\ before \in Keep /\ Worse(before) \in Keep
  BY KeepTypes DEF Types
<1>2. UNCHANGED <<world, mode>> /\ file' \in Files /\ copied' \in BOOLEAN
  BY <1>1, SavedTypes DEF Save, SaveFails, memory
<1>3. SUFFICES hw' \in Hardware /\ kept' \in Keep /\ PlanTypes'
  BY <1>2, TypesFromSaves
<1>4. \/ op \in Applies /\ phase \in {"try", "undo", "back", "again"} /\ at = "save"
      \/ op \in Restores \cup {"sleep", "query"} /\ phase \in {"none", "worse"} /\ at = "save"
  BY DEF Save, SaveFails, Place, Where, Moving, Mending
<1>5. CASE Save
  <2>1. UNCHANGED <<hw, kept>>
    BY <1>5 DEF Save, memory
  <2>2. PlanTypes'
    BY <1>5, PlansKept DEF Save
  <2> QED BY <1>1, <2>1, <2>2
<1>6. CASE SaveFails
  <2>1. CASE op \in Applies /\ phase = "try"
    <3>1. /\ hw' = [hw EXCEPT !.override = CommittedOverride(before)]
          /\ kept' \in {before, Worse(before)}
      BY <1>6, <2>1 DEF SaveFails, Applies, Restores
    <3>2. hw' \in Hardware
      <4>1. CommittedOverride(before) \in BOOLEAN
        BY <1>1 DEF CommittedOverride, Keep, Wanted
      <4> QED BY <1>1, <3>1, <4>1, OverrideTypes
    <3>3. PlanTypes'
      BY <1>6, <2>1, PlansKept DEF SaveFails
    <3> QED BY <1>1, <3>1, <3>2, <3>3
  <2>2. CASE ~(op \in Applies /\ phase = "try")
    <3>1. UNCHANGED <<hw, kept>> /\ PlanTypes'
      BY <1>4, <1>6, <2>2, PlansKept DEF SaveFails
    <3> QED BY <1>1, <3>1
  <2> QED BY <2>1, <2>2
<1> QED BY <1>5, <1>6

(* A change of one setting. *)
LEMMA ChangeTypes ==
  ASSUME NEW a \in Changes
  PROVE  /\ a.dev \in {"limit", "overdrive", "light", "fans"}
         /\ a.from \in Keep /\ a.new \in Keep /\ a.again \in BOOLEAN
         /\ \A w \in {"none", "write", "save"} : [a EXCEPT !.why = w] \in Changes
         /\ \A b \in BOOLEAN : [a EXCEPT !.again = b] \in Changes
<1>1. CASE a \in Change("limit", 0..100)
  BY <1>1 DEF Change, Changes
<1>2. CASE a \in Change("overdrive", {"on", "off"})
  BY <1>2 DEF Change, Changes
<1>3. CASE a \in Change("light", Lights \cup {"none"})
  BY <1>3 DEF Change, Changes
<1>4. CASE a \in Change("fans", {"auto", "none"})
  BY <1>4 DEF Change, Changes
<1> QED BY <1>1, <1>2, <1>3, <1>4 DEF Changes

LEMMA WithTypes ==
  ASSUME hw \in Hardware, aux \in Changes, aux.dev # "fans"
  PROVE  With(aux.to) \in Hardware /\ With(aux.back) \in Hardware
<1>1. CASE aux \in Change("limit", 0..100)
  BY <1>1 DEF Change, With, Hardware
<1>2. CASE aux \in Change("overdrive", {"on", "off"})
  BY <1>2 DEF Change, With, Hardware
<1>3. CASE aux \in Change("light", Lights \cup {"none"})
  BY <1>3 DEF Change, With, Hardware
<1> QED BY <1>1, <1>2, <1>3 DEF Changes, Change

LEMMA AuxEndTypes ==
  ASSUME Types, NEW k \in Keep, AuxEnds(k)
  PROVE  kept' \in Keep /\ PlanTypes'
PROOF BY AfterObserveTypes, PlansKept DEF AuxEnds

LEMMA MendingChanges ==
  ASSUME Types, Place, at \in Mending
  PROVE  aux \in Changes /\ aux.from \in Keep /\ aux.new \in Keep
<1>1. aux # NoAux
  BY DEF Place, NoAux
<1> QED BY <1>1, ChangeTypes DEF Types

LEMMA CompensationTypes ==
  ASSUME Types, aux \in Changes
  PROVE  Compensation.done \in Hardware /\ Compensation.half \subseteq Hardware
<1>1. hw \in Hardware /\ aux.from.desired \in Wanted
  BY ChangeTypes DEF Types, Keep
<1>2. FansBack.done \in Hardware /\ FansBack.half \subseteq Hardware
  BY <1>1, FanTypes DEF FansBack
<1>3. CASE aux.dev = "fans"
  BY <1>2, <1>3 DEF Compensation
<1>4. CASE aux.dev # "fans"
  BY <1>1, <1>4, WithTypes DEF Compensation
<1> QED BY <1>3, <1>4

LEMMA WhyTypes ==
  ASSUME Types, aux \in Changes, NEW w \in {"none", "write", "save"},
         aux' = [aux EXCEPT !.why = w], UNCHANGED <<goal, before>>
  PROVE  PlanTypes'
PROOF BY ChangeTypes DEF Types, PlanTypes

LEMMA AgainTypes ==
  ASSUME Types, aux \in Changes, NEW b \in BOOLEAN,
         aux' = [aux EXCEPT !.again = b], UNCHANGED <<goal, before>>
  PROVE  PlanTypes'
PROOF BY ChangeTypes DEF Types, PlanTypes

LEMMA PlanUnchanged ==
  ASSUME Types, UNCHANGED <<goal, before, aux>>
  PROVE  PlanTypes'
PROOF BY DEF Types, PlanTypes

LEMMA AuxWriteTypes == ASSUME Types, Place, AuxWrite PROVE Types'
<1>1. hw \in Hardware /\ kept \in Keep /\ aux \in Changes
  BY MendingChanges DEF Types, AuxWrite, Mending
<1>2. UNCHANGED <<world, mode, disk>> /\ kept' = kept
  BY DEF AuxWrite, memory
<1>3. SUFFICES hw' \in Hardware /\ PlanTypes'
  BY <1>1, <1>2, TypesFromParts
<1>4. CASE hw' \in Hardware /\ AuxTo("commit")
  BY <1>4, PlanUnchanged DEF AuxTo, plan
<1>5. CASE /\ hw' \in Hardware /\ aux' = [aux EXCEPT !.why = "write"]
           /\ UNCHANGED <<op, phase, goal, before>>
  BY <1>1, <1>5, WhyTypes
<1>6. CASE aux.dev = "fans"
  <2>1. Dropped \in Hardware /\ DroppedHalf \subseteq Hardware
    BY <1>1, FanTypes, DefaultTypes
  <2> QED BY <1>4, <1>5, <1>6, <2>1, BiosTypes DEF AuxWrite
<1>7. CASE aux.dev # "fans"
  <2>1. With(aux.to) \in Hardware
    BY <1>1, <1>7, WithTypes
  <2> QED BY <1>1, <1>4, <1>5, <1>7, <2>1 DEF AuxWrite
<1> QED BY <1>6, <1>7

LEMMA CommitTypes == ASSUME Types, Place, Commit PROVE Types'
<1>1. hw \in Hardware /\ kept \in Keep /\ aux \in Changes /\ aux.new \in Keep
  BY MendingChanges DEF Types, Commit, Mending
<1>2. UNCHANGED <<world, mode>> /\ hw' = hw /\ file' \in Files /\ copied' \in BOOLEAN
  BY <1>1, SavedTypes DEF Commit
<1>3. SUFFICES kept' \in Keep /\ PlanTypes'
  BY <1>1, <1>2, TypesFromSaves
<1>4. CASE AuxEnds(aux.new)
  BY <1>1, <1>4, AuxEndTypes
<1>5. CASE kept' = kept /\ aux' = [aux EXCEPT !.why = "save"] /\ UNCHANGED <<goal, before>>
  BY <1>1, <1>5, WhyTypes
<1> QED BY <1>4, <1>5 DEF Commit

(* The three ways a compensation goes on. *)
Compensated(h, good) ==
  /\ hw' = h
  /\ CASE aux.why = "save" ->
            /\ kept' = aux.from /\ at' = "repair"
            /\ aux' = [aux EXCEPT !.again = ~good]
            /\ UNCHANGED <<op, phase, goal, before>>
       [] aux.why = "write" /\ good -> AuxEnds(aux.from)
       [] OTHER -> kept' = Worse(aux.from) /\ AuxTo("note")

LEMMA CompensateSplit ==
  ASSUME Types, Place, Compensate
  PROVE  /\ aux \in Changes /\ aux.from \in Keep /\ at = "compensate"
         /\ UNCHANGED <<world, mode, disk>>
         /\ \/ /\ aux.dev = "fans"
               /\ \E h \in BiosPower(Compensation.done) : Compensated(h, Compensation.good)
            \/ aux.dev # "fans" /\ Compensated(Compensation.done, Compensation.good)
            \/ \E h \in Compensation.half : Compensated(h, FALSE)
<1>1. aux \in Changes /\ aux.from \in Keep /\ at = "compensate" /\ UNCHANGED <<world, mode, disk>>
  BY MendingChanges DEF Compensate, Mending
<1>2. \/ /\ aux.dev = "fans"
         /\ \E h \in BiosPower(Compensation.done) : Compensated(h, Compensation.good)
      \/ aux.dev # "fans" /\ Compensated(Compensation.done, Compensation.good)
      \/ \E h \in Compensation.half : Compensated(h, FALSE)
  BY Zenon DEF Compensate, Compensated
<1> QED BY <1>1, <1>2

LEMMA CompensatedTypes ==
  ASSUME Types, aux \in Changes, aux.from \in Keep, NEW h \in Hardware, NEW good \in BOOLEAN,
         Compensated(h, good)
  PROVE  hw' \in Hardware /\ kept' \in Keep /\ PlanTypes'
<1>1. hw' \in Hardware /\ Worse(aux.from) \in Keep
  BY KeepTypes DEF Compensated
<1>2. CASE aux.why = "save"
  <2>1. kept' = aux.from /\ aux' = [aux EXCEPT !.again = ~good] /\ UNCHANGED <<goal, before>>
    BY <1>2 DEF Compensated
  <2> QED BY <1>1, <2>1, AgainTypes
<1>3. CASE aux.why = "write" /\ good
  BY <1>1, <1>3, AuxEndTypes DEF Compensated
<1>4. CASE aux.why # "save" /\ ~(aux.why = "write" /\ good)
  <2>1. kept' = Worse(aux.from) /\ UNCHANGED <<goal, before, aux>>
    BY <1>4 DEF Compensated, AuxTo, plan
  <2> QED BY <1>1, <2>1, PlanUnchanged
<1> QED BY <1>2, <1>3, <1>4

LEMMA GoodTypes == ASSUME Types, aux \in Changes PROVE Compensation.good \in BOOLEAN
<1>1. FansBack.good \in BOOLEAN
  BY ChangeTypes DEF FansBack, Keep, Wanted
<1> QED BY <1>1, ChangeTypes DEF Compensation

LEMMA CompensateTypes == ASSUME Types, Place, Compensate PROVE Types'
<1>1. aux \in Changes /\ aux.from \in Keep /\ UNCHANGED <<world, mode, disk>>
  BY CompensateSplit
<1>2. Compensation.done \in Hardware /\ Compensation.half \subseteq Hardware
  BY <1>1, CompensationTypes
<1>3. SUFFICES hw' \in Hardware /\ kept' \in Keep /\ PlanTypes'
  BY <1>1, TypesFromParts
<1>4. \E h \in Hardware, good \in BOOLEAN : Compensated(h, good)
  BY <1>1, <1>2, BiosTypes, GoodTypes, CompensateSplit
<1> QED BY <1>1, <1>4, CompensatedTypes

LEMMA RepairTypes == ASSUME Types, Place, Repair \/ Note PROVE Types'
<1>1. hw \in Hardware /\ kept \in Keep /\ aux \in Changes /\ Worse(kept) \in Keep
  BY MendingChanges, KeepTypes DEF Types, Repair, Note, Mending
<1>2. UNCHANGED <<world, mode>> /\ hw' = hw /\ file' \in Files /\ copied' \in BOOLEAN
  BY <1>1, SavedTypes DEF Repair, Note
<1>3. SUFFICES kept' \in Keep /\ PlanTypes'
  BY <1>1, <1>2, TypesFromSaves
<1>4. CASE AuxEnds(kept)
  BY <1>1, <1>4, AuxEndTypes
<1>5. CASE /\ kept' \in {kept, Worse(kept)} /\ aux' = [aux EXCEPT !.again = FALSE]
           /\ UNCHANGED <<goal, before>>
  BY <1>1, <1>5, AgainTypes
<1>6. CASE kept' = Worse(kept) /\ UNCHANGED <<goal, before, aux>>
  BY <1>1, <1>6, PlanUnchanged
<1>7. CASE Repair
  BY <1>4, <1>5, <1>6, <1>7 DEF Repair, AuxTo, plan
<1>8. CASE Note
  BY <1>4, <1>5, <1>8 DEF Note
<1> QED BY <1>7, <1>8

(* The reading of an observation, and the change that ends a one-time      *)
(* charge.                                                                 *)
LEMMA ReadKeeps ==
  ASSUME Types
  PROVE  /\ Read(kept) \in Keep /\ Read(kept).desired = kept.desired
         /\ Read(kept).degraded = kept.degraded /\ Read(kept).onetime = kept.onetime
         /\ Read(kept).light = kept.light
PROOF BY DEF Types, Read, Keep, Hardware

ChargeEnds(k) ==
  [dev |-> "limit", to |-> k.limit, back |-> hw.limit, from |-> k,
   new |-> [k EXCEPT !.onetime = FALSE], why |-> "none", again |-> FALSE]

LEMMA LookSplit ==
  ASSUME Look
  PROVE  \E k \in {kept, Read(kept)} :
           \/ /\ k.onetime /\ kept' = k /\ at' = "write" /\ aux' = ChargeEnds(k)
              /\ UNCHANGED <<op, phase, goal, before>>
           \/ AfterObserve(k)
PROOF BY Zenon DEF Look, ChargeEnds

LEMMA ChargeEndTypes ==
  ASSUME Types, NEW k \in Keep PROVE ChargeEnds(k) \in Changes /\ ChargeEnds(k).dev = "limit"
<1>1. ChargeEnds(k) \in Change("limit", 0..100)
  BY DEF Types, ChargeEnds, Change, Keep, Hardware
<1> QED BY <1>1 DEF Changes, ChargeEnds

LEMMA LookTypes == ASSUME Types, Place, Look PROVE Types'
<1>1. hw \in Hardware /\ kept \in Keep /\ Read(kept) \in Keep
  BY ReadKeeps DEF Types
<1>2. UNCHANGED <<world, mode, disk>> /\ hw' = hw
  BY DEF Look
<1>3. SUFFICES kept' \in Keep /\ PlanTypes'
  BY <1>1, <1>2, TypesFromParts
<1>4. PICK k \in Keep :
        \/ kept' = k /\ aux' = ChargeEnds(k) /\ UNCHANGED <<goal, before>>
        \/ AfterObserve(k)
  BY <1>1, LookSplit
<1>5. CASE AfterObserve(k)
  BY <1>5, AfterObserveTypes
<1>6. CASE kept' = k /\ aux' = ChargeEnds(k) /\ UNCHANGED <<goal, before>>
  <2>1. aux' \in Changes
    BY <1>6, ChargeEndTypes
  <2>2. goal' \in Wanted /\ before' \in Keep
    BY <1>6 DEF Types
  <2> QED BY <1>6, <2>1, <2>2 DEF PlanTypes
<1> QED BY <1>4, <1>5, <1>6

(* A write of what firmware may have lost. *)
LEMMA PartTypes ==
  ASSUME Types, NEW part, NEW due \in BOOLEAN, NEW h, due => h \in Hardware, Part(part, due, h)
  PROVE  Types'
<1>1. hw \in Hardware /\ kept \in Keep /\ Worse(kept) \in Keep
  BY KeepTypes DEF Types
<1>2. hw' \in Hardware /\ kept' \in Keep
  BY <1>1 DEF Part
<1>3. PlanTypes' /\ UNCHANGED <<world, mode, disk>>
  BY PlansKept DEF Part
<1> QED BY <1>2, <1>3, TypesFromParts

LEMMA RestoreTypes ==
  ASSUME Types, Place, RestorePanelOverdrive \/ RestoreBatteryPolicy \/ RestoreLighting
  PROVE  Types'
<1>1. hw \in Hardware /\ kept \in Keep
  BY DEF Types
<1>2. CASE RestorePanelOverdrive
  <2>1. kept.overdrive # "unset" => [hw EXCEPT !.overdrive = kept.overdrive] \in Hardware
    BY <1>1 DEF Keep, Hardware
  <2> QED BY <1>2, <2>1, PartTypes DEF RestorePanelOverdrive
<1>3. CASE RestoreBatteryPolicy
  <2>1. LimitFor(kept.onetime, kept.limit) \in 0..100
    BY <1>1 DEF LimitFor, Keep
  <2>2. \A n \in 0..100 : [hw EXCEPT !.limit = n] \in Hardware
    BY <1>1 DEF Hardware
  <2>3. LimitFor(kept.onetime, kept.limit) # NoWatts
        => Part("battery", TRUE, [hw EXCEPT !.limit = LimitFor(kept.onetime, kept.limit)])
    BY <1>3 DEF RestoreBatteryPolicy
  <2>4. LimitFor(kept.onetime, kept.limit) = NoWatts
        => Part("battery", hw.limit \notin LimitRange, [hw EXCEPT !.limit = 100])
    BY <1>3 DEF RestoreBatteryPolicy
  <2>5. CASE LimitFor(kept.onetime, kept.limit) # NoWatts
    BY <2>1, <2>2, <2>3, <2>5, PartTypes
  <2>6. CASE LimitFor(kept.onetime, kept.limit) = NoWatts
    <3>1. (hw.limit \notin LimitRange) \in BOOLEAN /\ [hw EXCEPT !.limit = 100] \in Hardware
      BY <2>2
    <3> QED BY <2>4, <2>6, <3>1, PartTypes
  <2> QED BY <2>5, <2>6
<1>4. CASE RestoreLighting
  <2>1. kept.light # "none" => [hw EXCEPT !.light = kept.light] \in Hardware
    BY <1>1 DEF Keep, Hardware
  <2>2. plugged \in BOOLEAN
    BY DEF Types
  <2> QED BY <1>4, <2>1, <2>2, PartTypes DEF RestoreLighting
<1> QED BY <1>2, <1>3, <1>4

LEMMA DisarmTypes == ASSUME Types, Disarm \/ ReleaseForSleep PROVE Types'
<1>1. hw \in Hardware /\ kept \in Keep /\ Worse(kept) \in Keep
  BY KeepTypes DEF Types
<1>2. [hw EXCEPT !.ec = "auto"] \in Hardware
  BY <1>1 DEF Hardware, Curves
<1>3. hw' \in Hardware /\ kept' \in Keep
  BY <1>1, <1>2 DEF Disarm, ReleaseForSleep
<1>4. PlanTypes' /\ UNCHANGED <<world, mode, disk>>
  BY PlansKept DEF Disarm, ReleaseForSleep
<1> QED BY <1>3, <1>4, TypesFromParts

(* The beginning of an operation. *)
LEMMA BeginTypes ==
  ASSUME Types, NEW d, NEW v, NEW b, NEW n, Begin(d, v, b, n),
         [dev |-> d, to |-> v, back |-> b, from |-> kept, new |-> n,
          why |-> "none", again |-> FALSE] \in Changes
  PROVE  Types'
<1>1. UNCHANGED <<world, mode, disk>> /\ hw' = hw /\ kept' = kept
  BY DEF Begin, memory
<1>2. PlanTypes'
  BY DEF Begin, Types, PlanTypes
<1> QED BY <1>1, <1>2, TypesFromParts DEF Types

Released(r) ==
  IF r = NoRequest THEN r ELSE [r EXCEPT !.curves = FALSE, !.mode = "firmware"]

LEMMA ChangeBeginsTypes ==
  ASSUME Types, SetBatteryLimit \/ SetBatteryOneTimeCharge \/ SetPanelOverdrive
                \/ SetLighting \/ ReleaseFans
  PROVE  Types'
<1>1. hw \in Hardware /\ kept \in Keep /\ kept.limit \in 0..100 /\ hw.limit \in 0..100
      /\ hw.overdrive \in {"on", "off"} /\ kept.light \in Lights \cup {"none"}
  BY DEF Types, Keep, Hardware
<1> DEFINE C(d, v, b, n) == [dev |-> d, to |-> v, back |-> b, from |-> kept, new |-> n,
                             why |-> "none", again |-> FALSE]
<1>2. CASE SetBatteryLimit
  <2>1. PICK limit \in Limits :
          Begin("limit", LimitFor(kept.onetime, limit), hw.limit, [kept EXCEPT !.limit = limit])
    BY <1>2 DEF SetBatteryLimit
  <2>2. limit \in 0..100
    BY RequestsWanted
  <2>5. LimitFor(kept.onetime, limit) \in 0..100
    BY <2>2 DEF LimitFor
  <2>3. [kept EXCEPT !.limit = limit] \in Keep /\ LimitFor(kept.onetime, limit) \in 0..100
    BY <1>1, <2>2, <2>5 DEF Keep
  <2>4. C("limit", LimitFor(kept.onetime, limit), hw.limit, [kept EXCEPT !.limit = limit])
          \in Change("limit", 0..100)
    BY <1>1, <2>3 DEF Change
  <2> QED BY <2>1, <2>4, BeginTypes DEF Changes
<1>3. CASE SetBatteryOneTimeCharge
  <2> DEFINE normal == IF kept.limit = NoWatts THEN hw.limit ELSE kept.limit
  <2>1. PICK enabled \in BOOLEAN :
          Begin("limit", LimitFor(enabled, normal), hw.limit,
                [kept EXCEPT !.limit = normal, !.onetime = enabled])
    BY <1>3 DEF SetBatteryOneTimeCharge
  <2>2. normal \in 0..100
    BY <1>1
  <2> HIDE DEF normal
  <2>5. LimitFor(enabled, normal) \in 0..100
    BY <2>2 DEF LimitFor
  <2>3. /\ [kept EXCEPT !.limit = normal, !.onetime = enabled] \in Keep
        /\ LimitFor(enabled, normal) \in 0..100
    BY <1>1, <2>2, <2>5 DEF Keep
  <2>4. C("limit", LimitFor(enabled, normal), hw.limit,
          [kept EXCEPT !.limit = normal, !.onetime = enabled]) \in Change("limit", 0..100)
    BY <1>1, <2>3 DEF Change
  <2> QED BY <2>1, <2>4, BeginTypes DEF Changes
<1>4. CASE SetPanelOverdrive
  <2>1. PICK value \in {"on", "off"} :
          Begin("overdrive", value, hw.overdrive, [kept EXCEPT !.overdrive = value])
    BY <1>4 DEF SetPanelOverdrive
  <2>2. C("overdrive", value, hw.overdrive, [kept EXCEPT !.overdrive = value])
          \in Change("overdrive", {"on", "off"})
    BY <1>1, KeepTypes DEF Change
  <2> QED BY <2>1, <2>2, BeginTypes DEF Changes
<1>5. CASE SetLighting
  <2>1. PICK state \in Lights :
          Begin("light", state, kept.light, [kept EXCEPT !.light = state])
    BY <1>5 DEF SetLighting
  <2>2. C("light", state, kept.light, [kept EXCEPT !.light = state])
          \in Change("light", Lights \cup {"none"})
    BY <1>1, KeepTypes DEF Change
  <2> QED BY <2>1, <2>2, BeginTypes DEF Changes
<1>6. CASE ReleaseFans
  <2>1. Begin("fans", "auto", "none", [kept EXCEPT !.desired = Released(kept.desired)])
    BY <1>1, <1>6 DEF ReleaseFans, Released, Keep
  <2>2. Released(kept.desired) \in Wanted
    BY <1>1, DefaultTypes DEF Released, Keep, Wanted
  <2>3. [kept EXCEPT !.desired = Released(kept.desired)] \in Keep
    BY <1>1, <2>2 DEF Keep
  <2>4. C("fans", "auto", "none", [kept EXCEPT !.desired = Released(kept.desired)])
          \in Change("fans", {"auto", "none"})
    BY <1>1, <2>3 DEF Change
  <2> QED BY <2>1, <2>4, BeginTypes DEF Changes
<1> QED BY <1>2, <1>3, <1>4, <1>5, <1>6

LEMMA ForgetsTypes ==
  ASSUME hw \in Hardware PROVE Forgets(hw) \subseteq Hardware
<1> DEFINE Lost(l) == [hw EXCEPT !.pl1 = Stock.balanced, !.fw = "auto", !.ec = "auto",
                                 !.limit = l, !.overdrive = "off", !.light = "dark"]
<1>1. Stock.balanced \in Nat
  BY DEF Stock
<1>2. ASSUME NEW l \in {0, 100} PROVE Lost(l) \in Hardware
  <2>1. l \in 0..100 /\ Stock.balanced \in Nat
    BY <1>1
  <2> QED BY <2>1 DEF Hardware, Curves
<1>3. Forgets(hw) = {hw} \cup {Lost(l) : l \in {0, 100}}
  BY DEF Forgets
<1> QED BY <1>2, <1>3

LEMMA StartTypes ==
  ASSUME Types, Apply \/ FactoryFanCurves \/ Observe \/ Suspend \/ Resume
  PROVE  Types'
<1>1. /\ hw \in Hardware /\ kept \in Keep /\ kept.desired \in Wanted
      /\ aux \in {NoAux} \cup Changes
  BY DEF Types, Keep
<1>2. CASE Apply
  <2>1. goal' \in Wanted /\ before' = kept /\ aux' = aux /\ hw' = hw /\ kept' = kept
    BY <1>2, RequestsWanted DEF Apply, memory
  <2>2. PlanTypes' /\ UNCHANGED <<world, mode, disk>>
    BY <1>1, <1>2, <2>1 DEF Apply, PlanTypes, memory
  <2> QED BY <1>1, <2>1, <2>2, TypesFromParts
<1>3. CASE FactoryFanCurves
  <2>1. UNCHANGED <<world, mode, disk>> /\ kept' = kept
    BY <1>3 DEF FactoryFanCurves, memory
  <2>2. PICK p \in Profiles :
          \E h \in BiosPower([hw EXCEPT !.ppd = p]) \cup {hw} :
            hw' \in {h, [h EXCEPT !.fw = "auto"]}
    BY <1>3, StockProfiles DEF FactoryFanCurves
  <2>3. [hw EXCEPT !.ppd = p] \in Hardware
    BY <1>1 DEF Hardware
  <2>4. PICK h \in Hardware : hw' \in {h, [h EXCEPT !.fw = "auto"]}
    BY <1>1, <2>2, <2>3, BiosTypes
  <2>5. hw' \in Hardware
    BY <2>4 DEF Hardware, Curves
  <2>6. [NoRequest EXCEPT !.ppd = hw.ppd] \in Wanted
    BY <1>1, DefaultTypes DEF Hardware, Wanted
  <2>7. PlanTypes'
    BY <1>1, <1>3, <2>6 DEF FactoryFanCurves, PlanTypes
  <2> QED BY <1>1, <2>1, <2>5, <2>7, TypesFromParts
<1>4. CASE Observe
  BY <1>1, <1>4, PlansKept, TypesFromParts DEF Observe, memory
<1>5. CASE Suspend
  BY <1>1, <1>5, PlansKept, TypesFromParts DEF Suspend, memory
<1>6. CASE Resume
  <2>1. UNCHANGED <<world, mode, disk>> /\ kept' = kept /\ hw' \in Hardware
    BY <1>1, <1>6, ForgetsTypes DEF Resume, memory
  <2>2. PlanTypes'
    BY <1>1, <1>6 DEF Resume, PlanTypes
  <2> QED BY <1>1, <2>1, <2>2, TypesFromParts
<1> QED BY <1>2, <1>3, <1>4, <1>5, <1>6

LEMMA WorldTypes ==
  ASSUME Types, Hotplug \/ Boot \/ Stops \/ Unplug \/ Plug \/ Charge
  PROVE  Types'
<1>1. hw \in Hardware /\ kept \in Keep /\ Worse(kept) \in Keep /\ file.is \in Keep
  BY KeepTypes DEF Types, Files
<1>2. CASE Hotplug
  <2>1. kept.light # "none" => [hw EXCEPT !.light = kept.light] \in Hardware
    BY <1>1 DEF Keep, Hardware
  <2>2. hw' \in Hardware /\ kept' \in Keep
    BY <1>1, <1>2, <2>1 DEF Hotplug
  <2> QED BY <1>2, <2>2 DEF Hotplug, Types, disk, plan
<1>3. CASE Boot
  <2>1. hw' \in Hardware
    BY <1>1, <1>3 DEF Boot, Hardware, Curves
  <2>2. PlanTypes' /\ UNCHANGED <<plugged, full, file>> /\ reconnected' \in BOOLEAN
    BY <1>3, PlansKept DEF Boot
  <2>3. Loaded \in {"ro", "rw"}
    BY DEF Loaded
  <2>4. kept' \in Keep /\ mode' \in {"ro", "rw"} /\ copied' \in BOOLEAN
    BY <1>1, <1>3, <2>3, DefaultTypes DEF Boot, Types, Files
  <2> QED BY <2>1, <2>2, <2>4 DEF Types, PlanTypes
<1>4. CASE Stops
  <2>1. hw' \in Hardware
    BY <1>1, <1>4, ForgetsTypes DEF Stops
  <2> QED BY <1>4, <2>1, DefaultTypes DEF Stops, Types, disk, world
<1>5. CASE Unplug
  <2>1. hw' \in Hardware
    BY <1>1, <1>5 DEF Unplug, Hardware
  <2> QED BY <1>5, <2>1 DEF Unplug, Types, memory, disk, plan
<1>6. CASE Plug
  BY <1>6 DEF Plug, Types, memory, disk, plan
<1>7. CASE Charge
  BY <1>7 DEF Charge, Types, memory, disk, plan
<1> QED BY <1>2, <1>3, <1>4, <1>5, <1>6, <1>7

LEMMA TypesStart == Init => Types
<1> SUFFICES ASSUME Init PROVE Types
  OBVIOUS
<1>1. hw \in Hardware
  BY DEF Init, Hardware, Stock, Profiles, Curves
<1>2. file \in Files
  BY DefaultTypes DEF Init, Bad, Files
<1> QED BY <1>1, <1>2, DefaultTypes DEF Init, Types

LEMMA TypesHold == ASSUME Types, Place, [Next]_vars PROVE Types'
<1>1. CASE Next
  BY <1>1, ApplyTypes, SaveTypes, LookTypes, AuxWriteTypes, CommitTypes, CompensateTypes,
     RepairTypes, RestoreTypes, DisarmTypes, ChangeBeginsTypes, StartTypes, WorldTypes
     DEF Next, Request, Step
<1>2. CASE UNCHANGED vars
  BY <1>2 DEF vars, world, memory, disk, plan, Types
<1> QED BY <1>1, <1>2

(***************************************************************************)
(* An operation is always at one of its own steps.                         *)
(***************************************************************************)
LEMMA WhereTo ==
  ASSUME NEW a, To(a), Where(op, phase, a), a \notin Mending \cup {"stock"}
  PROVE  Place'
PROOF BY DEF To, Goes, Place, NoAux

LEMMA WhereGoes ==
  ASSUME NEW o, NEW p, NEW a, Goes(o, p, a), Where(o, p, a), a \notin Mending \cup {"stock"}
  PROVE  Place'
PROOF BY DEF Goes, Place, NoAux

LEMMA WhereEnds == ASSUME Ends PROVE Place'
PROOF BY DEF Ends, Place, Where, Mending, NoAux

LEMMA WhereApplyEnds ==
  ASSUME NEW b \in BOOLEAN, ApplyEnds(b), op \in Applies PROVE Place'
<1>1. CASE op = "apply"
  BY <1>1, WhereEnds DEF ApplyEnds
<1>2. CASE op \in Restores
  BY <1>2, WhereGoes DEF ApplyEnds, Where, Mending, Restores
<1> QED BY <1>1, <1>2 DEF Applies

(* The two operations that set the hardware to a request. *)
Setter ==
  \/ op \in Applies /\ phase \in {"try", "undo", "back"}
  \/ op = "query" /\ phase = "query"

LEMMA WhereMoving ==
  ASSUME Place, at \in Moving \cup {"policy", "stock"}
  PROVE  /\ Setter
         /\ at = "policy" => phase \in {"try", "query"}
         /\ \A a \in Moving : Where(op, phase, a)
PROOF BY DEF Place, Where, Setter, Moving, Mending, Restores, Applies

LEMMA WhereFailed ==
  ASSUME NEW h, Failed(h), Setter PROVE Place'
<1>1. CASE phase = "try"
  BY <1>1, WhereGoes DEF Failed, Setter, Where, Mending, Moving, Applies, Restores
<1>2. CASE phase = "undo" \/ phase = "back"
  BY <1>2, WhereTo DEF Failed, Setter, Where, Mending, Moving, Applies, Restores
<1>3. CASE phase = "query"
  BY <1>3, WhereGoes DEF Failed, Setter, Where, Mending, Moving, Applies, Restores
<1> QED BY <1>1, <1>2, <1>3 DEF Setter

LEMMA WhereApplied ==
  ASSUME Applied, Setter PROVE Place'
<1>1. CASE phase \in {"try", "undo", "back"}
  BY <1>1, WhereTo DEF Applied, Setter, Where, Mending, Moving, Applies, Restores
<1>2. CASE phase = "query"
  BY <1>2, WhereGoes DEF Applied, Setter, Where, Mending, Moving, Applies, Restores
<1> QED BY <1>1, <1>2 DEF Setter

LEMMA ApplyPlaces ==
  ASSUME Place, Policy \/ Ppd \/ Lower \/ Fans \/ Drop \/ Power \/ Tune \/ StockBack
  PROVE  Place'
<1>1. /\ Setter /\ \A a \in Moving : Where(op, phase, a)
      /\ at = "policy" => phase \in {"try", "query"}
  BY WhereMoving DEF Policy, Ppd, Lower, Fans, Drop, Power, Tune, StockBack, Moving
<1>2. ASSUME NEW a \in Moving, To(a) PROVE Place'
  BY <1>1, <1>2, WhereTo DEF Moving, Mending
<1>3. ASSUME NEW h, Failed(h) PROVE Place'
  BY <1>1, <1>3, WhereFailed
<1>4. ASSUME NEW next \in Moving, PowerStep(next) PROVE Place'
  BY <1>2, <1>3, <1>4 DEF PowerStep
<1>5. CASE Policy
  <2>1. phase # "query" => op \in Applies
    BY <1>1 DEF Setter
  <2> QED BY <1>2, <1>3, <1>5, <2>1, WhereApplyEnds DEF Policy, Moving
<1>6. CASE Ppd
  BY <1>2, <1>3, <1>6 DEF Ppd, First, Moving
<1>7. CASE Lower
  BY <1>4, <1>7 DEF Lower, FanStep, Moving
<1>8. CASE Fans
  BY <1>2, <1>3, <1>8 DEF Fans, Moving
<1>9. CASE Drop
  BY <1>2, <1>3, <1>9 DEF Drop, Moving
<1>10. CASE Power
  BY <1>4, <1>10 DEF Power, Moving
<1>11. CASE Tune
  BY <1>1, <1>3, <1>11, WhereApplied DEF Tune
<1>12. CASE StockBack
  <2>1. CASE Goes(op, "good", "observe")
    <3>1. op = "query"
      BY <1>12 DEF StockBack, Place, Where, Moving, Mending
    <3> QED BY <2>1, <3>1, WhereGoes DEF Where, Mending
  <2> QED BY <1>3, <1>12, <2>1 DEF StockBack
<1> QED BY <1>5, <1>6, <1>7, <1>8, <1>9, <1>10, <1>11, <1>12

LEMMA SavePlaces ==
  ASSUME Place, Save \/ SaveFails PROVE Place'
<1>1. \/ op \in Applies /\ phase \in {"try", "undo", "back", "again"}
      \/ op \in Restores /\ phase = "none"
      \/ op = "sleep" /\ phase = "none"
      \/ op = "query" /\ phase = "worse"
  BY DEF Save, SaveFails, Place, Where, Moving, Mending
<1>2. ASSUME NEW p \in {"again", "back"}, Goes(op, p, "save"), op \in Applies PROVE Place'
  BY <1>2, WhereGoes DEF Where, Mending
<1>3. ASSUME Goes(op, "over", "observe"), op \in Applies PROVE Place'
  BY <1>3, WhereGoes DEF Where, Mending
<1>4. ASSUME Goes(op, "back", "ppd"), op \in Applies PROVE Place'
  BY <1>4, WhereGoes DEF Where, Moving, Mending
<1>5. ASSUME To("battery"), op = "boot", phase = "none" PROVE Place'
  BY <1>5, WhereTo DEF Where, Restores, Mending
<1>6. ASSUME Goes("asleep", "none", "none") PROVE Place'
  BY <1>6, WhereGoes DEF Where, Mending
<1>7. CASE Save
  <2>1. CASE op \in Applies /\ phase # "none"
    BY <1>1, <1>3, <1>7, <2>1, WhereApplyEnds DEF Save, Applies, Restores
  <2>2. CASE ~(op \in Applies /\ phase # "none")
    BY <1>1, <1>5, <1>6, <1>7, <2>2, WhereEnds DEF Save, Applies, Restores
  <2> QED BY <2>1, <2>2
<1>8. CASE SaveFails
  <2>1. CASE op \in Applies /\ phase # "none"
    BY <1>1, <1>2, <1>3, <1>4, <1>8, <2>1, WhereApplyEnds DEF SaveFails, Applies, Restores
  <2>2. CASE ~(op \in Applies /\ phase # "none")
    BY <1>1, <1>5, <1>6, <1>8, <2>2, WhereEnds DEF SaveFails, Applies, Restores
  <2> QED BY <2>1, <2>2
<1> QED BY <1>7, <1>8

(* Where an observation can happen. *)
Observing ==
  \/ op \in Applies /\ phase \in {"try", "undo", "over"}
  \/ op \in Restores \cup {"observe", "sleep"} /\ phase = "none"
  \/ op = "query" /\ phase \in {"good", "worse"}

LEMMA WhereObserving ==
  ASSUME Place, at \in Mending \cup {"observe"}, op # "aux"
  PROVE  Observing /\ \A a \in Mending : Where(op, phase, a)
PROOF BY DEF Place, Where, Observing, Moving, Mending

LEMMA WhereAfterObserve ==
  ASSUME NEW k, AfterObserve(k), Observing PROVE Place'
<1>1. CASE op = "boot" /\ phase = "none"
  <2>1. CASE k.desired # NoRequest
    BY <1>1, <2>1 DEF AfterObserve, Place, Where, Mending, Applies, Restores, NoAux
  <2>2. CASE k.desired = NoRequest
    <3>1. Goes(op, "none", "save") \/ Goes(op, "none", "battery")
      BY <1>1, <2>2 DEF AfterObserve, Applies
    <3> QED BY <1>1, <3>1, WhereGoes DEF Where, Mending, Restores
  <2> QED BY <2>1, <2>2
<1>2. CASE op \in Applies /\ phase = "over"
  <2>1. ApplyEnds(TRUE)
    BY <1>2 DEF AfterObserve, Applies, Restores
  <2> QED BY <1>2, <2>1, WhereApplyEnds
<1>3. CASE op = "observe" \/ phase = "good"
  BY <1>3, WhereEnds DEF AfterObserve, Observing, Applies, Restores
<1>4. CASE ~(op = "boot" /\ phase = "none") /\ phase # "over" /\ op # "observe" /\ phase # "good"
  <2>1. To("save")
    BY <1>4 DEF AfterObserve
  <2>2. Where(op, phase, "save")
    BY <1>4 DEF Observing, Where, Applies, Restores
  <2> QED BY <2>1, <2>2, WhereTo DEF Mending
<1> QED BY <1>1, <1>2, <1>3, <1>4 DEF Observing

LEMMA WhereAuxEnds ==
  ASSUME NEW k, AuxEnds(k), Place, at \in Mending PROVE Place'
<1>1. CASE op = "aux"
  BY <1>1, WhereEnds DEF AuxEnds
<1>2. CASE op # "aux"
  BY <1>2, WhereObserving, WhereAfterObserve DEF AuxEnds
<1> QED BY <1>1, <1>2

(* From one step of a change to another. *)
LEMMA WhereMends ==
  ASSUME Types, Place, at \in Mending, at' \in Mending, UNCHANGED <<op, phase>>,
         aux'.dev = aux.dev
  PROVE  Place'
<1>1. Where(op, phase, at')
  BY WhereObserving DEF Place, Where, Moving, Mending
<1>2. aux.dev # "none"
  BY DEF Place
<1> QED BY <1>1, <1>2 DEF Place, Mending

LEMMA MendPlaces ==
  ASSUME Types, Place, Look \/ AuxWrite \/ Commit \/ Compensate \/ Repair \/ Note
  PROVE  Place'
<1>1. CASE Look
  <2>1. PICK k : \/ /\ at' = "write" /\ aux' = ChargeEnds(k)
                    /\ UNCHANGED <<op, phase, goal, before>>
                 \/ AfterObserve(k)
    BY <1>1, LookSplit
  <2>2. op # "aux" /\ at = "observe"
    BY <1>1 DEF Look, Place, Where, Moving, Mending, Applies, Restores
  <2>3. Observing /\ Where(op, phase, "write")
    BY <2>2, WhereObserving DEF Mending
  <2> QED BY <2>1, <2>3, WhereAfterObserve DEF ChargeEnds, Place, Mending
<1>2. CASE AuxWrite \/ Commit \/ Compensate \/ Repair \/ Note
  <2>1. at \in Mending
    BY <1>2 DEF AuxWrite, Commit, Compensate, Repair, Note, Mending
  <2>2. aux \in Changes
    BY <2>1, MendingChanges
  <2>3. /\ \A w : [aux EXCEPT !.why = w].dev = aux.dev
        /\ \A b : [aux EXCEPT !.again = b].dev = aux.dev
    BY <2>2 DEF Changes, Change
  <2>4. ASSUME NEW a \in Mending, AuxTo(a) PROVE Place'
    BY <2>1, <2>4, WhereMends DEF AuxTo, plan
  <2>5. CASE AuxWrite
    BY <2>1, <2>3, <2>4, <2>5, WhereMends DEF AuxWrite, Mending
  <2>6. CASE Commit
    BY <2>1, <2>3, <2>6, WhereMends, WhereAuxEnds DEF Commit, Mending
  <2>7. CASE Compensate
    <3>1. PICK h, good : Compensated(h, good)
      BY <2>7, CompensateSplit
    <3> QED BY <2>1, <2>3, <2>4, <3>1, WhereMends, WhereAuxEnds DEF Compensated, Mending
  <2>8. CASE Repair \/ Note
    BY <2>1, <2>3, <2>4, <2>8, WhereMends, WhereAuxEnds DEF Repair, Note, Mending
  <2> QED BY <1>2, <2>5, <2>6, <2>7, <2>8
<1> QED BY <1>1, <1>2

LEMMA BeginPlaces ==
  ASSUME NEW d \in {"limit", "overdrive", "light", "fans"}, NEW v, NEW b, NEW n,
         Begin(d, v, b, n), Place
  PROVE  Place'
<1>1. phase = "none"
  BY DEF Begin, Free, Place, Where, Applies, Restores
<1>2. op' = "aux" /\ phase' = "none" /\ at' = "write" /\ aux'.dev = d
  BY <1>1 DEF Begin
<1> QED BY <1>2 DEF Place, Where, Mending

LEMMA RestorePlaces ==
  ASSUME Place, RestorePanelOverdrive \/ RestoreBatteryPolicy \/ RestoreLighting
                \/ Disarm \/ ReleaseForSleep
  PROVE  Place'
<1>1. ASSUME op \in Restores, phase = "none", NEW part \in {"panel", "battery", "light"},
             NEW due, NEW h, Part(part, due, h)
      PROVE  Place'
  <2>1. NextRestore(part) \in {"observe", "light", "done", "panel"}
    BY DEF NextRestore
  <2>2. CASE NextRestore(part) = "done"
    BY <1>1, <2>2, WhereEnds DEF Part
  <2>3. CASE NextRestore(part) # "done"
    <3>1. To(NextRestore(part))
      BY <1>1, <2>3 DEF Part
    <3>2. Where(op, phase, NextRestore(part))
      BY <1>1, <2>1, <2>3 DEF Where
    <3> QED BY <2>1, <2>3, <3>1, <3>2, WhereTo DEF Mending
  <2> QED BY <2>2, <2>3
<1>2. at \in {"panel", "battery", "light", "disarm"} => op \in Restores /\ phase = "none"
  BY DEF Place, Where, Moving, Mending
<1>3. CASE RestorePanelOverdrive
  BY <1>1, <1>2, <1>3 DEF RestorePanelOverdrive, Part
<1>4. CASE RestoreBatteryPolicy
  BY <1>1, <1>2, <1>4 DEF RestoreBatteryPolicy, Part
<1>5. CASE RestoreLighting
  BY <1>1, <1>2, <1>5 DEF RestoreLighting, Part
<1>6. CASE Disarm
  BY <1>2, <1>6, WhereTo DEF Disarm, Where, Mending
<1>7. CASE ReleaseForSleep
  <2>1. op = "sleep" /\ phase = "none"
    BY <1>7 DEF ReleaseForSleep, Place, Where, Moving, Mending
  <2> QED BY <1>7, <2>1, WhereTo, WhereGoes DEF ReleaseForSleep, Where, Mending
<1> QED BY <1>3, <1>4, <1>5, <1>6, <1>7

LEMMA StartPlaces ==
  ASSUME Place, Request \/ Observe \/ Suspend \/ Resume PROVE Place'
<1>1. CASE SetBatteryLimit \/ SetBatteryOneTimeCharge \/ SetPanelOverdrive
           \/ SetLighting \/ ReleaseFans
  BY <1>1, BeginPlaces DEF SetBatteryLimit, SetBatteryOneTimeCharge, SetPanelOverdrive,
     SetLighting, ReleaseFans
<1>2. ASSUME op \in {"idle", "asleep"}
      PROVE  at = "none" /\ phase = "none" /\ aux.dev = "none"
  BY <1>2 DEF Place, Where, Applies, Restores, Mending
<1>3. CASE Apply
  <2>1. op' = "apply" /\ phase' = "try" /\ at' = "policy" /\ aux'.dev = "none"
    BY <1>2, <1>3 DEF Apply, Free
  <2> QED BY <2>1 DEF Place, Where, Mending, Applies
<1>4. CASE FactoryFanCurves
  <2>1. /\ op' = "query" /\ phase' = "query" /\ aux'.dev = "none"
        /\ at' = "policy" \/ (at' = "stock" /\ hw.ppd # NoPpd)
        /\ goal' = [NoRequest EXCEPT !.ppd = hw.ppd]
    BY <1>2, <1>4 DEF FactoryFanCurves, Free
  <2>2. goal'.ppd = hw.ppd
    BY <2>1 DEF NoRequest
  <2> QED BY <2>1, <2>2 DEF Place, Where, Mending
<1>5. CASE Observe
  BY <1>5, WhereGoes DEF Observe, Where, Mending
<1>6. CASE Suspend
  BY <1>6, WhereGoes DEF Suspend, Where, Mending
<1>7. CASE Resume
  BY <1>7 DEF Resume, Place, Where, Mending, Applies, Restores, NoAux
<1> QED BY <1>1, <1>3, <1>4, <1>5, <1>6, <1>7 DEF Request

LEMMA WorldPlaces ==
  ASSUME Place, Hotplug \/ Boot \/ Stops \/ Unplug \/ Plug \/ Charge PROVE Place'
<1>1. CASE Hotplug \/ Unplug \/ Plug \/ Charge
  BY <1>1 DEF Hotplug, Unplug, Plug, Charge, plan, Place
<1>2. CASE Boot
  BY <1>2, WhereGoes DEF Boot, Where, Mending, Restores
<1>3. CASE Stops
  BY <1>3 DEF Stops, Place, Where, Mending, NoAux
<1> QED BY <1>1, <1>2, <1>3

LEMMA PlaceStarts == Init => Place
PROOF BY DEF Init, Place, Where, Mending, NoAux

LEMMA PlaceHolds == ASSUME Types, Place, [Next]_vars PROVE Place'
<1>1. CASE Next
  BY <1>1, ApplyPlaces, SavePlaces, MendPlaces, RestorePlaces, StartPlaces, WorldPlaces
     DEF Next, Step
<1>2. CASE UNCHANGED vars
  BY <1>2 DEF vars, plan, Place
<1> QED BY <1>1, <1>2

(* Every variable of the transactions keeps its type, and an operation is  *)
(* always at one of its own steps.                                         *)
THEOREM TransactionsTypes == TransactionsSpec => [](Types /\ Place)
<1>1. Init => Types /\ Place
  BY TypesStart, PlaceStarts
<1>2. Types /\ Place /\ [Next]_vars => (Types /\ Place)'
  BY TypesHold, PlaceHolds
<1> QED BY <1>1, <1>2, PTL DEF TransactionsSpec

(***************************************************************************)
(* Part 2. The power and the fans, one write at a time.                    *)
(***************************************************************************)
FansFit(watts, h, r) ==
  /\ Required(watts, r.override) => FansOf(h) = "locked"
  /\ r.curves => FansOf(h) \in {"authored", "locked"}
  /\ ~r.curves /\ ~Required(watts, r.override) => FansOf(h) = "auto"

Powered(h, r) == SetsPower(r) => h.pl1 \in {EffectivePl1(r), Stock[h.ppd]}
Matches(h, r) == h.override = r.override /\ FansFit(h.pl1, h, r) /\ Powered(h, r)

(* The power there will be once the power is written.                      *)
Coming(h, r) == IF SetsPower(r) THEN EffectivePl1(r) ELSE h.pl1
Guarded(r) == Required(EffectivePl1(r), r.override)

Progress ==
  /\ at \in Moving => hw.override = Target.override
  /\ at \in {"lower", "drop"} => ~Guarded(Target)
  /\ at = "drop" => ~Target.curves
  /\ at = "fans" => Target.curves \/ Guarded(Target)
  /\ at = "power" => FansFit(Coming(hw, Target), hw, Target)
  /\ at = "tune" => Matches(hw, Target)

(* What the BIOS leaves of a write, and what writes of the fans come to.   *)
LEMMA BiosLeaves ==
  ASSUME NEW h \in Hardware, NEW g \in BiosPower(h)
  PROVE  /\ g.fw = h.fw /\ g.ec = h.ec /\ g.override = h.override /\ g.ppd = h.ppd
         /\ g.limit = h.limit /\ g.overdrive = h.overdrive /\ g.light = h.light
         /\ FansOf(g) = FansOf(h)
         /\ g.pl1 = h.pl1 \/ (g.pl1 = Stock[g.ppd] /\ g.pl1 < HighPower)
<1>1. g = h \/ (h.ppd \in Profiles /\ g = [h EXCEPT !.pl1 = Stock[h.ppd]])
  BY DEF BiosPower, Hardware
<1> QED BY <1>1, StockProfiles DEF Hardware, FansOf

LEMMA PowerLess ==
  /\ \A watts, b : Required(watts, b) <=> watts >= HighPower /\ ~b
  /\ HighPower = 80
  /\ \A r : Guarded(r) => SetsPower(r)
PROOF BY DEF Required, HighPower, Guarded, SetsPower, NoWatts

LEMMA SetFansSets ==
  ASSUME hw \in Hardware, NEW r \in Wanted
  PROVE  /\ FansOf(SetFans(r)) = CurvesFor(r) /\ CurvesFor(r) \in {"authored", "locked"}
         /\ SetFans(r).override = hw.override /\ SetFans(r).pl1 = hw.pl1
         /\ SetFans(r).ppd = hw.ppd
         /\ CurvesFor(r) = IF Required(Coming(hw, r), hw.override) THEN "locked" ELSE "authored"
<1>1. CurvesFor(r) \in {"authored", "locked"}
  BY DEF CurvesFor
<1>2. CurvesFor(r) = IF Required(Coming(hw, r), hw.override) THEN "locked" ELSE "authored"
  BY DEF CurvesFor, Coming, SetsPower
<1>3. /\ FansOf(SetFans(r)) = CurvesFor(r) /\ SetFans(r).pl1 = hw.pl1
      /\ SetFans(r).override = hw.override /\ SetFans(r).ppd = hw.ppd
  BY <1>1 DEF SetFans, FansOf, Hardware
<1> QED BY <1>1, <1>2, <1>3

LEMMA DroppedDrops ==
  ASSUME hw \in Hardware
  PROVE  /\ FansOf(Dropped) = "auto" /\ Dropped.override = hw.override
         /\ Dropped.pl1 = hw.pl1 /\ Dropped.ppd = hw.ppd
PROOF BY DEF Dropped, FansOf, Hardware

LEMMA FansFitAfterFans ==
  ASSUME hw \in Hardware, NEW r \in Wanted, NEW g \in BiosPower(SetFans(r)),
         hw.override = r.override, r.curves \/ Guarded(r)
  PROVE  g.override = r.override /\ FansFit(Coming(g, r), g, r)
<1>1. SetFans(r) \in Hardware
  BY FanTypes
<1>2. /\ g.override = r.override /\ FansOf(g) = CurvesFor(r)
      /\ g.pl1 = hw.pl1 \/ (g.pl1 \in Nat /\ g.pl1 < HighPower)
  BY <1>1, BiosLeaves, BiosTypes, SetFansSets DEF Hardware
<1>3. Required(Coming(g, r), r.override) => Required(Coming(hw, r), r.override)
  BY <1>2, PowerLess DEF Coming
<1>4. ~r.curves => Required(Coming(g, r), r.override)
  BY PowerLess DEF Coming, Guarded
<1> QED BY <1>2, <1>3, <1>4, SetFansSets DEF FansFit

LEMMA FansFitAfterDrop ==
  ASSUME hw \in Hardware, NEW r \in Wanted, NEW g \in BiosPower(Dropped),
         hw.override = r.override, ~Required(hw.pl1, hw.override),
         ~Guarded(r), ~r.curves
  PROVE  g.override = r.override /\ FansFit(Coming(g, r), g, r)
<1>1. Dropped \in Hardware
  BY FanTypes, DefaultTypes
<1>2. /\ g.override = r.override /\ FansOf(g) = "auto"
      /\ g.pl1 = hw.pl1 \/ (g.pl1 \in Nat /\ g.pl1 < HighPower)
  BY <1>1, BiosLeaves, BiosTypes, DroppedDrops DEF Hardware
<1>3. ~Required(Coming(g, r), r.override)
  BY <1>2, PowerLess DEF Coming, Guarded
<1> QED BY <1>2, <1>3 DEF FansFit

LEMMA MatchesAfterPower ==
  ASSUME hw \in Hardware, NEW r \in Wanted, r = Target, hw.override = r.override,
         FansFit(Coming(hw, r), hw, r)
  PROVE  Matches(WithPower, r)
<1>1. /\ WithPower.pl1 = Coming(hw, r) /\ FansOf(WithPower) = FansOf(hw)
      /\ WithPower.override = hw.override
  BY PowerTypes DEF WithPower, Coming, FansOf, Hardware
<1>2. Powered(WithPower, r)
  BY <1>1 DEF Powered, Coming
<1> QED BY <1>1, <1>2 DEF Matches, FansFit

(* Only these steps lead to a write of the request in hand.                *)
LEMMA ProgressElsewhere == at' \notin Moving => Progress'
PROOF BY DEF Progress, Moving

LEMMA TargetStays ==
  ASSUME UNCHANGED <<phase, goal, before>> PROVE Target' = Target
PROOF BY DEF Target

LEMMA FailedProgress ==
  ASSUME NEW h \in Hardware, Types, Setter, Failed(h) PROVE Progress'
<1>1. CASE at' \notin Moving
  BY <1>1, ProgressElsewhere
<1>2. CASE at' \in Moving
  <2>1. /\ phase = "try" /\ before.desired # NoRequest /\ Goes(op, "undo", "ppd")
        /\ hw' = [h EXCEPT !.override = CommittedOverride(before)]
    BY <1>2 DEF Failed, Setter, To, Goes, Moving
  <2>2. Target' = before.desired /\ at' = "ppd"
    BY <2>1 DEF Goes, Target
  <2>3. hw'.override = before.desired.override
    BY <2>1 DEF CommittedOverride, Hardware, Types, Keep, Wanted
  <2> QED BY <2>2, <2>3 DEF Progress
<1> QED BY <1>1, <1>2

LEMMA ApplyProgress ==
  ASSUME Types, Place, Progress,
         Policy \/ Ppd \/ Lower \/ Fans \/ Drop \/ Power \/ Tune \/ StockBack
  PROVE  Progress'
<1>1. hw \in Hardware /\ Target \in Wanted /\ WithPower \in Hardware
  BY TargetTypes DEF Types
<1>2. Setter
  BY WhereMoving DEF Policy, Ppd, Lower, Fans, Drop, Power, Tune, StockBack, Moving
<1>3. ASSUME NEW h \in Hardware, Failed(h) PROVE Progress'
  BY <1>2, <1>3, FailedProgress
<1>4. ASSUME NEW a, To(a) PROVE Target' = Target /\ at' = a
  BY <1>4, TargetStays DEF To, Goes
<1>5. CASE Policy
  <2>1. CASE hw' = [hw EXCEPT !.override = Target.override] /\ To("ppd")
    <3>1. hw'.override = Target.override
      BY <1>1, <2>1 DEF Hardware
    <3> QED BY <1>4, <2>1, <3>1 DEF Progress
  <2>2. CASE Failed([hw EXCEPT !.override = Target.override])
    <3>1. [hw EXCEPT !.override = Target.override] \in Hardware
      BY <1>1 DEF Hardware, Wanted
    <3> QED BY <1>3, <2>2, <3>1
  <2>3. CASE ApplyEnds(TRUE)
    BY <2>3, ProgressElsewhere DEF ApplyEnds, Ends, Goes, Moving
  <2> QED BY <1>5, <2>1, <2>2, <2>3 DEF Policy
<1>6. CASE Ppd
  <2> DEFINE chosen == IF Target.ppd = NoPpd THEN hw ELSE [hw EXCEPT !.ppd = Target.ppd]
  <2>1. chosen \in Hardware /\ chosen.override = hw.override
    BY <1>1 DEF Hardware, Wanted
  <2>2. CASE hw' \in BiosPower(chosen) \cup {hw} /\ To(First(Target))
    <3>1. hw'.override = hw.override
      <4> HIDE DEF chosen
      <4> QED BY <2>1, <2>2, BiosLeaves
    <3>2. hw'.override = Target.override
      BY <1>6, <3>1 DEF Progress, Ppd, Moving
    <3>3. First(Target) = IF Guarded(Target) THEN "fans" ELSE "lower"
      BY DEF First, Guarded
    <3> QED BY <1>4, <2>2, <3>2, <3>3 DEF Progress
  <2>3. CASE Failed(hw)
    BY <1>1, <1>3, <2>3
  <2> QED BY <1>6, <2>2, <2>3 DEF Ppd
<1>7. CASE Lower
  <2>1. CASE hw' = WithPower /\ To(FanStep(Target))
    <3>1. hw'.override = Target.override
      BY <1>1, <1>7, <2>1 DEF WithPower, Progress, Lower, Moving, Hardware
    <3>2. ~Guarded(Target)
      BY <1>7 DEF Progress, Lower
    <3> QED BY <1>4, <2>1, <3>1, <3>2 DEF Progress, FanStep
  <2> QED BY <1>1, <1>3, <1>7, <2>1 DEF Lower, PowerStep
<1>8. CASE Fans
  <2>1. CASE hw' \in BiosPower(SetFans(Target)) /\ To("power")
    <3>1. hw.override = Target.override /\ (Target.curves \/ Guarded(Target))
      BY <1>8 DEF Progress, Fans, Moving
    <3>2. hw'.override = Target.override /\ FansFit(Coming(hw', Target), hw', Target)
      BY <1>1, <2>1, <3>1, FansFitAfterFans
    <3> QED BY <1>4, <2>1, <3>2 DEF Progress
  <2> QED BY <1>1, <1>3, <1>8, <2>1, FanTypes DEF Fans
<1>9. CASE Drop
  <2>1. CASE ~Required(hw.pl1, hw.override) /\ hw' \in BiosPower(Dropped) /\ To("power")
    <3>1. hw.override = Target.override /\ ~Target.curves /\ ~Guarded(Target)
      BY <1>9 DEF Progress, Drop, Moving
    <3>2. hw'.override = Target.override /\ FansFit(Coming(hw', Target), hw', Target)
      BY <1>1, <2>1, <3>1, FansFitAfterDrop
    <3> QED BY <1>4, <2>1, <3>2 DEF Progress
  <2> QED BY <1>1, <1>3, <1>9, <2>1, FanTypes DEF Drop
<1>10. CASE Power
  <2>1. CASE hw' = WithPower /\ To("tune")
    <3>1. hw.override = Target.override /\ FansFit(Coming(hw, Target), hw, Target)
      BY <1>10 DEF Progress, Power, Moving
    <3>2. Matches(hw', Target)
      BY <1>1, <2>1, <3>1, MatchesAfterPower
    <3> QED BY <1>4, <2>1, <3>2 DEF Progress, Matches
  <2> QED BY <1>1, <1>3, <1>10, <2>1 DEF Power, PowerStep
<1>11. CASE Tune
  <2>1. CASE Applied
    BY <1>2, <2>1, ProgressElsewhere DEF Applied, Setter, To, Goes, Moving
  <2> QED BY <1>1, <1>3, <1>11, <2>1 DEF Tune
<1>12. CASE StockBack
  <2>1. CASE Goes(op, "good", "observe")
    BY <2>1, ProgressElsewhere DEF Goes, Moving
  <2> QED BY <1>1, <1>3, <1>12, <2>1 DEF StockBack
<1> QED BY <1>5, <1>6, <1>7, <1>8, <1>9, <1>10, <1>11, <1>12

LEMMA SaveProgress ==
  ASSUME Types, Place, Save \/ SaveFails PROVE Progress'
<1>1. CASE Save
  <2>1. at' \notin Moving
    BY <1>1 DEF Save, ApplyEnds, Ends, To, Goes, Moving
  <2> QED BY <2>1, ProgressElsewhere
<1>2. CASE SaveFails /\ op \in Applies /\ phase = "try"
  <2>1. /\ hw' = [hw EXCEPT !.override = CommittedOverride(before)]
        /\ at' = "save" \/ (at' = "ppd" /\ phase' = "back" /\ UNCHANGED <<goal, before>>)
    BY <1>2 DEF SaveFails, Goes, Applies, Restores
  <2>2. at' = "ppd" => Target' = before.desired
    BY <2>1 DEF Target
  <2>3. hw'.override = before.desired.override
    BY <2>1, DefaultTypes DEF CommittedOverride, Hardware, Types, Keep, Wanted, NoRequest
  <2> QED BY <2>1, <2>2, <2>3 DEF Progress, Moving
<1>3. CASE SaveFails /\ ~(op \in Applies /\ phase = "try")
  <2>1. at' \notin Moving
    BY <1>3 DEF SaveFails, ApplyEnds, Ends, To, Goes, Moving
  <2> QED BY <2>1, ProgressElsewhere
<1> QED BY <1>1, <1>2, <1>3

LEMMA AfterObserveElsewhere ==
  ASSUME NEW k, AfterObserve(k) PROVE at' \notin Moving
PROOF BY DEF AfterObserve, ApplyEnds, Ends, To, Goes, Moving

LEMMA AuxElsewhere ==
  ASSUME Types, Place, Look \/ AuxWrite \/ Commit \/ Compensate \/ Repair \/ Note
  PROVE  at' \notin Moving
<1>1. CASE Look
  BY <1>1, LookSplit, AfterObserveElsewhere DEF Moving
<1>2. ASSUME NEW k, AuxEnds(k) PROVE at' \notin Moving
  BY <1>2, AfterObserveElsewhere DEF AuxEnds, Ends, Moving
<1>3. CASE AuxWrite
  BY <1>3 DEF AuxWrite, AuxTo, Moving
<1>4. CASE Commit
  BY <1>2, <1>4 DEF Commit, Moving
<1>5. CASE Compensate
  <2>1. PICK h, good : Compensated(h, good)
    BY <1>5, CompensateSplit
  <2> QED BY <1>2, <2>1 DEF Compensated, AuxTo, Moving
<1>6. CASE Repair \/ Note
  BY <1>2, <1>6 DEF Repair, Note, AuxTo, Moving
<1> QED BY <1>1, <1>3, <1>4, <1>5, <1>6

LEMMA RestoreElsewhere ==
  ASSUME RestorePanelOverdrive \/ RestoreBatteryPolicy \/ RestoreLighting
         \/ Disarm \/ ReleaseForSleep
  PROVE  at' \notin Moving
<1>1. ASSUME NEW part \in {"panel", "battery", "light"}, NEW due, NEW h, Part(part, due, h)
      PROVE  at' \notin Moving
  BY <1>1 DEF Part, NextRestore, Ends, To, Goes, Moving
<1> QED
  BY <1>1 DEF RestorePanelOverdrive, RestoreBatteryPolicy, RestoreLighting, Disarm,
     ReleaseForSleep, To, Goes, Moving

LEMMA StartElsewhere ==
  ASSUME Request \/ Observe \/ Suspend \/ Resume \/ Boot \/ Stops
  PROVE  at' \notin Moving
<1>1. ASSUME NEW d, NEW v, NEW b, NEW n, Begin(d, v, b, n) PROVE at' \notin Moving
  BY <1>1 DEF Begin, Moving
<1> QED
  BY <1>1 DEF Request, Apply, SetBatteryLimit, SetBatteryOneTimeCharge, SetPanelOverdrive,
     SetLighting, ReleaseFans, FactoryFanCurves, Observe, Suspend, Resume, Boot, Stops,
     Goes, Moving

(* The keyboard comes and goes beside the steps of an operation. *)
LEMMA Beside ==
  ASSUME hw \in Hardware, Unplug \/ Plug \/ UNCHANGED vars
  PROVE  /\ UNCHANGED <<kept, mode, file, copied, saved, op, at, phase, goal, before, aux>>
         /\ hw'.pl1 = hw.pl1 /\ hw'.ppd = hw.ppd /\ hw'.override = hw.override
         /\ hw'.limit = hw.limit /\ hw'.overdrive = hw.overdrive
         /\ FansOf(hw') = FansOf(hw)
<1>1. UNCHANGED <<kept, mode, file, copied, saved, op, at, phase, goal, before, aux>>
  BY DEF Unplug, Plug, vars, memory, disk, plan
<1>2. hw' = hw \/ hw' = [hw EXCEPT !.light = "dark"]
  BY DEF Unplug, Plug, vars
<1> QED BY <1>1, <1>2 DEF Hardware, FansOf

LEMMA ProgressHolds ==
  ASSUME Types, Place, Progress, [Next]_vars PROVE Progress'
<1>1. CASE Policy \/ Ppd \/ Lower \/ Fans \/ Drop \/ Power \/ Tune \/ StockBack
  BY <1>1, ApplyProgress
<1>2. CASE Save \/ SaveFails
  BY <1>2, SaveProgress
<1>3. CASE Look \/ AuxWrite \/ Commit \/ Compensate \/ Repair \/ Note
  BY <1>3, AuxElsewhere, ProgressElsewhere
<1>4. CASE RestorePanelOverdrive \/ RestoreBatteryPolicy \/ RestoreLighting
           \/ Disarm \/ ReleaseForSleep
  BY <1>4, RestoreElsewhere, ProgressElsewhere
<1>5. CASE Request \/ Observe \/ Suspend \/ Resume \/ Boot \/ Stops
  BY <1>5, StartElsewhere, ProgressElsewhere
<1>6. CASE Hotplug \/ Charge
  <2>1. at' = at /\ op = "idle"
    BY <1>6 DEF Hotplug, Charge, Free
  <2>2. at' \notin Moving
    BY <2>1 DEF Place, Where, Moving, Applies, Restores
  <2> QED BY <2>2, ProgressElsewhere
<1>7. CASE Unplug \/ Plug \/ UNCHANGED vars
  <2>1. Target' = Target /\ at' = at
    BY <1>7, Beside, TargetStays DEF Types
  <2>2. /\ hw'.pl1 = hw.pl1 /\ hw'.ppd = hw.ppd /\ hw'.override = hw.override
        /\ FansOf(hw') = FansOf(hw)
    BY <1>7, Beside DEF Types
  <2> QED BY <2>1, <2>2 DEF Progress, Matches, Powered, FansFit, Coming
<1> QED BY <1>1, <1>2, <1>3, <1>4, <1>5, <1>6, <1>7 DEF Next, Step

(* Only a write of the power raises it past the threshold.                 *)
Low(h) == h.pl1 = hw.pl1 \/ h.pl1 < HighPower

LEMMA BiosLow ==
  ASSUME hw \in Hardware, NEW h \in Hardware, h.pl1 = hw.pl1, NEW g \in BiosPower(h)
  PROVE  Low(g)
PROOF BY BiosLeaves DEF Low

LEMMA FansLow ==
  ASSUME hw \in Hardware, NEW r \in Wanted
  PROVE  /\ \A h \in SetFansHalf(r) : Low(h)
         /\ \A h \in DroppedHalf : Low(h)
         /\ \A h \in BiosPower(SetFans(r)) : Low(h)
         /\ \A h \in BiosPower(Dropped) : Low(h)
         /\ \A h \in BiosPower(LockedFirmware) : Low(h)
         /\ SetFans(r).pl1 = hw.pl1 /\ LockedFirmware.pl1 = hw.pl1
<1>1. SetFans(r).pl1 = hw.pl1 /\ Dropped.pl1 = hw.pl1 /\ LockedFirmware.pl1 = hw.pl1
  BY SetFansSets, DroppedDrops DEF LockedFirmware, Hardware
<1>2. SetFans(r) \in Hardware /\ Dropped \in Hardware /\ LockedFirmware \in Hardware
  BY FanTypes
<1>3. \A h \in SetFansHalf(r) : h.pl1 = hw.pl1
  BY <1>1 DEF SetFansHalf, Hardware
<1>4. \A h \in DroppedHalf : h.pl1 = hw.pl1
  BY <1>1 DEF DroppedHalf, Hardware
<1> QED BY <1>1, <1>2, <1>3, <1>4, BiosLow DEF Low

LEMMA FailedLow ==
  ASSUME NEW h \in Hardware, Setter, Failed(h)
  PROVE  hw'.pl1 = h.pl1 /\ FansOf(hw') = FansOf(h)
<1>1. hw' = h \/ hw' = [h EXCEPT !.override = CommittedOverride(before)]
  BY DEF Failed, Setter
<1> QED BY <1>1 DEF Hardware, FansOf

LEMMA ApplyLow ==
  ASSUME Types, Place, Policy \/ Ppd \/ Fans \/ Drop \/ Tune \/ StockBack
  PROVE  Low(hw')
<1>1. hw \in Hardware /\ Target \in Wanted /\ Low(hw)
  BY TargetTypes DEF Types, Low
<1>2. Setter
  BY WhereMoving DEF Policy, Ppd, Fans, Drop, Tune, StockBack, Moving
<1>3. ASSUME NEW h \in Hardware, Low(h), Failed(h) PROVE Low(hw')
  BY <1>2, <1>3, FailedLow DEF Low
<1>4. CASE Policy
  <2>1. /\ [hw EXCEPT !.override = Target.override] \in Hardware
        /\ [hw EXCEPT !.override = Target.override].pl1 = hw.pl1
        /\ [hw EXCEPT !.override = CommittedOverride(before)].pl1 = hw.pl1
    BY <1>1 DEF Hardware, Wanted
  <2> QED BY <1>3, <1>4, <2>1 DEF Policy, Low
<1>5. CASE Ppd
  <2> DEFINE chosen == IF Target.ppd = NoPpd THEN hw ELSE [hw EXCEPT !.ppd = Target.ppd]
  <2>1. chosen \in Hardware /\ chosen.pl1 = hw.pl1
    BY <1>1 DEF Hardware, Wanted
  <2>2. CASE hw' \in BiosPower(chosen) \cup {hw}
    <3> HIDE DEF chosen
    <3> QED BY <1>1, <2>1, <2>2, BiosLow
  <2> QED BY <1>1, <1>3, <1>5, <2>2 DEF Ppd
<1>6. CASE Fans
  BY <1>1, <1>3, <1>6, FansLow, FanTypes DEF Fans
<1>7. CASE Drop
  BY <1>1, <1>3, <1>7, FansLow, FanTypes DEF Drop
<1>8. CASE Tune
  BY <1>1, <1>3, <1>8 DEF Tune
<1>9. CASE StockBack
  <2>1. CASE hw' = [hw EXCEPT !.ppd = goal.ppd, !.pl1 = Stock[goal.ppd]]
    <3>1. goal.ppd \in Profiles
      BY <1>9 DEF StockBack, Place, Types, Wanted
    <3> QED BY <1>1, <2>1, <3>1, StockProfiles DEF Low, Hardware
  <2> QED BY <1>1, <1>3, <1>9, <2>1 DEF StockBack
<1> QED BY <1>4, <1>5, <1>6, <1>7, <1>8, <1>9

LEMMA AuxLow ==
  ASSUME Types, Place, AuxWrite \/ Compensate PROVE Low(hw')
<1>1. hw \in Hardware /\ aux \in Changes /\ aux.from.desired \in Wanted /\ Low(hw)
  BY MendingChanges DEF AuxWrite, Compensate, Mending, Types, Low, Keep
<1>2. ASSUME aux.dev # "fans" PROVE With(aux.to).pl1 = hw.pl1 /\ With(aux.back).pl1 = hw.pl1
  BY <1>1, <1>2, ChangeTypes DEF With, Hardware
<1>3. CASE AuxWrite
  <2>1. CASE aux.dev = "fans"
    BY <1>1, <1>3, <2>1, FansLow DEF AuxWrite
  <2>2. CASE aux.dev # "fans"
    BY <1>1, <1>2, <1>3, <2>2 DEF AuxWrite, Low
  <2> QED BY <2>1, <2>2
<1>4. CASE Compensate
  <2>1. ASSUME NEW h, NEW b, Compensated(h, b) PROVE hw' = h
    BY <2>1 DEF Compensated
  <2>2. CASE aux.dev = "fans"
    <3>1. \A h \in BiosPower(FansBack.done) \cup FansBack.half : Low(h)
      BY <1>1, FansLow DEF FansBack, Low
    <3> QED BY <1>4, <2>1, <2>2, <3>1, CompensateSplit DEF Compensation
  <2>3. CASE aux.dev # "fans"
    <3>1. Low(Compensation.done) /\ \A h \in Compensation.half : Low(h)
      BY <1>1, <1>2, <2>3 DEF Compensation, Low
    <3> QED BY <1>4, <2>1, <2>3, <3>1, CompensateSplit
  <2> QED BY <2>2, <2>3
<1> QED BY <1>3, <1>4

LEMMA ForgetsLow ==
  ASSUME hw \in Hardware, NEW h \in Forgets(hw) PROVE Low(h)
<1>1. CASE h = hw
  BY <1>1 DEF Low
<1>2. CASE \E l \in {0, 100} :
             h = [hw EXCEPT !.pl1 = Stock.balanced, !.fw = "auto", !.ec = "auto",
                            !.limit = l, !.overdrive = "off", !.light = "dark"]
  <2>1. h.pl1 = Stock.balanced
    BY <1>2 DEF Hardware
  <2> QED BY <2>1 DEF Low, Stock, HighPower
<1> QED BY <1>1, <1>2 DEF Forgets

LEMMA OthersLow ==
  ASSUME Types, Place,
         Step \/ Request \/ Observe \/ Suspend \/ Resume \/ Hotplug \/ Boot \/ Stops \/ Charge,
         ~(Lower \/ Power)
  PROVE  Low(hw')
<1>1. hw \in Hardware /\ Low(hw)
  BY DEF Types, Low
<1>2. CASE Save \/ SaveFails
  <2>1. hw' = hw \/ hw' = [hw EXCEPT !.override = CommittedOverride(before)]
    BY <1>2 DEF Save, SaveFails
  <2> QED BY <1>1, <2>1 DEF Low, Hardware
<1>3. CASE RestorePanelOverdrive \/ RestoreBatteryPolicy \/ RestoreLighting
  <2>1. \A n : /\ [hw EXCEPT !.overdrive = n].pl1 = hw.pl1
               /\ [hw EXCEPT !.limit = n].pl1 = hw.pl1
               /\ [hw EXCEPT !.light = n].pl1 = hw.pl1
    BY <1>1 DEF Hardware
  <2> QED BY <1>1, <1>3, <2>1
      DEF RestorePanelOverdrive, RestoreBatteryPolicy, RestoreLighting, Part, Low
<1>4. CASE Disarm \/ ReleaseForSleep \/ Boot \/ Hotplug
  BY <1>1, <1>4 DEF Disarm, ReleaseForSleep, Boot, Hotplug, Low, Hardware
<1>5. CASE Resume \/ Stops
  BY <1>1, <1>5, ForgetsLow DEF Resume, Stops
<1>6. CASE FactoryFanCurves
  <2>1. PICK p \in Profiles :
          \E h \in BiosPower([hw EXCEPT !.ppd = p]) \cup {hw} :
            hw' \in {h, [h EXCEPT !.fw = "auto"]}
    BY <1>6, StockProfiles DEF FactoryFanCurves
  <2>2. [hw EXCEPT !.ppd = p] \in Hardware /\ [hw EXCEPT !.ppd = p].pl1 = hw.pl1
    BY <1>1 DEF Hardware
  <2>3. PICK h \in Hardware : Low(h) /\ hw' \in {h, [h EXCEPT !.fw = "auto"]}
    BY <1>1, <2>1, <2>2, BiosTypes, BiosLow
  <2> QED BY <2>3 DEF Low, Hardware
<1>7. CASE Look \/ Commit \/ Repair \/ Note \/ Apply \/ SetBatteryLimit
           \/ SetBatteryOneTimeCharge \/ SetPanelOverdrive \/ SetLighting \/ ReleaseFans
           \/ Observe \/ Suspend \/ Charge
  BY <1>1, <1>7 DEF Look, Commit, Repair, Note, Apply, SetBatteryLimit,
     SetBatteryOneTimeCharge, SetPanelOverdrive, SetLighting, ReleaseFans, Observe,
     Suspend, Charge, Begin
<1> QED BY <1>2, <1>3, <1>4, <1>5, <1>6, <1>7, ApplyLow, AuxLow DEF Step, Request

LEMMA PowerRaises ==
  ASSUME Types, Place, Progress, Lower \/ Power, ~Low(hw'), ~hw.override
  PROVE  FansOf(hw') = "locked"
<1>1. hw \in Hardware /\ WithPower \in Hardware /\ Target \in Wanted
  BY TargetTypes DEF Types
<1>2. Setter
  BY WhereMoving DEF Lower, Power, Moving
<1>3. hw'.pl1 \in {hw.pl1, WithPower.pl1} /\ FansOf(hw') \in {FansOf(hw), FansOf(WithPower)}
  BY <1>1, <1>2, FailedLow DEF Lower, Power, PowerStep
<1>4. FansOf(WithPower) = FansOf(hw)
  BY <1>1 DEF WithPower, FansOf, Hardware
<1>5. SetsPower(Target) /\ hw'.pl1 = EffectivePl1(Target) /\ hw'.pl1 >= HighPower
  BY <1>1, <1>3, PowerTypes, PowerLess DEF WithPower, Low, Hardware
<1>6. ~Target.override
  BY DEF Progress, Lower, Power, Moving
<1>7. Guarded(Target) /\ Required(Coming(hw, Target), Target.override)
  BY <1>5, <1>6, PowerLess DEF Guarded, Coming
<1>8. Power
  BY <1>7 DEF Progress, Lower
<1> QED BY <1>3, <1>4, <1>7, <1>8 DEF Progress, Power, FansFit

(* The power never rises past the threshold before the fans that must      *)
(* carry it, whatever failed, is rolled back or restored on the way        *)
(* (apply_request).                                                        *)
THEOREM PowerFollowsFans == TransactionsSpec => RaiseNeedsProtection
<1>1. Init => Types /\ Place /\ Progress
  BY TypesStart, PlaceStarts DEF Init, Progress, Moving
<1>2. Types /\ Place /\ Progress /\ [Next]_vars => (Types /\ Place /\ Progress)'
  BY TypesHold, PlaceHolds, ProgressHolds
<1>3. ASSUME Types, Place, Progress, [Next]_vars,
             hw.pl1 < HighPower, hw'.pl1 >= HighPower, ~hw.override
      PROVE  FansOf(hw') = "locked"
  <2>1. hw.pl1 \in Nat /\ hw'.pl1 \in Nat /\ HighPower = 80 /\ hw \in Hardware
    BY <1>3, TypesHold, PowerLess DEF Types, Hardware
  <2>2. ~Low(hw')
    BY <1>3, <2>1 DEF Low
  <2>3. ~(Unplug \/ Plug \/ UNCHANGED vars)
    BY <1>3, <2>1, <2>2, Beside DEF Low
  <2> QED BY <1>3, <2>2, <2>3, OthersLow, PowerRaises DEF Next
<1>4. Types /\ Place /\ Progress /\ [Next]_vars
      => (hw.pl1 < HighPower /\ hw'.pl1 >= HighPower /\ ~hw.override => FansOf(hw') = "locked")
  BY <1>3
<1> QED BY <1>1, <1>2, <1>4, PTL DEF TransactionsSpec, RaiseNeedsProtection

(***************************************************************************)
(* Part 3. The file.                                                       *)
(***************************************************************************)

(* A running daemon that may write has a file it may write over. *)
Loadable ==
  op # "off" /\ mode = "rw" =>
    /\ file.kind \notin {"unsupported", "unreadable"}
    /\ file.kind = "corrupt" => copied

LEMMA FileSteps ==
  ASSUME Types, Place, [Next]_vars
  PROVE  \/ file' = file /\ mode' = mode /\ copied' = copied /\ (op = "off" => op' = "off")
         \/ /\ op # "off" /\ mode = "rw" /\ mode' = "rw" /\ copied' = copied
            /\ \E k : file' = State(k)
         \/ Boot
<1>1. at # "none" => op # "off"
  BY DEF Place, Where, Moving, Mending, Applies, Restores
<1>2. ASSUME NEW k, Saved(k) \/ NotSaved(k), mode' = mode, op # "off"
      PROVE  \/ file' = file /\ mode' = mode /\ copied' = copied
             \/ mode = "rw" /\ mode' = "rw" /\ copied' = copied /\ \E j : file' = State(j)
  BY <1>2 DEF Saved, NotSaved, SaveRefused, SaveBroken
<1>3. CASE Save \/ SaveFails \/ Commit \/ Repair \/ Note
  BY <1>1, <1>2, <1>3 DEF Save, SaveFails, Commit, Repair, Note, memory
<1>4. CASE Policy \/ Ppd \/ Lower \/ Fans \/ Drop \/ Power \/ Tune \/ StockBack \/ Look
           \/ AuxWrite \/ Compensate \/ Disarm \/ ReleaseForSleep
  <2>1. at # "none"
    BY <1>4 DEF Policy, Ppd, Lower, Fans, Drop, Power, Tune, StockBack, Look, AuxWrite,
       Compensate, Disarm, ReleaseForSleep
  <2>2. UNCHANGED <<mode, disk>>
    <3>1. CASE Compensate
      BY <3>1, CompensateSplit
    <3>2. CASE Policy \/ Ppd \/ Lower \/ Fans \/ Drop \/ Power
      BY <3>2 DEF Policy, Ppd, Lower, Fans, Drop, Power
    <3>3. CASE Tune \/ StockBack \/ Disarm \/ ReleaseForSleep
      BY <3>3 DEF Tune, StockBack, Disarm, ReleaseForSleep
    <3>4. CASE Look
      BY <3>4 DEF Look
    <3>5. CASE AuxWrite
      BY <3>5 DEF AuxWrite, memory
    <3> QED BY <1>4, <3>1, <3>2, <3>3, <3>4, <3>5
  <2> QED BY <1>1, <2>1, <2>2 DEF disk
<1>5. CASE RestorePanelOverdrive \/ RestoreBatteryPolicy \/ RestoreLighting
  BY <1>1, <1>5 DEF RestorePanelOverdrive, RestoreBatteryPolicy, RestoreLighting, Part, disk
<1>6. CASE Apply \/ FactoryFanCurves \/ Observe \/ Suspend \/ Resume \/ Charge \/ Hotplug
  BY <1>6 DEF Apply, FactoryFanCurves, Observe, Suspend, Resume, Charge, Hotplug, Free, disk, memory
<1>7. CASE SetBatteryLimit \/ SetBatteryOneTimeCharge \/ SetPanelOverdrive \/ SetLighting
           \/ ReleaseFans
  BY <1>7 DEF SetBatteryLimit, SetBatteryOneTimeCharge, SetPanelOverdrive, SetLighting,
     ReleaseFans, Begin, Free, disk, memory
<1>8. CASE Stops \/ Unplug \/ Plug \/ UNCHANGED vars
  BY <1>8 DEF Stops, Unplug, Plug, vars, disk, memory, plan
<1> QED BY <1>3, <1>4, <1>5, <1>6, <1>7, <1>8 DEF Next, Step, Request

LEMMA LoadableHolds ==
  ASSUME Types, Place, Loadable, [Next]_vars PROVE Loadable'
<1>1. CASE Boot
  <2>1. file' = file
    BY <1>1 DEF Boot
  <2> QED BY <1>1, <2>1 DEF Boot, Loadable, Loaded
<1>2. CASE ~Boot
  BY <1>2, FileSteps DEF Loadable, State
<1> QED BY <1>1, <1>2

(* A file of a version or of contents the daemon cannot read is never      *)
(* written over, and a corrupt one only once it was copied aside           *)
(* (loaded_state, save_state).                                             *)
THEOREM PreciousIsKept == TransactionsSpec => PreciousFileKept
<1>1. Init => Types /\ Place /\ Loadable
  BY TypesStart, PlaceStarts DEF Init, Loadable
<1>2. Types /\ Place /\ Loadable /\ [Next]_vars => (Types /\ Place /\ Loadable)'
  BY TypesHold, PlaceHolds, LoadableHolds
<1>3. Types /\ Place /\ Loadable /\ [Next]_vars =>
        (file' # file => /\ file.kind \notin {"unsupported", "unreadable"}
                         /\ file.kind = "corrupt" => copied)
  BY FileSteps DEF Loadable, Boot
<1> QED BY <1>1, <1>2, <1>3, PTL DEF TransactionsSpec, PreciousFileKept

(***************************************************************************)
(* Part 4. What a change of one setting starts from and comes back to.     *)
(***************************************************************************)

(* The state a change began from is what is kept, until it is committed or *)
(* noted as gone wrong; an observation changes only the battery limit.     *)
Owned ==
  /\ at \in Mending \ {"note"} => kept = aux.from
  /\ at \in Mending =>
       /\ aux.new.degraded = aux.from.degraded
       /\ op # "aux" => aux.dev = "limit"
       /\ aux.dev # "fans" => aux.new.desired = aux.from.desired
       /\ aux.dev = "fans" => aux.new.desired = Released(aux.from.desired)

(* What went wrong for good is said. *)
Degrades ==
  /\ phase \in {"again", "over"} => kept.degraded
  /\ at = "save" /\ phase \in {"back", "worse"} => kept.degraded
  /\ at = "note" => kept.degraded

Books == Owned /\ Degrades

LEMMA OwnedElsewhere == at' \notin Mending => Owned'
PROOF BY DEF Owned, Mending

LEMMA DegradesElsewhere ==
  ASSUME at' # "note", phase' \notin {"again", "over"},
         ~(at' = "save" /\ phase' \in {"back", "worse"})
  PROVE  Degrades'
PROOF BY DEF Degrades

(* Where the daemon says that it is degraded, it may be anywhere. *)
LEMMA DegradesSaid == kept'.degraded => Degrades'
PROOF BY DEF Degrades

LEMMA BooksAfterObserve ==
  ASSUME Types, Place, Books, NEW k \in Keep, k.degraded = kept.degraded, AfterObserve(k), Observing
  PROVE  Books'
<1>1. kept'.degraded = (kept.degraded \/ phase = "worse")
  BY AfterObserveKeeps
<1>2. at' \notin Mending
  BY DEF AfterObserve, ApplyEnds, Ends, To, Goes, Mending
<1>3. CASE phase = "worse"
  BY <1>1, <1>2, <1>3, OwnedElsewhere, DegradesSaid DEF Books
<1>4. CASE phase # "worse"
  <2>1. phase' \notin {"again", "over", "back", "worse"} \/ phase' = phase
    BY DEF AfterObserve, ApplyEnds, Ends, To, Goes, Applies, Restores
  <2>2. phase \notin {"again", "back"}
    BY DEF Observing
  <2>3. CASE phase = "over"
    BY <1>1, <1>2, <2>3, OwnedElsewhere, DegradesSaid DEF Books, Degrades
  <2>4. CASE phase # "over"
    BY <1>2, <1>4, <2>1, <2>2, <2>4, OwnedElsewhere, DegradesElsewhere DEF Books, Mending
  <2> QED BY <2>3, <2>4
<1> QED BY <1>3, <1>4

LEMMA BooksAuxEnds ==
  ASSUME Types, Place, Books, at \in Mending, NEW k \in Keep,
         kept.degraded => k.degraded, AuxEnds(k)
  PROVE  Books' /\ (k.degraded => kept'.degraded)
<1>1. CASE op = "aux"
  BY <1>1, OwnedElsewhere, DegradesElsewhere DEF AuxEnds, Ends, Books, Mending
<1>2. CASE op # "aux"
  <2>1. AfterObserve(k) /\ Observing
    BY <1>2, WhereObserving DEF AuxEnds
  <2>2. k.degraded => kept'.degraded
    BY <2>1, AfterObserveKeeps
  <2>3. CASE k.degraded
    <3>1. at' \notin Mending
      BY <2>1 DEF AfterObserve, ApplyEnds, Ends, To, Goes, Mending
    <3> QED BY <2>2, <2>3, <3>1, OwnedElsewhere, DegradesSaid DEF Books
  <2>4. CASE ~k.degraded
    BY <2>1, <2>2, <2>4, BooksAfterObserve DEF Keep, Types
  <2> QED BY <2>2, <2>3, <2>4
<1> QED BY <1>1, <1>2

LEMMA OwnedStays ==
  ASSUME Types, Owned, at \in Mending, op' = op, kept' = aux.from \/ at' = "note",
         UNCHANGED aux
         \/ (\E w : aux' = [aux EXCEPT !.why = w]) \/ (\E b : aux' = [aux EXCEPT !.again = b]),
         aux \in Changes
  PROVE  Owned'
<1>1. aux'.from = aux.from /\ aux'.new = aux.new /\ aux'.dev = aux.dev
  BY DEF Changes, Change
<1> QED BY <1>1 DEF Owned

LEMMA DegradesStays ==
  ASSUME Degrades, UNCHANGED phase, at' \notin {"save", "note"},
         kept.degraded => kept'.degraded
  PROVE  Degrades'
PROOF BY DEF Degrades

LEMMA BooksMend ==
  ASSUME Types, Place, Books, AuxWrite \/ Commit \/ Compensate \/ Repair \/ Note
  PROVE  Books'
<1>1. /\ at \in Mending /\ aux \in Changes /\ aux.from \in Keep /\ aux.new \in Keep
      /\ kept \in Keep
  BY MendingChanges DEF AuxWrite, Commit, Compensate, Repair, Note, Mending, Types
<1>2. Owned /\ Degrades /\ aux.new.degraded = aux.from.degraded
  BY <1>1 DEF Books, Owned
<1>3. CASE AuxWrite
  <2>1. /\ UNCHANGED <<op, phase, kept>> /\ at' \in {"commit", "compensate"} /\ kept = aux.from
        /\ UNCHANGED aux \/ aux' = [aux EXCEPT !.why = "write"]
    BY <1>2, <1>3 DEF AuxWrite, AuxTo, plan, memory, Owned, Mending
  <2> QED BY <1>1, <1>2, <2>1, OwnedStays, DegradesStays DEF Books
<1>4. CASE Commit
  <2>1. kept = aux.from
    BY <1>2, <1>4 DEF Commit, Owned, Mending
  <2>2. CASE AuxEnds(aux.new)
    BY <1>1, <1>2, <2>1, <2>2, BooksAuxEnds
  <2>3. CASE /\ at' = "compensate" /\ aux' = [aux EXCEPT !.why = "save"]
             /\ UNCHANGED <<kept, op, phase>>
    BY <1>1, <1>2, <2>1, <2>3, OwnedStays, DegradesStays DEF Books
  <2> QED BY <1>4, <2>2, <2>3 DEF Commit
<1>5. CASE Compensate
  <2>1. kept = aux.from
    BY <1>2, <1>5 DEF Compensate, Owned, Mending
  <2>2. PICK h, good : Compensated(h, good)
    BY <1>5, CompensateSplit
  <2>3. CASE aux.why = "save"
    <3>1. /\ kept' = aux.from /\ at' = "repair" /\ UNCHANGED <<op, phase>>
          /\ aux' = [aux EXCEPT !.again = ~good]
      BY <2>2, <2>3 DEF Compensated
    <3> QED BY <1>1, <1>2, <2>1, <3>1, OwnedStays, DegradesStays DEF Books
  <2>4. CASE aux.why = "write" /\ good
    BY <1>1, <1>2, <2>1, <2>2, <2>4, BooksAuxEnds DEF Compensated
  <2>5. CASE aux.why # "save" /\ ~(aux.why = "write" /\ good)
    <3>1. kept' = Worse(aux.from) /\ at' = "note" /\ UNCHANGED <<op, phase, aux>>
      BY <2>2, <2>5 DEF Compensated, AuxTo, plan
    <3> QED BY <1>1, <1>2, <3>1, OwnedStays, DegradesSaid, KeepTypes DEF Books
  <2> QED BY <2>3, <2>4, <2>5
<1>6. CASE Repair
  <2>1. CASE AuxEnds(kept)
    BY <1>1, <1>2, <2>1, BooksAuxEnds
  <2>2. CASE kept' = Worse(kept) /\ at' = "note"
    <3>1. op' = op /\ (UNCHANGED aux \/ aux' = [aux EXCEPT !.again = FALSE])
      BY <1>6, <2>2 DEF Repair, AuxTo, plan, AuxEnds, AfterObserve, Ends, ApplyEnds, Goes, To
    <3> QED BY <1>1, <1>2, <2>2, <3>1, OwnedStays, DegradesSaid, KeepTypes DEF Books
  <2> QED BY <1>6, <2>1, <2>2 DEF Repair, AuxTo
<1>7. CASE Note
  <2>1. kept.degraded
    BY <1>2, <1>7 DEF Note, Degrades
  <2>2. CASE AuxEnds(kept)
    BY <1>1, <1>2, <2>2, BooksAuxEnds
  <2>3. CASE /\ at' = "note" /\ aux' = [aux EXCEPT !.again = FALSE]
             /\ UNCHANGED <<op, phase, goal, before, kept>>
    BY <1>1, <1>2, <2>1, <2>3, OwnedStays, DegradesSaid DEF Books
  <2> QED BY <1>7, <2>2, <2>3 DEF Note
<1> QED BY <1>3, <1>4, <1>5, <1>6, <1>7

LEMMA BooksLook ==
  ASSUME Types, Place, Books, Look PROVE Books'
<1>1. op # "aux" /\ at = "observe"
  BY DEF Look, Place, Where, Moving, Mending, Applies, Restores
<1>2. Observing
  BY <1>1, WhereObserving
<1>3. kept \in Keep /\ Read(kept) \in Keep /\ Read(kept).degraded = kept.degraded
  BY ReadKeeps DEF Types
<1>4. PICK k \in Keep :
        /\ k.degraded = kept.degraded
        /\ \/ /\ kept' = k /\ at' = "write" /\ aux' = ChargeEnds(k)
              /\ UNCHANGED <<op, phase, goal, before>>
           \/ AfterObserve(k)
  BY <1>3, LookSplit
<1>5. CASE AfterObserve(k)
  BY <1>2, <1>4, <1>5, BooksAfterObserve
<1>6. CASE /\ kept' = k /\ at' = "write" /\ aux' = ChargeEnds(k)
           /\ UNCHANGED <<op, phase, goal, before>>
  <2>1. /\ aux'.from = k /\ aux'.dev = "limit" /\ aux'.new.degraded = k.degraded
        /\ aux'.new.desired = k.desired
    BY <1>6 DEF ChargeEnds, Keep
  <2> QED BY <1>4, <1>6, <2>1, DegradesStays DEF Books, Owned
<1> QED BY <1>4, <1>5, <1>6

LEMMA BooksElsewhere ==
  ASSUME at' \notin Mending \cup {"save"}, phase' \notin {"again", "over"}
  PROVE  Books'
PROOF BY OwnedElsewhere, DegradesElsewhere DEF Books, Mending

LEMMA BooksFailed ==
  ASSUME Types, Setter, NEW h, Failed(h) PROVE Books'
<1>1. CASE phase \in {"try", "undo", "query"}
  <2>1. at' \in {"observe", "ppd"} /\ phase' \in {"undo", "worse"}
    BY <1>1 DEF Failed, To, Goes
  <2> QED BY <2>1, BooksElsewhere DEF Mending
<1>2. CASE phase = "back"
  <2>1. kept' = Worse(kept) /\ at' = "save"
    BY <1>2 DEF Failed, To, Goes
  <2> QED BY <2>1, KeepTypes, OwnedElsewhere, DegradesSaid DEF Books, Mending, Types
<1> QED BY <1>1, <1>2 DEF Setter

LEMMA BooksApplied ==
  ASSUME Types, Setter, Applied PROVE Books'
<1>1. CASE phase \in {"try", "undo", "query"}
  <2>1. at' = "observe" /\ phase' \in {"try", "undo", "good"}
    BY <1>1 DEF Applied, To, Goes
  <2> QED BY <2>1, BooksElsewhere DEF Mending
<1>2. CASE phase = "back"
  <2>1. kept' = Worse(kept) /\ at' = "save"
    BY <1>2 DEF Applied, To, Goes
  <2> QED BY <2>1, KeepTypes, OwnedElsewhere, DegradesSaid DEF Books, Mending, Types
<1> QED BY <1>1, <1>2 DEF Setter

LEMMA BooksApplyEnds ==
  ASSUME NEW b, ApplyEnds(b) PROVE Books'
<1>1. at' \in {"none", "disarm", "battery"} /\ phase' = "none"
  BY DEF ApplyEnds, Ends, Goes
<1> QED BY <1>1, BooksElsewhere DEF Mending

LEMMA BooksApply ==
  ASSUME Types, Place, Policy \/ Ppd \/ Lower \/ Fans \/ Drop \/ Power \/ Tune \/ StockBack
  PROVE  Books'
<1>1. Setter
  BY WhereMoving DEF Policy, Ppd, Lower, Fans, Drop, Power, Tune, StockBack, Moving
<1>2. ASSUME NEW a \in Moving, To(a) PROVE Books'
  <2>1. phase' \notin {"again", "over"} /\ at' = a
    BY <1>1, <1>2 DEF Setter, To, Goes
  <2> QED BY <2>1, BooksElsewhere DEF Moving, Mending
<1>3. ASSUME NEW h, Failed(h) PROVE Books'
  BY <1>1, <1>3, BooksFailed
<1>4. CASE Policy
  BY <1>2, <1>3, <1>4, BooksApplyEnds DEF Policy, Moving
<1>5. CASE Ppd
  BY <1>2, <1>3, <1>5 DEF Ppd, First, Moving
<1>6. CASE Lower \/ Power
  BY <1>2, <1>3, <1>6 DEF Lower, Power, PowerStep, FanStep, Moving
<1>7. CASE Fans
  BY <1>2, <1>3, <1>7 DEF Fans, Moving
<1>8. CASE Drop
  BY <1>2, <1>3, <1>8 DEF Drop, Moving
<1>9. CASE Tune
  BY <1>1, <1>3, <1>9, BooksApplied DEF Tune
<1>10. CASE StockBack
  <2>1. CASE Goes(op, "good", "observe")
    BY <2>1, BooksElsewhere DEF Goes, Mending
  <2> QED BY <1>3, <1>10, <2>1 DEF StockBack
<1> QED BY <1>4, <1>5, <1>6, <1>7, <1>8, <1>9, <1>10

LEMMA BooksSave ==
  ASSUME Types, Place, Books, Save \/ SaveFails PROVE Books'
<1>1. \/ op \in Applies /\ phase \in {"try", "undo", "back", "again"}
      \/ op \in Restores \cup {"sleep", "query"} /\ phase \in {"none", "worse"}
  BY DEF Save, SaveFails, Place, Where, Moving, Mending
<1>2. phase \in {"back", "again"} => kept.degraded
  BY DEF Books, Degrades, Save, SaveFails
<1>3. at' \notin Mending
  BY DEF Save, SaveFails, ApplyEnds, Ends, To, Goes, Mending
<1>4. CASE Save
  <2>1. kept' = kept
    BY <1>4 DEF Save, memory
  <2>2. at' # "save" /\ (phase \in {"back", "again"} \/ phase' \notin {"again", "over"})
    BY <1>1, <1>4 DEF Save, ApplyEnds, Ends, To, Goes, Applies, Restores
  <2> QED BY <1>2, <1>3, <2>1, <2>2, BooksElsewhere, OwnedElsewhere, DegradesSaid DEF Books
<1>5. CASE SaveFails
  <2>1. CASE op \in Applies /\ phase = "try"
    <3>1. (kept' = Worse(before) /\ at' = "save") \/ (at' = "ppd" /\ phase' = "back")
      BY <1>5, <2>1 DEF SaveFails, Goes, Applies, Restores
    <3>2. CASE kept' = Worse(before)
      <4>1. kept'.degraded
        BY <3>2, KeepTypes DEF Types
      <4> QED BY <1>3, <4>1, OwnedElsewhere, DegradesSaid DEF Books
    <3>3. CASE at' = "ppd" /\ phase' = "back"
      BY <3>3, BooksElsewhere DEF Mending
    <3> QED BY <3>1, <3>2, <3>3
  <2>2. CASE op \in Applies /\ phase \in {"back", "again"}
    <3>1. kept' = kept
      BY <1>5, <2>2 DEF SaveFails, Applies, Restores
    <3> QED BY <1>2, <1>3, <2>2, <3>1, OwnedElsewhere, DegradesSaid DEF Books
  <2>3. CASE ~(op \in Applies /\ phase \in {"try", "back", "again"})
    <3>1. at' # "save" /\ phase' \notin {"again", "over"}
      BY <1>1, <1>5, <2>3 DEF SaveFails, ApplyEnds, Ends, To, Goes, Applies, Restores
    <3> QED BY <1>3, <3>1, BooksElsewhere
  <2> QED BY <2>1, <2>2, <2>3
<1> QED BY <1>4, <1>5

LEMMA BooksRestore ==
  ASSUME Place, RestorePanelOverdrive \/ RestoreBatteryPolicy \/ RestoreLighting
                \/ Disarm \/ ReleaseForSleep
  PROVE  Books'
<1>1. phase = "none" /\ at \in {"panel", "battery", "light", "disarm", "release"}
  BY DEF RestorePanelOverdrive, RestoreBatteryPolicy, RestoreLighting, Part,
     Disarm, ReleaseForSleep, Place, Where, Moving, Mending
<1>2. at' \notin Mending \cup {"save"}
  <2>1. ASSUME NEW part \in {"panel", "battery", "light"}, NEW due, NEW h, Part(part, due, h)
        PROVE  at' \notin Mending \cup {"save"}
    BY <2>1 DEF Part, NextRestore, Ends, To, Goes, Mending
  <2> QED
    BY <2>1 DEF RestorePanelOverdrive, RestoreBatteryPolicy, RestoreLighting, Disarm,
       ReleaseForSleep, To, Goes, Mending
<1>3. phase' = "none"
  BY <1>1 DEF RestorePanelOverdrive, RestoreBatteryPolicy, RestoreLighting, Part, Disarm,
     ReleaseForSleep, To, Goes, Ends
<1> QED BY <1>2, <1>3, BooksElsewhere

LEMMA BooksStart ==
  ASSUME Types, Place, Request \/ Observe \/ Suspend \/ Resume \/ Boot \/ Stops PROVE Books'
<1>1. kept \in Keep
  BY DEF Types
<1>2. ASSUME NEW d, NEW v, NEW b, NEW n \in Keep, Begin(d, v, b, n), n.degraded = kept.degraded,
             d # "fans" => n.desired = kept.desired,
             d = "fans" => n.desired = Released(kept.desired)
      PROVE  Books'
  <2>1. op' = "aux" /\ at' = "write" /\ phase' = "none" /\ kept' = kept
    BY <1>2 DEF Begin, Free, Place, Where, Applies, Restores, memory
  <2>2. aux'.from = kept /\ aux'.new = n /\ aux'.dev = d
    BY <1>2 DEF Begin
  <2> QED BY <1>2, <2>1, <2>2, DegradesElsewhere DEF Books, Owned
<1>3. CASE SetBatteryLimit \/ SetBatteryOneTimeCharge \/ SetPanelOverdrive \/ SetLighting
  <2>1. CASE SetBatteryLimit
    BY <1>1, <1>2, <2>1, RequestsWanted DEF SetBatteryLimit, Keep
  <2>2. CASE SetBatteryOneTimeCharge
    <3> DEFINE normal == IF kept.limit = NoWatts THEN hw.limit ELSE kept.limit
    <3>1. PICK enabled \in BOOLEAN :
            Begin("limit", LimitFor(enabled, normal), hw.limit,
                  [kept EXCEPT !.limit = normal, !.onetime = enabled])
      BY <2>2 DEF SetBatteryOneTimeCharge
    <3>2. normal \in 0..100
      BY <1>1 DEF Types, Hardware, Keep
    <3> HIDE DEF normal
    <3> DEFINE n == [kept EXCEPT !.limit = normal, !.onetime = enabled]
    <3>3. n \in Keep /\ n.degraded = kept.degraded /\ n.desired = kept.desired
      BY <1>1, <3>2 DEF Keep
    <3> HIDE DEF n
    <3>4. Begin("limit", LimitFor(enabled, normal), hw.limit, n)
      BY <3>1 DEF n
    <3> QED BY <1>2, <3>3, <3>4
  <2>3. CASE SetPanelOverdrive
    BY <1>1, <1>2, <2>3 DEF SetPanelOverdrive, Keep
  <2>4. CASE SetLighting
    BY <1>1, <1>2, <2>4 DEF SetLighting, Keep
  <2> QED BY <1>3, <2>1, <2>2, <2>3, <2>4
<1>4. CASE ReleaseFans
  <2>1. Begin("fans", "auto", "none", [kept EXCEPT !.desired = Released(kept.desired)])
    BY <1>1, <1>4 DEF ReleaseFans, Released, Keep
  <2>2. Released(kept.desired) \in Wanted
    BY <1>1, DefaultTypes DEF Released, Keep, Wanted
  <2> QED BY <1>1, <1>2, <2>1, <2>2 DEF Keep
<1>5. CASE Apply \/ FactoryFanCurves \/ Observe \/ Suspend \/ Resume \/ Boot \/ Stops
  <2>1. /\ at' \in {"policy", "stock", "observe", "release", "battery", "panel", "none"}
        /\ phase' \in {"try", "query", "none"}
    BY <1>5 DEF Apply, FactoryFanCurves, Observe, Suspend, Resume, Boot, Stops, Goes
  <2> QED BY <2>1, BooksElsewhere DEF Mending
<1> QED BY <1>3, <1>4, <1>5 DEF Request

LEMMA BooksHold == ASSUME Types, Place, Books, [Next]_vars PROVE Books'
<1>1. CASE Hotplug \/ Charge
  <2>1. at' = at /\ phase' = phase /\ at = "none" /\ phase = "none"
    BY <1>1 DEF Hotplug, Charge, Free, plan, Place, Where, Applies, Restores
  <2> QED BY <2>1, BooksElsewhere DEF Mending
<1>2. CASE Unplug \/ Plug \/ UNCHANGED vars
  <2>1. UNCHANGED <<kept, op, at, phase, aux>>
    BY <1>2, Beside DEF Types
  <2> QED BY <2>1 DEF Books, Owned, Degrades
<1> QED
  BY <1>1, <1>2, BooksApply, BooksSave, BooksLook, BooksMend, BooksRestore, BooksStart
     DEF Next, Step

(***************************************************************************)
(* Part 5. The file agrees with the memory.                                *)
(***************************************************************************)
Durably(k) == [desired |-> k.desired, onetime |-> k.onetime, light |-> k.light]

(* A request that is not saved yet, or one that is being taken back.       *)
Trying == op \in Applies /\ phase = "try"
Unsaved ==
  \/ Trying /\ at \in {"observe", "save"} \cup Mending
  \/ phase = "back"
  \/ at = "compensate" /\ aux.why = "save"
  \/ at = "repair"

Agrees(k, f) == f.kind = "state" => Durably(f.is) = Durably(k)

InSync ==
  mode = "rw" /\ ~kept.degraded /\ op # "off" /\ ~Unsaved => Agrees(kept, file)

LEMMA InSyncStays ==
  ASSUME InSync, op # "off", ~Unsaved, mode' = mode, file' = file,
         Durably(kept') = Durably(kept), kept.degraded => kept'.degraded
  PROVE  InSync'
PROOF BY DEF InSync, Agrees

LEMMA InSyncSaved ==
  ASSUME NEW k, file' = State(k), Durably(kept') = Durably(k) PROVE InSync'
PROOF BY DEF InSync, Agrees, State

LEMMA InSyncBroken ==
  ASSUME InSync, op # "off", ~Unsaved, NotSaved(kept), mode' = mode, kept' = kept
  PROVE  InSync'
<1>1. file' = file \/ file' = State(kept)
  BY DEF NotSaved, SaveRefused, SaveBroken
<1> QED BY <1>1, InSyncStays, InSyncSaved

LEMMA InSyncDegraded == kept'.degraded => InSync'
PROOF BY DEF InSync

LEMMA InSyncWorse ==
  ASSUME NEW k \in Keep, kept' = Worse(k) PROVE InSync'
<1>1. kept'.degraded
  BY KeepTypes
<1> QED BY <1>1, InSyncDegraded

LEMMA InSyncUnsaved == Unsaved' => InSync'
PROOF BY DEF InSync

LEMMA UnsavedBack == (phase' = "back" \/ at' = "repair") => Unsaved'
PROOF BY DEF Unsaved

LEMMA SyncGoesOn ==
  ASSUME Types, InSync, op # "off", ~Unsaved, mode' = mode, file' = file,
         kept' = kept \/ kept' = Worse(kept)
  PROVE  InSync'
<1>1. CASE kept' = kept
  BY <1>1, InSyncStays
<1>2. CASE kept' = Worse(kept)
  BY <1>2, KeepTypes, InSyncDegraded DEF Types
<1> QED BY <1>1, <1>2

LEMMA SyncFailed ==
  ASSUME Types, InSync, Setter, at \in Moving \cup {"policy", "stock"},
         mode' = mode, file' = file, NEW h, Failed(h)
  PROVE  InSync'
<1>1. kept' = kept \/ kept' = Worse(kept)
  BY DEF Failed, Setter
<1>2. phase = "back" => kept' = Worse(kept)
  BY DEF Failed
<1>3. phase # "back" => ~Unsaved
  BY DEF Unsaved, Moving, Mending
<1>4. op # "off"
  BY DEF Setter, Applies, Restores
<1>5. kept \in Keep
  BY DEF Types
<1> QED BY <1>1, <1>2, <1>3, <1>4, <1>5, SyncGoesOn, InSyncWorse

LEMMA SyncApplied ==
  ASSUME Types, InSync, Setter, at \in Moving \cup {"policy", "stock"},
         mode' = mode, file' = file, Applied
  PROVE  InSync'
<1>1. CASE phase = "try"
  <2>1. Unsaved'
    BY <1>1 DEF Applied, Setter, To, Goes, Unsaved, Trying
  <2> QED BY <2>1, InSyncUnsaved
<1>2. CASE phase = "back"
  BY <1>2, InSyncWorse DEF Applied, Types
<1>3. CASE phase \in {"undo", "query"}
  <2>1. kept' = kept /\ ~Unsaved
    BY <1>3 DEF Applied, Unsaved, Trying, Moving, Mending
  <2>2. op # "off"
    BY DEF Setter, Applies, Restores
  <2> QED BY <2>1, <2>2, SyncGoesOn
<1> QED BY <1>1, <1>2, <1>3 DEF Setter

LEMMA SyncTo ==
  ASSUME Types, InSync, Setter, at \in Moving \cup {"policy", "stock"},
         mode' = mode, file' = file, kept' = kept, phase' = phase \/ phase # "back"
  PROVE  InSync'
<1>1. CASE phase = "back"
  BY <1>1, InSyncUnsaved, UnsavedBack
<1>2. CASE phase # "back"
  <2>1. ~Unsaved /\ op # "off"
    BY <1>2 DEF Unsaved, Moving, Mending, Setter, Applies, Restores
  <2> QED BY <2>1, SyncGoesOn
<1> QED BY <1>1, <1>2

LEMMA SyncApply ==
  ASSUME Types, Place, InSync,
         Policy \/ Ppd \/ Lower \/ Fans \/ Drop \/ Power \/ Tune \/ StockBack
  PROVE  InSync'
<1>1. at \in Moving \cup {"policy", "stock"}
  BY DEF Policy, Ppd, Lower, Fans, Drop, Power, Tune, StockBack, Moving
<1>2. Setter /\ (at = "policy" => phase \in {"try", "query"})
  BY <1>1, WhereMoving
<1>3. mode' = mode /\ file' = file
  BY DEF Policy, Ppd, Lower, Fans, Drop, Power, Tune, StockBack, disk
<1>4. ASSUME NEW h, Failed(h) PROVE InSync'
  BY <1>1, <1>2, <1>3, <1>4, SyncFailed
<1>5. ASSUME NEW a, To(a), kept' = kept PROVE InSync'
  BY <1>1, <1>2, <1>3, <1>5, SyncTo DEF To, Goes
<1>6. CASE Policy
  <2>1. CASE ApplyEnds(TRUE) /\ kept' = kept
    <3>1. phase # "back"
      BY <1>2, <1>6 DEF Policy
    <3> QED BY <1>1, <1>2, <1>3, <2>1, <3>1, SyncTo
  <2> QED BY <1>4, <1>5, <1>6, <2>1 DEF Policy
<1>7. CASE Ppd
  BY <1>4, <1>5, <1>7 DEF Ppd
<1>8. CASE Lower \/ Power
  BY <1>4, <1>5, <1>8 DEF Lower, Power, PowerStep
<1>9. CASE Fans
  BY <1>4, <1>5, <1>9 DEF Fans
<1>10. CASE Drop
  BY <1>4, <1>5, <1>10 DEF Drop
<1>11. CASE Tune
  BY <1>1, <1>2, <1>3, <1>4, <1>11, SyncApplied DEF Tune
<1>12. CASE StockBack
  <2>1. CASE Goes(op, "good", "observe") /\ kept' = kept
    <3>1. phase # "back"
      BY <1>12 DEF StockBack, Place, Where, Moving, Mending
    <3> QED BY <1>1, <1>2, <1>3, <2>1, <3>1, SyncTo
  <2> QED BY <1>4, <1>12, <2>1 DEF StockBack
<1> QED BY <1>6, <1>7, <1>8, <1>9, <1>10, <1>11, <1>12

LEMMA SyncSave ==
  ASSUME Types, Place, Books, InSync, Save \/ SaveFails PROVE InSync'
<1>1. CASE Save
  <2>1. file' = State(kept) /\ kept' = kept
    BY <1>1 DEF Save, Saved, memory
  <2> QED BY <2>1, InSyncSaved
<1>2. CASE SaveFails
  <2>1. at = "save" /\ NotSaved(kept) /\ mode' = mode
    BY <1>2 DEF SaveFails
  <2>2. CASE op \in Applies /\ phase = "try"
    <3>1. phase' = "back"
      BY <1>2, <2>2 DEF SaveFails, Goes, Applies, Restores
    <3> QED BY <3>1, UnsavedBack, InSyncUnsaved
  <2>3. CASE ~(op \in Applies /\ phase = "try")
    <3>1. kept' = kept
      BY <1>2, <2>3 DEF SaveFails
    <3>2. phase = "back" => kept.degraded
      BY <2>1 DEF Books, Degrades
    <3>3. phase # "back" => ~Unsaved
      BY <2>1, <2>3 DEF Unsaved, Trying
    <3>4. op # "off"
      BY <2>1 DEF Place, Where, Moving, Mending, Applies, Restores
    <3> QED BY <2>1, <3>1, <3>2, <3>3, <3>4, InSyncBroken, InSyncDegraded
  <2> QED BY <2>2, <2>3
<1> QED BY <1>1, <1>2

(* An observation leaves what is durable as it finds it. *)
LEMMA SyncAfterObserve ==
  ASSUME Types, NEW k \in Keep, AfterObserve(k), Observing,
         k.degraded \/ Trying \/ (mode' = "rw" => Agrees(k, file'))
  PROVE  InSync'
<1>1. Durably(kept') = Durably(k) /\ (k.degraded => kept'.degraded)
  BY AfterObserveKeeps DEF Durably
<1>2. CASE k.degraded
  BY <1>1, <1>2, InSyncDegraded
<1>3. CASE Trying
  <2>1. To("save")
    BY <1>3 DEF AfterObserve, Trying, Applies, Restores
  <2>2. Unsaved'
    BY <1>3, <2>1 DEF To, Goes, Unsaved, Trying
  <2> QED BY <2>2, InSyncUnsaved
<1>4. CASE mode' = "rw" => Agrees(k, file')
  BY <1>1, <1>4 DEF InSync, Agrees
<1> QED BY <1>2, <1>3, <1>4

LEMMA SyncAuxEnds ==
  ASSUME Types, Place, at \in Mending, NEW k \in Keep, AuxEnds(k),
         k.degraded \/ Trying \/ (mode' = "rw" => Agrees(k, file'))
  PROVE  InSync'
<1>1. CASE op = "aux"
  <2>1. kept' = k /\ ~Trying
    BY <1>1 DEF AuxEnds, Trying, Applies, Restores
  <2> QED BY <2>1, InSyncDegraded DEF InSync, Agrees
<1>2. CASE op # "aux"
  BY <1>2, WhereObserving, SyncAfterObserve DEF AuxEnds
<1> QED BY <1>1, <1>2

LEMMA SyncLook ==
  ASSUME Types, Place, InSync, Look PROVE InSync'
<1>1. op # "aux" /\ at = "observe" /\ op # "off" /\ mode' = mode /\ file' = file
  BY DEF Look, Place, Where, Moving, Mending, Applies, Restores, disk
<1>2. Observing
  BY <1>1, WhereObserving
<1>3. PICK k \in Keep :
        /\ k.degraded = kept.degraded /\ Durably(k) = Durably(kept)
        /\ \/ /\ kept' = k /\ at' = "write" /\ aux' = ChargeEnds(k)
              /\ UNCHANGED <<op, phase, goal, before>>
           \/ AfterObserve(k)
  BY LookSplit, ReadKeeps DEF Types, Durably
<1>4. Unsaved <=> Trying
  BY <1>1, <1>2 DEF Unsaved, Observing
<1>5. k.degraded \/ Trying \/ (mode' = "rw" => Agrees(k, file'))
  BY <1>1, <1>3, <1>4 DEF InSync, Agrees
<1>6. CASE AfterObserve(k)
  BY <1>2, <1>5, <1>6, SyncAfterObserve
<1>7. CASE /\ kept' = k /\ at' = "write" /\ aux' = ChargeEnds(k)
           /\ UNCHANGED <<op, phase, goal, before>>
  <2>1. Trying => Unsaved'
    BY <1>7 DEF Trying, Unsaved, Mending
  <2> QED BY <1>3, <1>5, <1>7, <2>1, InSyncUnsaved, InSyncDegraded DEF InSync
<1> QED BY <1>3, <1>6, <1>7

LEMMA SyncMend ==
  ASSUME Types, Place, Books, InSync, AuxWrite \/ Commit \/ Compensate \/ Repair \/ Note
  PROVE  InSync'
<1>1. /\ at \in Mending /\ aux \in Changes /\ aux.from \in Keep /\ aux.new \in Keep
      /\ kept \in Keep /\ op # "off" /\ phase # "back"
  BY MendingChanges DEF AuxWrite, Commit, Compensate, Repair, Note, Mending, Types,
     Place, Where, Moving, Applies, Restores
<1>2. Owned /\ Degrades /\ mode' = mode
  BY CompensateSplit DEF Books, AuxWrite, Commit, Repair, Note, memory
<1>3. CASE Trying /\ at' \in Mending /\ UNCHANGED <<op, phase>>
  BY <1>3, InSyncUnsaved DEF Trying, Unsaved
<1>4. CASE AuxWrite
  <2>1. /\ kept' = kept /\ file' = file /\ UNCHANGED <<op, phase>>
        /\ at' \in {"commit", "compensate"}
    BY <1>4 DEF AuxWrite, AuxTo, plan, memory, disk
  <2>2. ~Trying => ~Unsaved
    BY <1>1, <1>4 DEF Unsaved, AuxWrite
  <2> QED BY <1>1, <1>2, <1>3, <2>1, <2>2, SyncGoesOn DEF Mending
<1>5. CASE Commit
  <2>1. CASE Saved(aux.new) /\ AuxEnds(aux.new)
    <3>1. Agrees(aux.new, file')
      BY <2>1 DEF Saved, Agrees, State
    <3> QED BY <1>1, <2>1, <3>1, SyncAuxEnds
  <2>2. CASE at' = "compensate" /\ aux' = [aux EXCEPT !.why = "save"]
    <3>1. aux'.why = "save"
      BY <1>1, <2>2 DEF Changes, Change
    <3> QED BY <2>2, <3>1, InSyncUnsaved DEF Unsaved
  <2> QED BY <1>5, <2>1, <2>2 DEF Commit
<1>6. CASE Compensate
  <2>1. kept = aux.from /\ at = "compensate" /\ file' = file
    BY <1>2, <1>6, CompensateSplit DEF Compensate, Owned, Mending, disk
  <2>2. PICK h, good : Compensated(h, good)
    BY <1>6, CompensateSplit
  <2>3. CASE aux.why = "save"
    BY <2>2, <2>3, UnsavedBack, InSyncUnsaved DEF Compensated
  <2>4. CASE aux.why = "write" /\ good
    <3>1. ~Trying => ~Unsaved
      BY <1>1, <2>1, <2>4 DEF Unsaved
    <3>2. kept.degraded \/ Trying \/ (mode' = "rw" => Agrees(kept, file'))
      BY <1>1, <1>2, <2>1, <3>1 DEF InSync
    <3> QED BY <1>1, <2>1, <2>2, <2>4, <3>2, SyncAuxEnds DEF Compensated
  <2>5. CASE aux.why # "save" /\ ~(aux.why = "write" /\ good)
    BY <1>1, <2>2, <2>5, InSyncWorse DEF Compensated
  <2> QED BY <2>3, <2>4, <2>5
<1>7. CASE Repair
  <2>1. CASE kept' = Worse(kept)
    BY <1>1, <2>1, KeepTypes, InSyncDegraded
  <2>2. CASE Saved(kept) /\ AuxEnds(kept)
    <3>1. Agrees(kept, file')
      BY <2>2 DEF Saved, Agrees, State
    <3> QED BY <1>1, <2>2, <3>1, SyncAuxEnds
  <2> QED BY <1>7, <2>1, <2>2 DEF Repair
<1>8. CASE Note
  <2>1. kept.degraded
    BY <1>2, <1>8 DEF Note, Degrades
  <2> QED BY <1>1, <1>8, <2>1, SyncAuxEnds, InSyncDegraded DEF Note
<1> QED BY <1>4, <1>5, <1>6, <1>7, <1>8

LEMMA SyncRest ==
  ASSUME Types, Place, InSync, ~Stops,
         \/ RestorePanelOverdrive \/ RestoreBatteryPolicy \/ RestoreLighting
         \/ Disarm \/ ReleaseForSleep \/ Request \/ Observe \/ Suspend \/ Resume \/ Hotplug \/ Charge
  PROVE  InSync'
<1>1. op # "off" /\ ~Unsaved
  <2>1. CASE RestorePanelOverdrive \/ RestoreBatteryPolicy \/ RestoreLighting
             \/ Disarm \/ ReleaseForSleep
    <3>1. at \in {"panel", "battery", "light", "disarm", "release"}
      BY <2>1 DEF RestorePanelOverdrive, RestoreBatteryPolicy, RestoreLighting, Part,
         Disarm, ReleaseForSleep
    <3> QED BY <3>1 DEF Place, Where, Moving, Mending, Applies, Restores, Unsaved
  <2>2. CASE Request \/ Observe \/ Suspend \/ Resume \/ Hotplug \/ Charge
    <3>1. op \in {"idle", "asleep"}
      BY <2>2 DEF Request, Apply, SetBatteryLimit, SetBatteryOneTimeCharge, SetPanelOverdrive,
         SetLighting, ReleaseFans, FactoryFanCurves, Begin, Free, Observe, Suspend, Resume,
         Hotplug, Charge
    <3> QED BY <3>1 DEF Place, Where, Moving, Mending, Applies, Restores, Unsaved, Trying
  <2> QED BY <2>1, <2>2
<1>2. mode' = mode /\ file' = file /\ (kept' = kept \/ kept' = Worse(kept))
  <2>1. CASE RestorePanelOverdrive \/ RestoreBatteryPolicy \/ RestoreLighting
    BY <2>1 DEF RestorePanelOverdrive, RestoreBatteryPolicy, RestoreLighting, Part, disk
  <2>2. CASE Disarm \/ ReleaseForSleep \/ Hotplug
    BY <2>2 DEF Disarm, ReleaseForSleep, Hotplug, disk
  <2>3. CASE Request
    BY <2>3 DEF Request, Apply, SetBatteryLimit, SetBatteryOneTimeCharge, SetPanelOverdrive,
       SetLighting, ReleaseFans, FactoryFanCurves, Begin, memory, disk
  <2>4. CASE Observe \/ Suspend \/ Resume \/ Charge
    BY <2>4 DEF Observe, Suspend, Resume, Charge, memory, disk
  <2> QED BY <2>1, <2>2, <2>3, <2>4
<1> QED BY <1>1, <1>2, SyncGoesOn

LEMMA InSyncHolds ==
  ASSUME Types, Place, Books, InSync, [Next]_vars PROVE InSync'
<1>1. CASE Boot
  <2>1. file' = file
    BY <1>1 DEF Boot
  <2>2. file.kind = "state" => kept' = file.is
    BY <1>1 DEF Boot
  <2> QED BY <2>1, <2>2 DEF InSync, Agrees
<1>2. CASE Stops
  BY <1>2 DEF Stops, InSync
<1>3. CASE Unplug \/ Plug \/ UNCHANGED vars
  <2>1. UNCHANGED <<kept, mode, file, op, at, phase, aux>>
    BY <1>3, Beside DEF Types
  <2> QED BY <2>1 DEF InSync, Agrees, Unsaved, Trying
<1> QED
  BY <1>1, <1>2, <1>3, SyncApply, SyncSave, SyncLook, SyncMend, SyncRest DEF Next, Step

BooksInv == Types /\ Place /\ Books

LEMMA BooksInvHolds == (Init => BooksInv) /\ (BooksInv /\ [Next]_vars => BooksInv')
<1>1. Init => BooksInv
  BY TypesStart, PlaceStarts DEF BooksInv, Init, Books, Owned, Degrades, Mending
<1>2. BooksInv /\ [Next]_vars => BooksInv'
  BY TypesHold, PlaceHolds, BooksHold DEF BooksInv
<1> QED BY <1>1, <1>2

(* A restart would bring back the power request, the one-time charge and   *)
(* the light the daemon holds: an error after the rename never leaves a    *)
(* rejected one on disk, unless the daemon says it is degraded or could    *)
(* not write at all (save_state, commit_auxiliary).                        *)
THEOREM FileAgrees == TransactionsSpec => []DurableAgrees
<1>1. Init => BooksInv /\ InSync
  BY BooksInvHolds DEF Init, InSync
<1>2. BooksInv /\ InSync /\ [Next]_vars => (BooksInv /\ InSync)'
  BY BooksInvHolds, InSyncHolds, TypesHold, PlaceHolds, BooksHold DEF BooksInv
<1>3. BooksInv /\ InSync => DurableAgrees
  <2> SUFFICES ASSUME BooksInv, InSync, op = "idle" PROVE DurableAgrees
    BY DEF DurableAgrees
  <2>1. ~Unsaved
    BY DEF BooksInv, Place, Where, Unsaved, Trying, Applies, Restores
  <2> QED BY <2>1 DEF DurableAgrees, InSync, Agrees, Durably
<1> QED BY <1>1, <1>2, <1>3, PTL DEF TransactionsSpec

(***************************************************************************)
(* Part 6. A change of one setting is all or nothing.                      *)
(***************************************************************************)
Written ==
  /\ at = "commit" /\ InReach(aux.dev) => hw[aux.dev] = aux.to
  /\ at = "repair" /\ ~aux.again /\ InReach(aux.dev) => hw[aux.dev] = aux.back

LEMMA WithWrites ==
  ASSUME hw \in Hardware, aux \in Changes, aux.dev # "fans"
  PROVE  With(aux.to)[aux.dev] = aux.to /\ With(aux.back)[aux.dev] = aux.back
<1>1. aux.dev \in DOMAIN hw
  BY ChangeTypes DEF Hardware
<1> QED BY <1>1 DEF With

LEMMA CompensationGood ==
  ASSUME Types, aux \in Changes, Compensation.good, InReach(aux.dev)
  PROVE  aux.dev # "fans" /\ Compensation.done[aux.dev] = aux.back
<1>1. aux.dev # "fans" /\ (aux.dev = "light" => plugged)
  BY DEF InReach
<1>2. ~(aux.dev = "light" /\ aux.back = "none")
  BY <1>1 DEF Compensation
<1>3. Compensation.done = With(aux.back)
  BY <1>1, <1>2 DEF Compensation
<1> QED BY <1>1, <1>3, WithWrites DEF Types

LEMMA CompensatesWith ==
  ASSUME Types, Place, Compensate
  PROVE  \E h, good :
           /\ Compensated(h, good)
           /\ good => Compensation.good /\ (aux.dev # "fans" => h = Compensation.done)
<1> DEFINE G(h, good) ==
      /\ Compensated(h, good)
      /\ good => Compensation.good /\ (aux.dev # "fans" => h = Compensation.done)
<1>1. CASE /\ aux.dev = "fans"
           /\ \E h \in BiosPower(Compensation.done) : Compensated(h, Compensation.good)
  <2>1. PICK h : Compensated(h, Compensation.good)
    BY <1>1
  <2>2. G(h, Compensation.good)
    BY <1>1, <2>1
  <2> QED BY <2>2
<1>2. CASE aux.dev # "fans" /\ Compensated(Compensation.done, Compensation.good)
  <2>1. G(Compensation.done, Compensation.good)
    BY <1>2
  <2> QED BY <2>1
<1>3. CASE \E h \in Compensation.half : Compensated(h, FALSE)
  <2>1. PICK h : Compensated(h, FALSE)
    BY <1>3
  <2>2. G(h, FALSE)
    BY <2>1
  <2> QED BY <2>2
<1> QED BY <1>1, <1>2, <1>3, CompensateSplit

LEMMA AuxEndsAway == ASSUME NEW k, AuxEnds(k) PROVE at' \notin Mending
PROOF BY DEF AuxEnds, AfterObserve, ApplyEnds, Ends, To, Goes, Mending

LEMMA WrittenElsewhere ==
  ASSUME Types, Place, Next, ~(AuxWrite \/ Compensate \/ Unplug \/ Plug)
  PROVE  at' \notin {"commit", "repair"}
<1>1. CASE Policy \/ Ppd \/ Lower \/ Fans \/ Drop \/ Power \/ Tune \/ StockBack
  <2>1. Setter
    BY <1>1, WhereMoving DEF Policy, Ppd, Lower, Fans, Drop, Power, Tune, StockBack, Moving
  <2>2. ASSUME NEW h, Failed(h) PROVE at' \notin {"commit", "repair"}
    BY <2>1, <2>2 DEF Failed, Setter, To, Goes
  <2>3. Applied => at' \notin {"commit", "repair"}
    BY <2>1 DEF Applied, Setter, To, Goes
  <2>4. \A next \in Moving : PowerStep(next) => at' \notin {"commit", "repair"}
    BY <2>2 DEF PowerStep, To, Goes, Moving
  <2>5. CASE Policy \/ Ppd
    BY <2>2, <2>5 DEF Policy, Ppd, First, ApplyEnds, Ends, To, Goes
  <2>6. CASE Fans \/ Drop
    BY <2>2, <2>6 DEF Fans, Drop, To, Goes
  <2>7. CASE Lower \/ Power
    BY <2>4, <2>7 DEF Lower, Power, FanStep, Moving
  <2>8. CASE Tune \/ StockBack
    BY <2>2, <2>3, <2>8 DEF Tune, StockBack, Goes
  <2> QED BY <1>1, <2>5, <2>6, <2>7, <2>8
<1>2. CASE Save \/ SaveFails
  BY <1>2 DEF Save, SaveFails, ApplyEnds, Ends, To, Goes
<1>3. CASE Look
  BY <1>3, LookSplit DEF AfterObserve, ApplyEnds, Ends, To, Goes
<1>4. CASE Commit \/ Repair \/ Note
  BY <1>4, AuxEndsAway DEF Commit, Repair, Note, AuxTo, Mending
<1>5. CASE RestorePanelOverdrive \/ RestoreBatteryPolicy \/ RestoreLighting
           \/ Disarm \/ ReleaseForSleep
  <2>1. ASSUME NEW part \in {"panel", "battery", "light"}, NEW due, NEW h, Part(part, due, h)
        PROVE  at' \notin {"commit", "repair"}
    BY <2>1 DEF Part, NextRestore, Ends, To, Goes
  <2> QED
    BY <1>5, <2>1 DEF RestorePanelOverdrive, RestoreBatteryPolicy, RestoreLighting, Disarm,
       ReleaseForSleep, To, Goes
<1>6. CASE Request
  BY <1>6 DEF Request, Apply, SetBatteryLimit, SetBatteryOneTimeCharge, SetPanelOverdrive,
     SetLighting, ReleaseFans, FactoryFanCurves, Begin
<1>7. CASE Observe \/ Suspend \/ Resume \/ Boot \/ Stops
  BY <1>7 DEF Observe, Suspend, Resume, Boot, Stops, Goes
<1>8. CASE Hotplug \/ Charge
  BY <1>8 DEF Hotplug, Charge, Free, Place, Where, Applies, Restores
<1> QED BY <1>1, <1>2, <1>3, <1>4, <1>5, <1>6, <1>7, <1>8 DEF Next, Step

LEMMA WrittenHolds ==
  ASSUME Types, Place, Written, [Next]_vars PROVE Written'
<1>1. CASE AuxWrite
  <2>1. hw \in Hardware /\ aux \in Changes /\ at' # "repair"
    BY <1>1, MendingChanges DEF AuxWrite, AuxTo, Mending, Types
  <2>2. CASE at' = "commit"
    <3>1. aux' = aux /\ (aux.dev # "fans" => hw' = With(aux.to))
      BY <1>1, <2>2 DEF AuxWrite, AuxTo, plan
    <3>2. InReach(aux.dev)' => aux.dev # "fans"
      BY <3>1 DEF InReach
    <3> QED BY <2>1, <2>2, <3>1, <3>2, WithWrites DEF Written
  <2> QED BY <2>1, <2>2 DEF Written
<1>2. CASE Compensate
  <2>1. aux \in Changes /\ UNCHANGED <<world, mode, disk>>
    BY <1>2, CompensateSplit
  <2>2. CASE at' = "repair"
    <3>1. PICK h, good :
            /\ Compensated(h, good)
            /\ good => Compensation.good /\ (aux.dev # "fans" => h = Compensation.done)
      BY <1>2, CompensatesWith
    <3>2. aux.why = "save"
      BY <2>2, <3>1, AuxEndsAway DEF Compensated, AuxTo, Mending
    <3>3. hw' = h /\ aux' = [aux EXCEPT !.again = ~good]
      BY <3>1, <3>2 DEF Compensated
    <3>4. aux'.dev = aux.dev /\ aux'.back = aux.back /\ aux'.again = ~good
      BY <2>1, <3>3 DEF Changes, Change
    <3>5. InReach(aux.dev)' <=> InReach(aux.dev)
      BY <2>1, <3>4 DEF InReach, world
    <3>6. ~aux'.again /\ InReach(aux.dev)' => hw'[aux.dev] = aux.back
      BY <2>1, <3>1, <3>3, <3>4, <3>5, CompensationGood
    <3> QED BY <2>2, <3>4, <3>6 DEF Written
  <2>3. at' # "commit"
    BY <1>2, CompensateSplit, AuxEndsAway DEF Compensated, AuxTo, Mending
  <2> QED BY <2>2, <2>3 DEF Written
<1>3. CASE Unplug \/ Plug \/ UNCHANGED vars
  <2>1. UNCHANGED <<at, aux>> /\ hw'.limit = hw.limit /\ hw'.overdrive = hw.overdrive
    BY <1>3, Beside DEF Types
  <2>2. ~UNCHANGED vars => ~plugged' \/ reconnected'
    BY <1>3 DEF Unplug, Plug
  <2>3. UNCHANGED vars => UNCHANGED <<hw, plugged, reconnected>>
    BY DEF vars, world
  <2> QED BY <2>1, <2>2, <2>3 DEF Written, InReach
<1>4. CASE Next /\ ~(AuxWrite \/ Compensate \/ Unplug \/ Plug)
  BY <1>4, WrittenElsewhere DEF Written
<1> QED BY <1>1, <1>2, <1>3, <1>4

LEMMA SettingStays ==
  ASSUME Types, Place, Books, at \in Mending, NEW k \in Keep, AuxEnds(k)
  PROVE  Setting(kept', aux.dev) = Setting(k, aux.dev)
<1>1. CASE op = "aux"
  BY <1>1 DEF AuxEnds
<1>2. CASE op # "aux"
  <2>1. aux.dev = "limit"
    BY <1>2 DEF Books, Owned
  <2>2. kept'.limit = k.limit /\ kept'.onetime = k.onetime
    BY <1>2, AfterObserveKeeps DEF AuxEnds
  <2> QED BY <2>1, <2>2 DEF Setting
<1> QED BY <1>1, <1>2

Whole ==
  \/ /\ Setting(kept', aux.dev) = Setting(aux.new, aux.dev)
     /\ InReach(aux.dev) => hw'[aux.dev] = aux.to
  \/ /\ Setting(kept', aux.dev) = Setting(aux.from, aux.dev)
     /\ InReach(aux.dev) => hw'[aux.dev] = aux.back

LEMMA AtomicStep ==
  ASSUME Types, Place, Books, Written, [Next]_vars,
         aux.dev # "none", aux'.dev = "none", op' # "off", ~kept'.degraded
  PROVE  Whole
<1>1. /\ at \in Mending /\ aux \in Changes /\ aux.from \in Keep /\ aux.new \in Keep
      /\ kept \in Keep /\ hw \in Hardware
  BY MendingChanges DEF Place, Types
<1>2. Owned /\ Degrades
  BY DEF Books
<1>3. /\ \A w : [aux EXCEPT !.why = w].dev # "none"
      /\ \A b : [aux EXCEPT !.again = b].dev # "none"
  BY <1>1 DEF Changes, Change
<1>4. AuxWrite \/ Commit \/ Compensate \/ Repair \/ Note
  <2>1. ~(Unplug \/ Plug \/ UNCHANGED vars) /\ ~Stops
    BY <1>1, Beside DEF Stops
  <2>2. op \notin {"off", "idle", "asleep"}
    BY <1>1 DEF Place, Where, Moving, Mending, Applies, Restores
  <2>3. ~(Request \/ Observe \/ Suspend \/ Resume \/ Hotplug \/ Boot \/ Charge)
    BY <2>2 DEF Request, Apply, SetBatteryLimit, SetBatteryOneTimeCharge, SetPanelOverdrive,
       SetLighting, ReleaseFans, FactoryFanCurves, Begin, Free, Observe, Suspend, Resume,
       Hotplug, Boot, Charge
  <2>4. ~(Policy \/ Ppd \/ Lower \/ Fans \/ Drop \/ Power \/ Tune \/ Save \/ SaveFails \/ Look
          \/ StockBack \/ RestorePanelOverdrive \/ RestoreBatteryPolicy \/ RestoreLighting
          \/ Disarm \/ ReleaseForSleep)
    BY <1>1 DEF Policy, Ppd, Lower, Fans, Drop, Power, Tune, Save, SaveFails, Look, StockBack,
       RestorePanelOverdrive, RestoreBatteryPolicy, RestoreLighting, Part, Disarm,
       ReleaseForSleep, Mending
  <2> QED BY <2>1, <2>3, <2>4 DEF Next, Step
<1>5. CASE AuxWrite
  BY <1>1, <1>3, <1>5 DEF AuxWrite, AuxTo, plan
<1>6. CASE Commit
  <2>1. AuxEnds(aux.new) /\ hw' = hw
    BY <1>3, <1>6 DEF Commit
  <2> QED BY <1>1, <1>6, <2>1, SettingStays DEF Commit, Written, Whole
<1>7. CASE Compensate
  <2>1. PICK h, good :
          /\ Compensated(h, good)
          /\ good => Compensation.good /\ (aux.dev # "fans" => h = Compensation.done)
    BY <1>7, CompensatesWith
  <2>2. aux.why = "write" /\ good /\ AuxEnds(aux.from)
    BY <1>3, <2>1 DEF Compensated, AuxTo, plan
  <2>3. Setting(kept', aux.dev) = Setting(aux.from, aux.dev)
    BY <1>1, <2>2, SettingStays
  <2>4. InReach(aux.dev) => hw'[aux.dev] = aux.back
    BY <1>1, <2>1, <2>2, CompensationGood DEF Compensated
  <2> QED BY <2>3, <2>4 DEF Whole
<1>8. CASE Repair
  <2>1. AuxEnds(kept) /\ ~aux.again /\ hw' = hw /\ kept = aux.from
    BY <1>2, <1>3, <1>8 DEF Repair, AuxTo, plan, Owned, Mending
  <2> QED BY <1>1, <1>8, <2>1, SettingStays DEF Repair, Written, Whole
<1>9. CASE Note
  <2>1. kept.degraded
    BY <1>2, <1>9 DEF Note, Degrades
  <2> QED BY <1>1, <1>3, <1>9, <2>1, BooksAuxEnds DEF Note
<1> QED BY <1>4, <1>5, <1>6, <1>7, <1>8, <1>9

(* A transaction is all or nothing in memory and in the hardware, or the   *)
(* daemon says it is degraded; what it did not change it leaves as it was  *)
(* found (apply_and_commit_auxiliary).                                     *)
THEOREM ChangesAreAtomic == TransactionsSpec => TransactionsAreAtomic
<1>1. Init => BooksInv /\ Written
  BY BooksInvHolds DEF Init, Written
<1>2. BooksInv /\ Written /\ [Next]_vars => (BooksInv /\ Written)'
  BY BooksInvHolds, WrittenHolds DEF BooksInv
<1>3. BooksInv /\ Written /\ [Next]_vars =>
        (aux.dev # "none" /\ aux'.dev = "none" /\ op' # "off" /\ ~kept'.degraded => Whole)
  BY AtomicStep DEF BooksInv
<1> QED BY <1>1, <1>2, <1>3, PTL DEF TransactionsSpec, TransactionsAreAtomic, Whole

(***************************************************************************)
(* Part 7. The hardware is what is kept of it.                             *)
(***************************************************************************)

(* While a request is carried out, what was kept before it is still kept.  *)
Unmoved ==
  /\ at \in Moving \cup {"policy"} /\ phase # "back" => kept = before
  /\ at = "stock" => kept.desired = NoRequest

Claims(k) == ~k.degraded /\ k.desired # NoRequest

(* Where what is kept holds of the hardware: not while it is set to a      *)
(* request, nor before a restore has written it.                           *)
AtRest ==
  \/ op \in {"idle", "observe", "sleep"}
  \/ op = "aux" /\ (aux.dev = "fans" => at = "write")
  \/ op = "apply" /\ at = "policy"
  \/ op \in Applies /\ phase \in {"try", "undo"} /\ at \in {"observe", "save"} \cup Mending
  \/ op = "query" /\ phase = "good"
  \/ op = "resume" /\ phase = "none" /\ at # "disarm"
  \/ op = "boot" /\ phase = "none" /\ at \in {"battery", "light", "save"}

KeptMatches == AtRest /\ Claims(kept) => Matches(hw, kept.desired)

(* A release of the fans begins where no protection is needed, so that     *)
(* either side of it can be the one that is kept.                          *)
Releasable(h, r) ==
  ~Required(h.pl1, h.override) /\ h.override = r.override /\ Powered(h, r)

Releasing ==
  aux.dev = "fans" =>
    /\ at = "write" => ~Required(hw.pl1, hw.override)
    /\ at \in {"commit", "compensate"} /\ Claims(aux.from) => Releasable(hw, aux.from.desired)
    /\ at = "commit" /\ Claims(aux.new) => Matches(hw, aux.new.desired)
    /\ at = "repair" /\ ~aux.again /\ Claims(aux.from) => Matches(hw, aux.from.desired)

SameCore(h) ==
  h.pl1 = hw.pl1 /\ h.ppd = hw.ppd /\ h.override = hw.override /\ FansOf(h) = FansOf(hw)

LEMMA SameMatches ==
  ASSUME NEW h, SameCore(h), NEW r
  PROVE  Matches(h, r) <=> Matches(hw, r)
PROOF BY DEF SameCore, Matches, FansFit, Powered

LEMMA WithCore ==
  ASSUME hw \in Hardware, aux \in Changes, aux.dev # "fans"
  PROVE  SameCore(With(aux.to)) /\ SameCore(With(aux.back)) /\ SameCore(hw)
<1>1. aux.dev \in {"limit", "overdrive", "light"}
  BY ChangeTypes
<1> QED BY <1>1 DEF With, SameCore, FansOf, Hardware

LEMMA BiosPowered ==
  ASSUME hw \in Hardware, NEW h \in Hardware, h.pl1 = hw.pl1, h.ppd = hw.ppd,
         h.override = hw.override, NEW g \in BiosPower(h), NEW r, Releasable(hw, r)
  PROVE  Releasable(g, r) /\ FansOf(g) = FansOf(h)
<1>1. /\ g.override = hw.override /\ g.ppd = hw.ppd /\ FansOf(g) = FansOf(h)
      /\ g.pl1 = hw.pl1 \/ (g.pl1 = Stock[g.ppd] /\ g.pl1 \in Nat /\ g.pl1 < HighPower)
  BY BiosLeaves, BiosTypes DEF Hardware
<1>2. ~Required(g.pl1, g.override)
  BY <1>1, PowerLess DEF Releasable
<1> QED BY <1>1, <1>2 DEF Releasable, Powered

LEMMA FansComeBack ==
  ASSUME hw \in Hardware, NEW r \in Wanted, Releasable(hw, r), r.curves,
         NEW g \in BiosPower(SetFans(r))
  PROVE  Matches(g, r)
<1>1. SetFans(r) \in Hardware
  BY FanTypes
<1>2. Releasable(g, r) /\ FansOf(g) = FansOf(SetFans(r))
  BY <1>1, BiosPowered, SetFansSets
<1>3. FansOf(g) \in {"authored", "locked"}
  BY <1>2, SetFansSets
<1> QED BY <1>2, <1>3 DEF Matches, Releasable, FansFit

LEMMA FansDrop ==
  ASSUME hw \in Hardware, NEW r \in Wanted, r # NoRequest, Releasable(hw, r),
         NEW g \in BiosPower(Dropped)
  PROVE  Releasable(g, r) /\ Matches(g, Released(r))
<1>1. Dropped \in Hardware
  BY FanTypes, DefaultTypes
<1>2. Releasable(g, r) /\ FansOf(g) = "auto"
  BY <1>1, BiosPowered, DroppedDrops
<1>3. /\ Released(r).override = r.override /\ ~Released(r).curves
      /\ EffectivePl1(Released(r)) = EffectivePl1(r)
  BY DEF Released, EffectivePl1, Wanted
<1> QED BY <1>2, <1>3 DEF Matches, Releasable, FansFit, Powered, SetsPower

LEMMA FansHalfDrop ==
  ASSUME hw \in Hardware, NEW r, Releasable(hw, r), NEW h \in DroppedHalf
  PROVE  Releasable(h, r)
<1>1. h.pl1 = hw.pl1 /\ h.ppd = hw.ppd /\ h.override = hw.override
  BY DroppedDrops DEF DroppedHalf, Hardware
<1> QED BY <1>1 DEF Releasable, Powered

MatchInv == Progress /\ Unmoved /\ KeptMatches /\ Releasing

(* Steps that have nothing to do with the fans of a change. *)
LEMMA ReleasingElsewhere ==
  (at' \notin Mending \/ aux'.dev # "fans") => Releasing'
PROOF BY DEF Releasing, Mending

LEMMA MatchesStay ==
  ASSUME KeptMatches, SameCore(hw'), AtRest' => AtRest,
         kept'.desired = kept.desired, kept.degraded => kept'.degraded
  PROVE  KeptMatches'
<1> SUFFICES ASSUME AtRest', Claims(kept)' PROVE Matches(hw', kept'.desired)
  BY DEF KeptMatches
<1>1. Matches(hw, kept.desired)
  BY DEF KeptMatches, Claims
<1> QED BY <1>1, SameMatches

LEMMA MatchesDegraded == kept'.degraded => KeptMatches'
PROOF BY DEF KeptMatches, Claims

LEMMA MatchesMoving == ~AtRest' => KeptMatches'
PROOF BY DEF KeptMatches

(* An observation comes to the same. *)
LEMMA AtRestObserving ==
  ASSUME Observing, at \in Mending \cup {"observe"}, aux.dev # "fans"
  PROVE  AtRest \/ phase \in {"over", "worse"} \/ (op = "boot" /\ phase = "none")
PROOF BY DEF Observing, AtRest, Applies, Restores, Mending

LEMMA MatchAfterObserve ==
  ASSUME Types, Place, Books, NEW k \in Keep, AfterObserve(k), Observing,
         at \in Mending \cup {"observe"}, aux.dev # "fans",
         kept.degraded => k.degraded,
         AtRest /\ Claims(k) => Matches(hw', k.desired)
  PROVE  KeptMatches'
<1>1. /\ kept'.desired = k.desired
      /\ kept'.degraded = (k.degraded \/ phase = "worse")
  BY AfterObserveKeeps
<1>2. CASE AtRest
  BY <1>1, <1>2 DEF KeptMatches, Claims
<1>3. CASE phase = "worse"
  BY <1>1, <1>3, MatchesDegraded
<1>4. CASE phase = "over"
  <2>1. kept.degraded
    BY <1>4 DEF Books, Degrades
  <2> QED BY <1>1, <2>1, MatchesDegraded
<1>5. CASE op = "boot" /\ phase = "none"
  <2>1. CASE k.desired = NoRequest
    BY <1>1, <2>1 DEF KeptMatches, Claims
  <2>2. CASE k.desired # NoRequest
    <3>1. op' = "boot" /\ phase' = "try" /\ at' = "policy"
      BY <1>5, <2>2 DEF AfterObserve
    <3>2. ~AtRest'
      BY <3>1 DEF AtRest, Mending
    <3> QED BY <3>2, MatchesMoving
  <2> QED BY <2>1, <2>2
<1> QED BY <1>2, <1>3, <1>4, <1>5, AtRestObserving

LEMMA MatchAuxEnds ==
  ASSUME Types, Place, Books, at \in Mending, NEW k \in Keep, AuxEnds(k),
         kept.degraded => k.degraded,
         (aux.dev = "fans" \/ AtRest) /\ Claims(k) => Matches(hw', k.desired)
  PROVE  KeptMatches'
<1>1. CASE op = "aux"
  <2>1. kept' = k /\ (aux.dev = "fans" \/ AtRest)
    BY <1>1 DEF AuxEnds, AtRest
  <2> QED BY <2>1 DEF KeptMatches
<1>2. CASE op # "aux"
  <2>1. AfterObserve(k) /\ Observing /\ aux.dev # "fans"
    BY <1>2, WhereObserving DEF AuxEnds, Books, Owned
  <2> QED BY <2>1, MatchAfterObserve
<1> QED BY <1>1, <1>2

LEMMA MatchFailed ==
  ASSUME Types, Setter, NEW h, Failed(h) PROVE KeptMatches' /\ at' # "stock"
<1>1. CASE kept' = Worse(kept)
  <2>1. kept'.degraded
    BY <1>1, KeepTypes DEF Types
  <2> QED BY <2>1, MatchesDegraded DEF Failed, Setter, To, Goes
<1>2. CASE kept' # Worse(kept)
  <2>1. \/ op' \in Applies /\ phase' = "undo" /\ at' = "ppd"
        \/ op' = "query" /\ phase' = "worse" /\ at' = "observe"
    BY <1>2 DEF Failed, Setter, To, Goes
  <2>2. ~AtRest'
    BY <2>1 DEF AtRest, Applies, Restores, Mending
  <2> QED BY <2>1, <2>2, MatchesMoving
<1> QED BY <1>1, <1>2

LEMMA MatchTo ==
  ASSUME Setter, NEW a \in Moving, To(a) PROVE KeptMatches' /\ at' # "stock"
<1>1. op' = op /\ phase' = phase /\ at' = a
  BY DEF To, Goes
<1>2. ~AtRest'
  BY <1>1 DEF Setter, AtRest, Moving, Mending, Applies, Restores
<1> QED BY <1>1, <1>2, MatchesMoving DEF Moving

LEMMA MatchApply ==
  ASSUME Types, Place, Progress, Unmoved, KeptMatches,
         Policy \/ Ppd \/ Lower \/ Fans \/ Drop \/ Power \/ Tune \/ StockBack
  PROVE  KeptMatches' /\ at' # "stock"
<1>1. Setter /\ (at = "policy" => phase \in {"try", "query"})
  BY WhereMoving DEF Policy, Ppd, Lower, Fans, Drop, Power, Tune, StockBack, Moving
<1>2. ASSUME NEW h, Failed(h) PROVE KeptMatches' /\ at' # "stock"
  BY <1>1, <1>2, MatchFailed
<1>3. ASSUME NEW a \in Moving, To(a) PROVE KeptMatches' /\ at' # "stock"
  BY <1>1, <1>3, MatchTo
<1>4. CASE Policy
  <2>1. CASE /\ phase # "query" /\ ApplyEnds(TRUE) /\ UNCHANGED kept
             /\ hw' = [hw EXCEPT !.override = CommittedOverride(before)]
    <3>1. at = "policy" /\ phase = "try" /\ op \in Applies
      BY <1>1, <1>4, <2>1 DEF Policy, Setter
    <3>2. CASE op = "apply"
      <4>1. op' = "idle" /\ at' = "none"
        BY <2>1, <3>2 DEF ApplyEnds, Ends
      <4>2. kept = before /\ AtRest
        BY <3>1, <3>2 DEF Unmoved, AtRest
      <4>3. Claims(kept) => SameCore(hw')
        <5>1. Claims(kept) => hw.override = CommittedOverride(before) /\ hw.override \in BOOLEAN
          BY <4>2 DEF KeptMatches, Matches, CommittedOverride, Claims, Types, Hardware, Keep, Wanted
        <5> QED BY <2>1, <5>1 DEF SameCore, FansOf, Types, Hardware
      <4>4. Claims(kept) => KeptMatches'
        BY <2>1, <4>2, <4>3, MatchesStay
      <4>5. ~Claims(kept) => KeptMatches'
        BY <2>1 DEF Claims, KeptMatches
      <4> QED BY <4>1, <4>4, <4>5
    <3>3. CASE op \in Restores
      <4>1. op' = op /\ phase' = "none" /\ at' = "disarm"
        BY <2>1, <3>3 DEF ApplyEnds, Goes, Restores
      <4>2. ~AtRest'
        BY <3>3, <4>1 DEF AtRest, Restores, Applies
      <4> QED BY <4>1, <4>2, MatchesMoving
    <3> QED BY <3>1, <3>2, <3>3 DEF Applies
  <2> QED BY <1>2, <1>3, <1>4, <2>1 DEF Policy, Moving
<1>5. CASE Ppd
  BY <1>2, <1>3, <1>5 DEF Ppd, First, Moving
<1>6. CASE Lower \/ Power
  BY <1>2, <1>3, <1>6 DEF Lower, Power, PowerStep, FanStep, Moving
<1>7. CASE Fans
  BY <1>2, <1>3, <1>7 DEF Fans, Moving
<1>8. CASE Drop
  BY <1>2, <1>3, <1>8 DEF Drop, Moving
<1>9. CASE Tune
  <2>1. CASE hw' = hw /\ Applied
    <3>1. Matches(hw, Target) /\ (phase # "back" => kept = before)
      BY <1>9 DEF Tune, Progress, Unmoved, Moving
    <3>2. at' # "stock"
      BY <1>1, <2>1 DEF Applied, Setter, To, Goes
    <3>3. CASE phase = "back"
      <4>1. kept' = Worse(kept)
        BY <2>1, <3>3 DEF Applied
      <4>2. kept'.degraded
        BY <4>1, KeepTypes DEF Types
      <4> QED BY <3>2, <4>2, MatchesDegraded
    <3>4. CASE phase = "try"
      <4>1. kept' = [kept EXCEPT !.desired = goal, !.degraded = FALSE]
        BY <2>1, <3>4 DEF Applied
      <4>2. kept'.desired = Target
        BY <3>4, <4>1 DEF Target, Types, Keep
      <4> QED BY <2>1, <3>1, <3>2, <4>2 DEF KeptMatches
    <3>5. CASE phase \in {"undo", "query"}
      <4>1. kept' = kept /\ kept.desired = Target
        BY <2>1, <3>1, <3>5 DEF Applied, Target
      <4> QED BY <2>1, <3>1, <3>2, <4>1 DEF KeptMatches
    <3> QED BY <1>1, <3>3, <3>4, <3>5 DEF Setter
  <2> QED BY <1>2, <1>9, <2>1 DEF Tune
<1>10. CASE StockBack
  <2>1. CASE Goes(op, "good", "observe") /\ UNCHANGED kept
    <3>1. kept'.desired = NoRequest
      BY <1>10, <2>1 DEF StockBack, Unmoved
    <3> QED BY <2>1, <3>1 DEF KeptMatches, Claims, Goes
  <2> QED BY <1>2, <1>10, <2>1 DEF StockBack
<1> QED BY <1>4, <1>5, <1>6, <1>7, <1>8, <1>9, <1>10

LEMMA MatchSave ==
  ASSUME Types, Place, Books, KeptMatches, Save \/ SaveFails
  PROVE  KeptMatches' /\ at' # "stock"
<1>1. /\ at = "save"
      /\ \/ op \in Applies /\ phase \in {"try", "undo", "back", "again"}
         \/ op \in Restores /\ phase = "none"
         \/ op = "sleep" /\ phase = "none"
         \/ op = "query" /\ phase = "worse"
  BY DEF Save, SaveFails, Place, Where, Moving, Mending
<1>2. at' # "stock"
  BY DEF Save, SaveFails, ApplyEnds, Ends, To, Goes
<1>3. AtRest \/ kept.degraded
  BY <1>1 DEF AtRest, Books, Degrades, Restores
<1>4. CASE hw' = hw /\ kept' = kept
  BY <1>2, <1>3, <1>4 DEF KeptMatches, Claims
<1>5. CASE SaveFails /\ op \in Applies /\ phase = "try"
  <2>1. (kept' = Worse(before) /\ at' = "save") \/ (op' = op /\ at' = "ppd" /\ phase' = "back")
    BY <1>5 DEF SaveFails, Goes, Applies, Restores
  <2>2. CASE kept' = Worse(before)
    <3>1. kept'.degraded
      BY <2>2, KeepTypes DEF Types
    <3> QED BY <1>2, <3>1, MatchesDegraded
  <2>3. CASE op' = op /\ at' = "ppd" /\ phase' = "back"
    <3>1. ~AtRest'
      BY <1>5, <2>3 DEF AtRest, Applies, Restores, Mending
    <3> QED BY <1>2, <3>1, MatchesMoving
  <2> QED BY <2>1, <2>2, <2>3
<1> QED BY <1>4, <1>5 DEF Save, SaveFails, memory

LEMMA MatchLook ==
  ASSUME Types, Place, Books, KeptMatches, Look
  PROVE  KeptMatches' /\ Releasing' /\ at' # "stock" /\ Unmoved'
<1>1. op # "aux" /\ at = "observe" /\ hw' = hw /\ aux.dev # "fans"
  BY DEF Look, Place, Where, Moving, Mending, Applies, Restores
<1>2. Observing
  BY <1>1, WhereObserving
<1>3. PICK k \in Keep :
        /\ k.degraded = kept.degraded /\ k.desired = kept.desired
        /\ \/ /\ kept' = k /\ at' = "write" /\ aux' = ChargeEnds(k)
              /\ UNCHANGED <<op, phase, goal, before>>
           \/ AfterObserve(k)
  BY LookSplit, ReadKeeps DEF Types
<1>4. CASE AfterObserve(k)
  <2>1. KeptMatches'
    BY <1>1, <1>2, <1>3, <1>4, MatchAfterObserve DEF KeptMatches, Claims
  <2>2. at' \notin Mending \cup Moving \cup {"stock"} /\ (at' = "policy" => before' = kept')
    BY <1>4 DEF AfterObserve, ApplyEnds, Ends, To, Goes, Mending, Moving
  <2> QED BY <2>1, <2>2, ReleasingElsewhere DEF Unmoved
<1>5. CASE /\ kept' = k /\ at' = "write" /\ aux' = ChargeEnds(k)
           /\ UNCHANGED <<op, phase, goal, before>>
  <2>1. aux'.dev = "limit"
    BY <1>5 DEF ChargeEnds
  <2>2. AtRest' => AtRest
    BY <1>1, <1>5 DEF AtRest, Mending
  <2>3. SameCore(hw')
    BY <1>1 DEF SameCore
  <2>4. KeptMatches'
    BY <1>3, <1>5, <2>2, <2>3, MatchesStay
  <2> QED BY <1>5, <2>1, <2>4, ReleasingElsewhere DEF Unmoved, Moving
<1> QED BY <1>3, <1>4, <1>5

LEMMA UnmovedElsewhere ==
  at' \notin Moving \cup {"policy", "stock"} => Unmoved'
PROOF BY DEF Unmoved

LEMMA UnmovedApply ==
  ASSUME Place, Unmoved,
         Policy \/ Ppd \/ Lower \/ Fans \/ Drop \/ Power \/ Tune \/ StockBack
  PROVE  at' = "stock" \/ Unmoved'
<1>1. Setter /\ at \in Moving \cup {"policy", "stock"}
  BY WhereMoving DEF Policy, Ppd, Lower, Fans, Drop, Power, Tune, StockBack, Moving
<1>2. ASSUME NEW h, Failed(h) PROVE at' = "stock" \/ Unmoved'
  <2>1. CASE at' \in Moving \cup {"policy"}
    <3>1. phase = "try" /\ kept' = kept /\ before' = before
      BY <1>1, <1>2, <2>1 DEF Failed, Setter, To, Goes, Moving
    <3>2. at # "stock"
      BY <3>1 DEF Place, Where, Moving, Mending
    <3> QED BY <1>1, <3>1, <3>2 DEF Unmoved
  <2> QED BY <2>1, UnmovedElsewhere
<1>3. ASSUME NEW a, To(a), kept' = kept, at # "stock" PROVE at' = "stock" \/ Unmoved'
  BY <1>1, <1>3 DEF To, Goes, Unmoved
<1>4. Applied => at' = "stock" \/ Unmoved'
  BY <1>1, UnmovedElsewhere DEF Applied, Setter, To, Goes, Moving
<1>5. CASE Policy
  <2>1. ApplyEnds(TRUE) => Unmoved'
    BY UnmovedElsewhere DEF ApplyEnds, Ends, Goes, Moving
  <2> QED BY <1>2, <1>3, <1>5, <2>1 DEF Policy
<1>6. CASE Ppd
  BY <1>2, <1>3, <1>6 DEF Ppd
<1>7. CASE Lower \/ Power
  BY <1>2, <1>3, <1>7 DEF Lower, Power, PowerStep
<1>8. CASE Fans \/ Drop
  BY <1>2, <1>3, <1>8 DEF Fans, Drop
<1>9. CASE Tune
  BY <1>2, <1>4, <1>9 DEF Tune
<1>10. CASE StockBack
  <2>1. Goes(op, "good", "observe") => Unmoved'
    BY UnmovedElsewhere DEF Goes, Moving
  <2> QED BY <1>2, <1>10, <2>1 DEF StockBack
<1> QED BY <1>5, <1>6, <1>7, <1>8, <1>9, <1>10

LEMMA AuxEndsUnmoved == ASSUME NEW k, AuxEnds(k) PROVE Unmoved' /\ at' # "stock" /\ Releasing'
<1>1. at' \notin Mending \cup Moving \cup {"stock"} /\ (at' = "policy" => before' = kept')
  BY DEF AuxEnds, AfterObserve, ApplyEnds, Ends, To, Goes, Mending, Moving
<1> QED BY <1>1, ReleasingElsewhere DEF Unmoved

(* The release of the fans, step by step. *)
LEMMA ReleaseWrites ==
  ASSUME Types, Place, Books, KeptMatches, Releasing, AuxWrite, aux.dev = "fans"
  PROVE  Releasing'
<1>1. /\ hw \in Hardware /\ aux \in Changes /\ aux.from \in Keep /\ kept = aux.from
      /\ op = "aux" /\ aux.new.degraded = aux.from.degraded
      /\ aux.new.desired = Released(aux.from.desired) /\ ~Required(hw.pl1, hw.override)
  BY MendingChanges DEF AuxWrite, Books, Owned, Releasing, Mending, Types
<1>2. aux.from.desired \in Wanted
  BY <1>1 DEF Keep
<1>3. Claims(aux.from) => Releasable(hw, aux.from.desired)
  BY <1>1 DEF KeptMatches, AtRest, AuxWrite, Matches, Releasable
<1>4. Claims(aux.new) => Claims(aux.from)
  BY <1>1 DEF Claims, Released
<1>5. CASE hw' \in BiosPower(Dropped) /\ AuxTo("commit")
  <2>1. aux' = aux /\ at' = "commit"
    BY <1>5 DEF AuxTo, plan
  <2>2. Claims(aux.from) => /\ Releasable(hw', aux.from.desired)
                            /\ Matches(hw', aux.new.desired)
    BY <1>1, <1>2, <1>3, <1>5, FansDrop DEF Claims
  <2> QED BY <1>4, <2>1, <2>2 DEF Releasing
<1>6. CASE hw' \in DroppedHalf /\ at' = "compensate" /\ aux' = [aux EXCEPT !.why = "write"]
  <2>1. aux'.from = aux.from
    BY <1>1, <1>6 DEF Changes, Change
  <2>2. Claims(aux.from) => Releasable(hw', aux.from.desired)
    BY <1>1, <1>3, <1>6, FansHalfDrop
  <2> QED BY <1>6, <2>1, <2>2 DEF Releasing
<1>7. (hw' \in BiosPower(Dropped) /\ AuxTo("commit")) \/
      (hw' \in DroppedHalf /\ at' = "compensate" /\ aux' = [aux EXCEPT !.why = "write"])
  BY DEF AuxWrite
<1> QED BY <1>5, <1>6, <1>7

LEMMA ReleaseComesBack ==
  ASSUME Types, Place, Books, Releasing, Compensate, aux.dev = "fans",
         NEW h \in BiosPower(Compensation.done), Compensation.good, Claims(aux.from)
  PROVE  Matches(h, aux.from.desired)
<1>1. /\ hw \in Hardware /\ aux.from.desired \in Wanted /\ Releasable(hw, aux.from.desired)
  BY MendingChanges DEF Compensate, Releasing, Mending, Types, Keep
<1>2. aux.from.desired.curves /\ Compensation.done = SetFans(aux.from.desired)
  BY DEF Compensation, FansBack
<1> QED BY <1>1, <1>2, FansComeBack

LEMMA MatchMend ==
  ASSUME Types, Place, Books, KeptMatches, Releasing,
         AuxWrite \/ Commit \/ Compensate \/ Repair \/ Note
  PROVE  KeptMatches' /\ Releasing' /\ Unmoved' /\ at' # "stock"
<1>1. /\ at \in Mending /\ aux \in Changes /\ aux.from \in Keep /\ aux.new \in Keep
      /\ kept \in Keep /\ hw \in Hardware
  BY MendingChanges DEF AuxWrite, Commit, Compensate, Repair, Note, Mending, Types
<1>2. Owned /\ Degrades /\ aux.new.degraded = aux.from.degraded
  BY <1>1 DEF Books, Owned
<1>3. ASSUME at' \in Mending PROVE Unmoved' /\ at' # "stock"
  BY <1>3, UnmovedElsewhere DEF Mending, Moving
<1>4. /\ \A w : [aux EXCEPT !.why = w].dev = aux.dev /\ [aux EXCEPT !.why = w].from = aux.from
      /\ \A b : [aux EXCEPT !.again = b].dev = aux.dev /\ [aux EXCEPT !.again = b].from = aux.from
      /\ \A b : [aux EXCEPT !.again = b].again = b
  BY <1>1 DEF Changes, Change
<1>5. ASSUME at' \in Mending \ {"write"}, UNCHANGED <<op, phase>>, aux'.dev = aux.dev,
             aux.dev = "fans" \/ SameCore(hw'), aux.dev = "fans" => op = "aux",
             kept'.desired = kept.desired, kept.degraded => kept'.degraded
      PROVE  KeptMatches'
  <2>1. CASE aux.dev = "fans"
    <3>1. ~AtRest'
      BY <1>5, <2>1 DEF AtRest, Applies, Restores
    <3> QED BY <3>1, MatchesMoving
  <2>2. CASE aux.dev # "fans"
    <3>1. AtRest' => AtRest
      BY <1>1, <1>5, <2>2 DEF AtRest, Mending
    <3> QED BY <1>5, <2>2, <3>1, MatchesStay
  <2> QED BY <2>1, <2>2
<1>6. aux.dev = "fans" => op = "aux"
  BY <1>1, <1>2 DEF Owned
<1>7. SameCore(hw)
  BY DEF SameCore
<1>8. CASE AuxWrite
  <2>1. /\ UNCHANGED <<op, phase, kept>> /\ at' \in {"commit", "compensate"}
        /\ aux' = aux \/ aux' = [aux EXCEPT !.why = "write"]
    BY <1>8 DEF AuxWrite, AuxTo, plan, memory
  <2>2. aux.dev # "fans" => SameCore(hw')
    BY <1>1, <1>8, WithCore DEF AuxWrite
  <2>3. KeptMatches' /\ Unmoved' /\ at' # "stock"
    BY <1>3, <1>4, <1>5, <1>6, <2>1, <2>2 DEF Mending
  <2>4. Releasing'
    BY <1>4, <1>8, <2>1, ReleaseWrites, ReleasingElsewhere
  <2> QED BY <2>3, <2>4
<1>9. CASE Commit
  <2>1. hw' = hw /\ kept = aux.from /\ at = "commit"
    BY <1>2, <1>9 DEF Commit, Owned, Mending
  <2>2. CASE AuxEnds(aux.new)
    <3>1. (aux.dev = "fans" \/ AtRest) /\ Claims(aux.new) => Matches(hw', aux.new.desired)
      BY <1>1, <1>2, <2>1 DEF Releasing, KeptMatches, Owned, Claims
    <3> QED BY <1>1, <1>2, <2>1, <2>2, <3>1, MatchAuxEnds, AuxEndsUnmoved
  <2>3. CASE /\ at' = "compensate" /\ aux' = [aux EXCEPT !.why = "save"]
             /\ UNCHANGED <<kept, op, phase>>
    <3>1. KeptMatches' /\ Unmoved' /\ at' # "stock"
      BY <1>3, <1>4, <1>5, <1>6, <1>7, <2>1, <2>3 DEF Mending
    <3>2. Releasing'
      BY <1>4, <2>1, <2>3 DEF Releasing
    <3> QED BY <3>1, <3>2
  <2> QED BY <1>9, <2>2, <2>3 DEF Commit
<1>10. CASE Compensate
  <2>1. kept = aux.from /\ at = "compensate"
    BY <1>2, <1>10 DEF Compensate, Owned, Mending
  <2>2. PICK h, good :
          /\ Compensated(h, good)
          /\ aux.dev # "fans" => SameCore(h)
          /\ good /\ Claims(aux.from) /\ aux.dev = "fans" => Matches(h, aux.from.desired)
    <3> DEFINE G(h, good) ==
          /\ Compensated(h, good)
          /\ aux.dev # "fans" => SameCore(h)
          /\ good /\ Claims(aux.from) /\ aux.dev = "fans" => Matches(h, aux.from.desired)
    <3>1. CASE /\ aux.dev = "fans"
               /\ \E h \in BiosPower(Compensation.done) : Compensated(h, Compensation.good)
      <4>1. PICK h \in BiosPower(Compensation.done) : Compensated(h, Compensation.good)
        BY <3>1
      <4>2. G(h, Compensation.good)
        BY <1>10, <3>1, <4>1, ReleaseComesBack
      <4> QED BY <4>2
    <3>2. CASE aux.dev # "fans" /\ Compensated(Compensation.done, Compensation.good)
      <4>1. SameCore(Compensation.done)
        BY <1>1, <1>7, <3>2, WithCore DEF Compensation
      <4>2. G(Compensation.done, Compensation.good)
        BY <3>2, <4>1
      <4> QED BY <4>2
    <3>3. CASE \E h \in Compensation.half : Compensated(h, FALSE)
      <4>1. PICK h \in Compensation.half : Compensated(h, FALSE)
        BY <3>3
      <4>2. aux.dev # "fans" => SameCore(h)
        BY <1>1, <1>7, <4>1, WithCore DEF Compensation
      <4>3. G(h, FALSE)
        BY <4>1, <4>2
      <4> QED BY <4>3
    <3> QED BY <1>10, <3>1, <3>2, <3>3, CompensateSplit
  <2>3. hw' = h
    BY <2>2 DEF Compensated
  <2>4. CASE aux.why = "save"
    <3>1. /\ kept' = aux.from /\ at' = "repair" /\ UNCHANGED <<op, phase>>
          /\ aux' = [aux EXCEPT !.again = ~good]
      BY <2>2, <2>4 DEF Compensated
    <3>2. KeptMatches' /\ Unmoved' /\ at' # "stock"
      BY <1>3, <1>4, <1>5, <1>6, <2>1, <2>2, <2>3, <3>1 DEF Mending
    <3>3. aux'.dev = aux.dev /\ aux'.from = aux.from /\ aux'.again = ~good
      BY <1>4, <3>1
    <3>4. Releasing'
      BY <2>2, <2>3, <3>1, <3>3 DEF Releasing
    <3> QED BY <3>2, <3>4
  <2>5. CASE aux.why = "write" /\ good
    <3>1. AuxEnds(aux.from)
      BY <2>2, <2>5 DEF Compensated
    <3>2. CASE aux.dev = "fans"
      BY <1>1, <2>1, <2>2, <2>3, <2>5, <3>1, <3>2, MatchAuxEnds, AuxEndsUnmoved
    <3>3. CASE aux.dev # "fans"
      <4>1. AtRest /\ Claims(aux.from) => Matches(hw', aux.from.desired)
        BY <2>1, <2>2, <2>3, <3>3, SameMatches DEF KeptMatches
      <4> QED BY <1>1, <2>1, <3>1, <3>3, <4>1, MatchAuxEnds, AuxEndsUnmoved
    <3> QED BY <3>2, <3>3
  <2>6. CASE aux.why # "save" /\ ~(aux.why = "write" /\ good)
    <3>1. kept' = Worse(aux.from) /\ at' = "note" /\ aux' = aux
      BY <2>2, <2>6 DEF Compensated, AuxTo, plan
    <3>2. kept'.degraded
      BY <1>1, <3>1, KeepTypes
    <3>3. Releasing'
      BY <3>1 DEF Releasing
    <3> QED BY <1>3, <3>1, <3>2, <3>3, MatchesDegraded DEF Mending
  <2> QED BY <2>4, <2>5, <2>6
<1>11. CASE Repair
  <2>1. hw' = hw /\ kept = aux.from /\ at = "repair"
    BY <1>2, <1>11 DEF Repair, Owned, Mending
  <2>2. CASE ~aux.again /\ AuxEnds(kept)
    <3>1. (aux.dev = "fans" \/ AtRest) /\ Claims(kept) => Matches(hw', kept.desired)
      BY <2>1, <2>2 DEF Releasing, KeptMatches
    <3> QED BY <1>1, <2>2, <3>1, MatchAuxEnds, AuxEndsUnmoved
  <2>3. CASE kept' = Worse(kept) /\ at' = "note"
    <3>1. kept'.degraded
      BY <1>1, <2>3, KeepTypes
    <3>2. Releasing'
      BY <2>3 DEF Releasing
    <3> QED BY <1>3, <2>3, <3>1, <3>2, MatchesDegraded DEF Mending
  <2> QED BY <1>11, <2>2, <2>3 DEF Repair, AuxTo
<1>12. CASE Note
  <2>1. kept.degraded
    BY <1>2, <1>12 DEF Note, Degrades
  <2>2. CASE AuxEnds(kept)
    <3>1. ~Claims(kept)
      BY <2>1 DEF Claims
    <3> QED BY <1>1, <2>2, <3>1, MatchAuxEnds, AuxEndsUnmoved
  <2>3. CASE at' = "note" /\ kept' = kept
    <3>1. Releasing'
      BY <2>3 DEF Releasing
    <3> QED BY <1>3, <2>1, <2>3, <3>1, MatchesDegraded DEF Mending
  <2> QED BY <1>12, <2>2, <2>3 DEF Note
<1> QED BY <1>8, <1>9, <1>10, <1>11, <1>12

(* Setting the hardware to a request, and saving, mend nothing. *)
LEMMA SettingElsewhere ==
  ASSUME Place, Policy \/ Ppd \/ Lower \/ Fans \/ Drop \/ Power \/ Tune \/ StockBack
                \/ Save \/ SaveFails
  PROVE  at' \notin Mending
<1>1. CASE Save \/ SaveFails
  BY <1>1 DEF Save, SaveFails, ApplyEnds, Ends, To, Goes, Mending
<1>2. CASE Policy \/ Ppd \/ Lower \/ Fans \/ Drop \/ Power \/ Tune \/ StockBack
  <2>1. Setter
    BY <1>2, WhereMoving DEF Policy, Ppd, Lower, Fans, Drop, Power, Tune, StockBack, Moving
  <2>2. ASSUME NEW h, Failed(h) PROVE at' \notin Mending
    BY <2>1, <2>2 DEF Failed, Setter, To, Goes, Mending
  <2>3. Applied => at' \notin Mending
    BY <2>1 DEF Applied, Setter, To, Goes, Mending
  <2>4. \A next \in Moving : PowerStep(next) => at' \notin Mending
    BY <2>2 DEF PowerStep, To, Goes, Moving, Mending
  <2>5. CASE Policy \/ Ppd
    BY <2>2, <2>5 DEF Policy, Ppd, First, ApplyEnds, Ends, To, Goes, Mending
  <2>6. CASE Fans \/ Drop
    BY <2>2, <2>6 DEF Fans, Drop, To, Goes, Mending
  <2>7. CASE Lower \/ Power
    BY <2>4, <2>7 DEF Lower, Power, FanStep, Moving
  <2>8. CASE Tune \/ StockBack
    BY <2>2, <2>3, <2>8 DEF Tune, StockBack, Goes, Mending
  <2> QED BY <1>2, <2>5, <2>6, <2>7, <2>8
<1> QED BY <1>1, <1>2

LEMMA UnmovedSave ==
  ASSUME Save \/ SaveFails PROVE Unmoved'
<1>1. at' \notin Moving \cup {"policy", "stock"} \/ (at' = "ppd" /\ phase' = "back")
  BY DEF Save, SaveFails, ApplyEnds, Ends, To, Goes, Moving
<1> QED BY <1>1 DEF Unmoved, Moving

(* What a restore writes is none of the request. *)
LEMMA MatchRestore ==
  ASSUME Types, Place, KeptMatches,
         RestorePanelOverdrive \/ RestoreBatteryPolicy \/ RestoreLighting
         \/ Disarm \/ ReleaseForSleep
  PROVE  KeptMatches' /\ Releasing' /\ Unmoved'
<1>1. hw \in Hardware /\ kept \in Keep
  BY DEF Types
<1>2. ASSUME NEW part \in {"panel", "battery", "light"}, NEW due, NEW h,
             Part(part, due, h), SameCore(h)
      PROVE  KeptMatches' /\ Releasing' /\ Unmoved'
  <2>1. at' \notin Mending \cup Moving \cup {"policy", "stock"}
    BY <1>2 DEF Part, NextRestore, Ends, To, Goes, Moving, Mending
  <2>2. CASE kept' = Worse(kept)
    <3>1. kept'.degraded
      BY <1>1, <2>2, KeepTypes
    <3> QED BY <2>1, <3>1, MatchesDegraded, ReleasingElsewhere, UnmovedElsewhere
  <2>3. CASE kept' = kept /\ (hw' = hw \/ hw' = h)
    <3>1. SameCore(hw')
      BY <1>2, <2>3 DEF SameCore
    <3>2. at = part /\ op \in Restores /\ phase = "none"
      BY <1>2 DEF Part, Place, Where, Moving, Mending
    <3>3. AtRest' => AtRest
      <4>1. CASE op = "resume"
        BY <1>2, <3>2, <4>1 DEF AtRest
      <4>2. CASE op = "boot" /\ part # "panel"
        BY <1>2, <3>2, <4>2 DEF AtRest
      <4>3. CASE op = "boot" /\ part = "panel"
        <5>1. op' = "boot" /\ phase' = "none" /\ at' = "observe"
          BY <1>2, <3>2, <4>3 DEF Part, NextRestore, To, Goes
        <5> QED BY <5>1 DEF AtRest, Mending
      <4> QED BY <1>2, <3>2, <4>1, <4>2, <4>3 DEF Restores
    <3>4. KeptMatches'
      BY <2>3, <3>1, <3>3, MatchesStay
    <3> QED BY <2>1, <3>4, ReleasingElsewhere, UnmovedElsewhere
  <2> QED BY <1>2, <2>2, <2>3 DEF Part
<1>3. /\ SameCore([hw EXCEPT !.overdrive = kept.overdrive])
      /\ \A l : SameCore([hw EXCEPT !.limit = l])
      /\ SameCore([hw EXCEPT !.light = kept.light])
  BY <1>1 DEF SameCore, FansOf, Hardware
<1>4. CASE RestorePanelOverdrive
  BY <1>2, <1>3, <1>4 DEF RestorePanelOverdrive
<1>5. CASE RestoreBatteryPolicy
  BY <1>2, <1>3, <1>5 DEF RestoreBatteryPolicy
<1>6. CASE RestoreLighting
  BY <1>2, <1>3, <1>6 DEF RestoreLighting
<1>7. CASE Disarm \/ ReleaseForSleep
  <2>1. /\ at' \notin Mending \cup Moving \cup {"policy", "stock"}
        /\ kept' = Worse(kept) \/ op' = "asleep"
    <3>1. CASE Disarm
      BY <3>1 DEF Disarm, To, Goes, Mending, Moving
    <3>2. CASE ReleaseForSleep
      BY <3>2 DEF ReleaseForSleep, To, Goes, Mending, Moving
    <3> QED BY <1>7, <3>1, <3>2
  <2>2. kept' = Worse(kept) => kept'.degraded
    BY <1>1, KeepTypes
  <2>3. op' = "asleep" => ~AtRest'
    BY DEF AtRest, Applies, Restores
  <2> QED
    BY <2>1, <2>2, <2>3, MatchesDegraded, MatchesMoving, ReleasingElsewhere, UnmovedElsewhere
<1> QED BY <1>4, <1>5, <1>6, <1>7

LEMMA MatchStart ==
  ASSUME Types, Place, KeptMatches,
         Request \/ Observe \/ Suspend \/ Resume \/ Boot \/ Stops
  PROVE  KeptMatches' /\ Releasing' /\ Unmoved'
<1>1. ASSUME Free, hw' = hw, kept' = kept PROVE KeptMatches'
  BY <1>1 DEF KeptMatches, AtRest, Free
<1>2. ASSUME NEW d, NEW v, NEW b, NEW n, Begin(d, v, b, n),
             d = "fans" => ~Required(hw.pl1, hw.override)
      PROVE  KeptMatches' /\ Releasing' /\ Unmoved'
  <2>1. /\ Free /\ hw' = hw /\ kept' = kept /\ at' = "write" /\ aux'.dev = d
    BY <1>2 DEF Begin, memory
  <2>2. Releasing' /\ Unmoved'
    BY <1>2, <2>1 DEF Releasing, Unmoved, Moving
  <2> QED BY <1>1, <2>1, <2>2
<1>3. CASE SetBatteryLimit \/ SetBatteryOneTimeCharge \/ SetPanelOverdrive \/ SetLighting
  <2>1. \E d \in {"limit", "overdrive", "light"} : \E v, b, n : Begin(d, v, b, n)
    <3>1. CASE SetBatteryLimit
      BY <3>1 DEF SetBatteryLimit
    <3>2. CASE SetBatteryOneTimeCharge
      BY <3>2 DEF SetBatteryOneTimeCharge
    <3>3. CASE SetPanelOverdrive
      BY <3>3 DEF SetPanelOverdrive
    <3>4. CASE SetLighting
      BY <3>4 DEF SetLighting
    <3> QED BY <1>3, <3>1, <3>2, <3>3, <3>4
  <2> QED BY <1>2, <2>1
<1>4. CASE ReleaseFans
  BY <1>2, <1>4 DEF ReleaseFans
<1>5. CASE Apply
  <2>1. Free /\ hw' = hw /\ kept' = kept /\ before' = kept /\ at' = "policy"
    BY <1>5 DEF Apply, memory
  <2> QED BY <1>1, <2>1, ReleasingElsewhere DEF Unmoved, Mending, Moving
<1>6. CASE FactoryFanCurves
  <2>1. /\ op' = "query" /\ phase' = "query" /\ kept' = kept /\ before' = kept
        /\ at' = "policy" \/ (at' = "stock" /\ kept.desired = NoRequest)
    BY <1>6 DEF FactoryFanCurves, memory
  <2>2. ~AtRest'
    BY <2>1 DEF AtRest, Applies, Restores
  <2> QED BY <2>1, <2>2, MatchesMoving, ReleasingElsewhere DEF Unmoved, Mending, Moving
<1>7. CASE Observe \/ Suspend
  <2>1. Free /\ hw' = hw /\ kept' = kept /\ at' \in {"observe", "release"}
    BY <1>7 DEF Observe, Suspend, Goes, memory
  <2> QED BY <1>1, <2>1, ReleasingElsewhere, UnmovedElsewhere DEF Mending, Moving
<1>8. CASE Resume
  <2>1. /\ op' = "resume" /\ kept' = kept /\ before' = kept
        /\ \/ kept.desired = NoRequest /\ at' = "battery"
           \/ phase' = "try" /\ at' = "policy"
    BY <1>8 DEF Resume, memory
  <2>2. CASE kept.desired = NoRequest /\ at' = "battery"
    BY <2>1, <2>2, ReleasingElsewhere, UnmovedElsewhere DEF KeptMatches, Claims, Mending, Moving
  <2>3. CASE phase' = "try" /\ at' = "policy"
    <3>1. ~AtRest'
      BY <2>1, <2>3 DEF AtRest, Applies, Restores, Mending
    <3> QED BY <2>1, <2>3, <3>1, MatchesMoving, ReleasingElsewhere DEF Unmoved, Mending, Moving
  <2> QED BY <2>1, <2>2, <2>3
<1>9. CASE Boot \/ Stops
  <2>1. (op' = "boot" /\ phase' = "none" /\ at' = "panel") \/ (op' = "off" /\ at' = "none")
    BY <1>9 DEF Boot, Stops, Goes
  <2>2. ~AtRest'
    BY <2>1 DEF AtRest, Applies, Restores
  <2> QED BY <2>1, <2>2, MatchesMoving, ReleasingElsewhere, UnmovedElsewhere DEF Mending, Moving
<1> QED BY <1>3, <1>4, <1>5, <1>6, <1>7, <1>8, <1>9 DEF Request

LEMMA MatchWorld ==
  ASSUME Types, Place, Unmoved, KeptMatches, Releasing,
         Hotplug \/ Charge \/ Unplug \/ Plug \/ UNCHANGED vars
  PROVE  KeptMatches' /\ Releasing' /\ Unmoved'
<1>1. hw \in Hardware /\ kept \in Keep
  BY DEF Types
<1>2. CASE Hotplug \/ Charge
  <2>1. /\ at = "none" /\ UNCHANGED <<at, op, phase, aux>>
        /\ hw' = hw \/ hw' = [hw EXCEPT !.light = kept.light]
        /\ kept' = kept \/ kept' = Worse(kept)
    BY <1>2 DEF Hotplug, Charge, Free, Place, Where, Applies, Restores, plan, memory
  <2>2. SameCore(hw')
    BY <1>1, <2>1 DEF SameCore, FansOf, Hardware
  <2>3. kept'.desired = kept.desired /\ (kept.degraded => kept'.degraded)
    BY <1>1, <2>1 DEF Worse, Keep
  <2>4. AtRest' => AtRest
    BY <2>1 DEF AtRest
  <2>5. KeptMatches'
    BY <2>2, <2>3, <2>4, MatchesStay
  <2> QED BY <2>1, <2>5, ReleasingElsewhere, UnmovedElsewhere DEF Mending, Moving
<1>3. CASE Unplug \/ Plug \/ UNCHANGED vars
  <2>1. UNCHANGED <<kept, op, at, phase, before, aux>> /\ SameCore(hw')
    BY <1>1, <1>3, Beside DEF SameCore
  <2>2. AtRest' => AtRest
    BY <2>1 DEF AtRest
  <2>3. KeptMatches'
    BY <2>1, <2>2, MatchesStay
  <2>4. \A r : (Matches(hw', r) <=> Matches(hw, r)) /\ (Releasable(hw', r) <=> Releasable(hw, r))
    BY <2>1 DEF SameCore, Matches, FansFit, Powered, Releasable
  <2>5. Required(hw'.pl1, hw'.override) <=> Required(hw.pl1, hw.override)
    BY <2>1 DEF SameCore
  <2>6. Releasing'
    BY <2>1, <2>4, <2>5 DEF Releasing
  <2> QED BY <2>1, <2>3, <2>6 DEF Unmoved
<1> QED BY <1>2, <1>3

LEMMA MatchInvHolds ==
  ASSUME BooksInv, MatchInv, [Next]_vars PROVE MatchInv'
<1>1. Types /\ Place /\ Books /\ Progress /\ Unmoved /\ KeptMatches /\ Releasing
  BY DEF BooksInv, MatchInv
<1>2. Progress'
  BY <1>1, ProgressHolds
<1>3. CASE Policy \/ Ppd \/ Lower \/ Fans \/ Drop \/ Power \/ Tune \/ StockBack
  <2>1. KeptMatches' /\ at' # "stock"
    BY <1>1, <1>3, MatchApply
  <2>2. Unmoved'
    BY <1>1, <1>3, <2>1, UnmovedApply
  <2>3. at' \notin Mending
    BY <1>1, <1>3, SettingElsewhere
  <2> QED BY <1>2, <2>1, <2>2, <2>3, ReleasingElsewhere DEF MatchInv
<1>4. CASE Save \/ SaveFails
  <2>1. KeptMatches' /\ Unmoved'
    BY <1>1, <1>4, MatchSave, UnmovedSave
  <2>2. at' \notin Mending
    BY <1>1, <1>4, SettingElsewhere
  <2> QED BY <1>2, <2>1, <2>2, ReleasingElsewhere DEF MatchInv
<1>5. CASE Look
  BY <1>1, <1>2, <1>5, MatchLook DEF MatchInv
<1>6. CASE AuxWrite \/ Commit \/ Compensate \/ Repair \/ Note
  BY <1>1, <1>2, <1>6, MatchMend DEF MatchInv
<1>7. CASE RestorePanelOverdrive \/ RestoreBatteryPolicy \/ RestoreLighting
           \/ Disarm \/ ReleaseForSleep
  BY <1>1, <1>2, <1>7, MatchRestore DEF MatchInv
<1>8. CASE Request \/ Observe \/ Suspend \/ Resume \/ Boot \/ Stops
  BY <1>1, <1>2, <1>8, MatchStart DEF MatchInv
<1>9. CASE Hotplug \/ Charge \/ Unplug \/ Plug \/ UNCHANGED vars
  BY <1>1, <1>2, <1>9, MatchWorld DEF MatchInv
<1> QED
  BY <1>3, <1>4, <1>5, <1>6, <1>7, <1>8, <1>9 DEF Next, Step

(* A daemon at rest that does not call itself degraded has the power and   *)
(* the fans of the request it keeps: what an apply leaves, what a rollback *)
(* restores, and what a release of the fans does on either side of it.     *)
THEOREM UndegradedIsTrue == TransactionsSpec => []UndegradedMatchesHardware
<1>1. Init => BooksInv /\ MatchInv
  <2>1. Init => Progress /\ Unmoved /\ KeptMatches /\ Releasing
    BY DEF Init, Progress, Unmoved, KeptMatches, Releasing, AtRest, Applies, Restores,
       Moving, NoAux
  <2> QED BY <2>1, BooksInvHolds DEF MatchInv
<1>2. BooksInv /\ MatchInv /\ [Next]_vars => (BooksInv /\ MatchInv)'
  BY BooksInvHolds, MatchInvHolds
<1>3. MatchInv => UndegradedMatchesHardware
  BY DEF MatchInv, KeptMatches, AtRest, Claims, Matches, FansFit, Powered,
     UndegradedMatchesHardware
<1> QED BY <1>1, <1>2, <1>3, PTL DEF TransactionsSpec
=============================================================================
