---------------------------- MODULE FanProofs ------------------------------
(***************************************************************************)
(* Theorems about FanBackend, for any set of requests and any bounds.      *)
(*                                                                         *)
(* 1. The types (FanTypesCorrect).                                         *)
(*                                                                         *)
(* 2. The owner alone. NoOrphanDirectMode is not inductive: a step that    *)
(* leaves the owner's loop says nothing of the EC. OwnerInv adds what      *)
(* holds in the middle of the owner's work: the flag Owner.released is up  *)
(* only over an EC in automatic mode, so it is down from the moment an     *)
(* install begins, and duties are only written while there are curves.     *)
(*                                                                         *)
(* 3. The call. CallInv adds what ties the backend to the owner: a call    *)
(* that is waited for has the last command of the channel, or the owner    *)
(* is at work on it, or it is answered and then nothing is queued          *)
(* (Calling); what the answer says still holds when it is read (Told); and *)
(* the steps of an operation belong to its stage and its request (Shape).  *)
(* So a Hold that was answered found the channel empty behind it, and the  *)
(* firmware's curves are written behind a fence (FirmwareWriteIsFenced).   *)
(*                                                                         *)
(* 4. What late calls leave. A call that ran out of time leaves its        *)
(* command in the channel, but no more of them gather than an operation    *)
(* and its rollback make (Depth), and a channel of six places has room for *)
(* the next. So a Hold is followed by what lifts it (Holds), an install by *)
(* nothing between it and its own policy (Installs), and the owner serves  *)
(* what the place of the backend says (Served).                            *)
(***************************************************************************)
EXTENDS FanBackend, SequenceTheorems, TLAPS

(* The commands of the two kinds that have a policy have one of the set.   *)
LEMMA CommandsCarryPolicies ==
  ASSUME NEW c \in Commands, c.kind \in {"SetPolicy", "InstallPrime"}
  PROVE  c.policy \in Policies
<1>1. c \notin [kind : {"Hold", "Resume", "Release", "Snapshot"}]
  OBVIOUS
<1> QED BY <1>1 DEF Commands, Command

(* What a Take leaves in the channel, and what it took. *)
LEMMA TakeTypes ==
  ASSUME OwnerTypeOK, NEW kind, Take(kind)
  PROVE  /\ queue' \in Seq(Commands) /\ Len(queue') <= Capacity
         /\ Head(queue) \in Commands /\ Head(queue).kind = kind
<1>1. queue \in Seq(Commands) /\ queue # <<>> /\ queue' = Tail(queue)
  BY DEF OwnerTypeOK, Take
<1>2. /\ Head(queue) \in Commands /\ Tail(queue) \in Seq(Commands)
      /\ Len(Tail(queue)) = Len(queue) - 1
  BY <1>1, HeadTailProperties
<1>3. Len(queue) \in Nat /\ Len(queue) <= Capacity
  BY <1>1, LenProperties DEF OwnerTypeOK
<1> QED BY <1>1, <1>2, <1>3, OwnerAssumption DEF Take

(* A reply is an answer. *)
LEMMA ReplyTypes ==
  ASSUME NEW ok \in BOOLEAN, Reply(ok), answer \in Answers \cup {NoAnswer},
         lastError' \in BOOLEAN, failure' \in BOOLEAN
  PROVE  answer' \in Answers \cup {NoAnswer}
PROOF BY DEF Reply, Answers

(* The owner's own steps keep its types. *)
LEMMA OwnerTypes ==
  ASSUME OwnerTypeOK, OwnerStep
  PROVE  OwnerTypeOK'
<1> USE DEF OwnerTypeOK, hardware, controller, snapshot, owner, thread, channel, Places, Jobs
<1>1. CASE StartTick
  BY <1>1 DEF StartTick
<1>2. CASE TakeCommand
  <2>1. CASE TakePolicy
    <3>1. queue' \in Seq(Commands) /\ Len(queue') <= Capacity /\ policy' \in Policies
      BY <2>1, TakeTypes, CommandsCarryPolicies DEF TakePolicy
    <3>2. answer' \in Answers \cup {NoAnswer}
      BY <2>1, ReplyTypes DEF TakePolicy
    <3> QED BY <2>1, <3>1, <3>2, SMTT(30) DEF TakePolicy, Take
  <2>2. CASE TakeInstall
    <3>1. queue' \in Seq(Commands) /\ Len(queue') <= Capacity /\ wanted' \in Policies
      BY <2>2, TakeTypes, CommandsCarryPolicies DEF TakeInstall
    <3> QED BY <2>2, <3>1 DEF TakeInstall, Take
  <2>3. CASE TakeHold
    <3>1. queue' \in Seq(Commands) /\ Len(queue') <= Capacity
      BY <2>3, TakeTypes DEF TakeHold
    <3>2. answer' \in Answers \cup {NoAnswer}
      BY <2>3, ReplyTypes DEF TakeHold
    <3> QED BY <2>3, <3>1, <3>2 DEF TakeHold, Take
  <2>4. CASE TakeResume
    <3>1. queue' \in Seq(Commands) /\ Len(queue') <= Capacity
      BY <2>4, TakeTypes DEF TakeResume
    <3>2. answer' \in Answers \cup {NoAnswer}
      BY <2>4, ReplyTypes DEF TakeResume
    <3>3. held' \in BOOLEAN /\ enabled' \in BOOLEAN
      BY <2>4 DEF TakeResume
    <3> QED BY <2>4, <3>1, <3>2, <3>3 DEF TakeResume, Take
  <2>5. CASE TakeRelease
    <3>1. queue' \in Seq(Commands) /\ Len(queue') <= Capacity
      BY <2>5, TakeTypes DEF TakeRelease
    <3> QED BY <2>5, <3>1 DEF TakeRelease, Take
  <2>6. CASE TakeSnapshot
    <3>1. queue' \in Seq(Commands) /\ Len(queue') <= Capacity
      BY <2>6, TakeTypes DEF TakeSnapshot
    <3>2. answer' \in Answers \cup {NoAnswer}
      BY <2>6, ReplyTypes DEF TakeSnapshot
    <3> QED BY <2>6, <3>1, <3>2 DEF TakeSnapshot, Take
  <2> QED BY <1>2, <2>1, <2>2, <2>3, <2>4, <2>5, <2>6 DEF TakeCommand
<1>3. CASE StopOwner
  BY <1>3 DEF StopOwner
<1>4. CASE Enabled
  <2>1. faults' \in 0..MaxFaults /\ errors' \in 0..faults'
    BY <1>4, OwnerAssumption DEF Enabled
  <2> QED BY <1>4, <2>1 DEF Enabled
<1>5. CASE EnableFails
  <2>1. faults' \in 0..MaxFaults /\ errors' \in 0..faults'
    BY <1>5, OwnerAssumption DEF EnableFails, MayFail, CountError
  <2> QED BY <1>5, <2>1 DEF EnableFails
<1>6. CASE Sensed \/ SensorFails
  <2>1. faults' \in 0..MaxFaults /\ errors' \in 0..faults'
    BY <1>6, OwnerAssumption DEF Sensed, SensorFails, MayFail
  <2> QED BY <1>6, <2>1 DEF Sensed, SensorFails
<1>7. CASE DutySet
  <2>1. faults' \in 0..MaxFaults /\ errors' \in 0..faults'
    BY <1>7, OwnerAssumption DEF DutySet
  <2>2. answer' \in Answers \cup {NoAnswer}
    BY <1>7, ReplyTypes DEF DutySet
  <2> QED BY <1>7, <2>1, <2>2 DEF DutySet
<1>8. ASSUME NEW kept \in BOOLEAN, OperationFailed(kept)
      PROVE  /\ unreleased' \in BOOLEAN /\ held' \in BOOLEAN /\ enabled' \in BOOLEAN
             /\ lastError' \in BOOLEAN /\ failure' \in BOOLEAN
             /\ pending' \in BOOLEAN /\ released' \in BOOLEAN /\ policy' \in Policies
             /\ at' \in Places /\ job' \in Jobs /\ wanted' \in Policies \cup {None}
  BY <1>8 DEF OperationFailed, TickFailed, InstallFailed
<1>9. CASE DutyFails
  <2>1. faults' \in 0..MaxFaults /\ errors' \in 0..faults'
    BY <1>9, OwnerAssumption DEF DutyFails, MayFail, CountError
  <2>2. CASE errors' >= MaxErrors
    BY <1>9, <2>1, <2>2 DEF DutyFails
  <2>3. CASE ~(errors' >= MaxErrors)
    BY <1>9, <1>8, <2>1, <2>3 DEF DutyFails
  <2> QED BY <2>2, <2>3
<1>10. CASE AutoRelease
  <2>1. faults' \in 0..MaxFaults /\ errors' \in 0..faults'
    <3>1. CASE GiveBack
      BY <3>1, OwnerAssumption DEF GiveBack
    <3>2. CASE GiveBackFails
      BY <3>2, OwnerAssumption DEF GiveBackFails, MayFail
    <3> QED BY <1>10, <3>1, <3>2 DEF AutoRelease
  <2>2. \E kept \in BOOLEAN : OperationFailed(kept)
    BY <1>10 DEF AutoRelease
  <2>3. /\ ec' \in {"auto", "direct"} /\ driving' \in Policies \cup {None}
        /\ UNCHANGED channel
    BY <1>10 DEF AutoRelease, GiveBack, GiveBackFails
  <2> QED BY <1>8, <2>1, <2>2, <2>3
<1>11. ASSUME NEW ok \in BOOLEAN, Finish(ok), lastError' \in BOOLEAN, failure' \in BOOLEAN
       PROVE  /\ at' \in Places /\ job' \in Jobs /\ wanted' \in Policies \cup {None}
              /\ answer' \in Answers \cup {NoAnswer}
              /\ queue' \in Seq(Commands) /\ Len(queue') <= Capacity
              /\ waiting' \in BOOLEAN /\ stopping' \in BOOLEAN
  <2>1. answer' \in Answers \cup {NoAnswer}
    BY <1>11, ReplyTypes DEF Finish
  <2> QED BY <1>11, <2>1 DEF Finish
<1>12. CASE ReleaseSkipped
  BY <1>12, <1>11 DEF ReleaseSkipped
<1>13. CASE Released
  <2>1. faults' \in 0..MaxFaults /\ errors' \in 0..faults'
    BY <1>13, OwnerAssumption DEF Released, GiveBack
  <2> QED BY <1>13, <1>11, <2>1 DEF Released, GiveBack
<1>14. CASE ReleaseFails
  <2>1. faults' \in 0..MaxFaults /\ errors' \in 0..faults'
    BY <1>14, OwnerAssumption DEF ReleaseFails, GiveBackFails, MayFail
  <2> QED BY <1>14, <1>11, <2>1 DEF ReleaseFails, GiveBackFails
<1> QED
  BY <1>1, <1>2, <1>3, <1>4, <1>5, <1>6, <1>7, <1>9, <1>10, <1>12, <1>13, <1>14 DEF OwnerStep

(* The operations only ever move to plans and channels of the right type.  *)
LEMMA TargetTypes ==
  ASSUME PlanTypeOK
  PROVE  Target \in Committable /\ TargetPolicy \in Policies
<1>1. Target \in Committable
  BY DEF PlanTypeOK, Target
<1>2. \A r \in Committable : r # NoRequest => r.policy \in Policies
  BY BackendAssumption DEF Committable
<1>3. AnyPolicy \in Policies
  BY BackendAssumption DEF AnyPolicy
<1> QED BY <1>1, <1>2, <1>3 DEF TargetPolicy

LEMMA SendTypes ==
  ASSUME FanTypeOK, Send
  PROVE  FanTypeOK'
<1>1. CommandOf \in Commands
  BY TargetTypes DEF FanTypeOK, Send, Calls, CommandOf, Commands, Command
<1>2. queue \in Seq(Commands) /\ Len(queue) \in Nat /\ Len(queue) < Capacity
  BY LenProperties DEF FanTypeOK, OwnerTypeOK, Send
<1>3. queue' \in Seq(Commands) /\ Len(queue') = Len(queue) + 1
  BY <1>1, <1>2, AppendProperties DEF Send
<1>4. Len(queue') <= Capacity
  BY <1>2, <1>3, OwnerAssumption
<1>5. OwnerTypeOK'
  BY <1>3, <1>4 DEF FanTypeOK, OwnerTypeOK, Send, hardware, controller, snapshot, owner, thread
<1>6. PlanTypeOK'
  BY DEF FanTypeOK, PlanTypeOK, Send, persisted, plan, bounds
<1> QED BY <1>5, <1>6 DEF FanTypeOK

(* What a helper decides of the plan. *)
PlanDecided ==
  /\ op' \in Operations /\ stage' \in Stages /\ step' \in Calls \cup Writes \cup {"none"}
  /\ goal' \in Committable /\ prior' \in Committable

LEMMA OverTypes == ASSUME Over PROVE PlanDecided
PROOF BY DEF Over, PlanDecided, Operations, Applies, Stages, Calls, Committable

LEMMA ApplyFailedTypes ==
  ASSUME FanTypeOK, NEW worse \in BOOLEAN, ApplyFailed(worse)
  PROVE  PlanDecided /\ desired' \in Committable /\ degraded' \in BOOLEAN
<1>1. desired' \in Committable /\ degraded' \in BOOLEAN
  <2>1. desired' = desired /\ degraded' = (worse \/ op \in Restores)
    BY DEF ApplyFailed
  <2> QED BY <2>1 DEF FanTypeOK, PlanTypeOK
<1>2. CASE op \in Restores
  BY <1>1, <1>2 DEF FanTypeOK, PlanTypeOK, ApplyFailed, plan, To, PlanDecided, Calls
<1>3. CASE op \notin Restores
  BY <1>1, <1>3, OverTypes DEF ApplyFailed
<1> QED BY <1>2, <1>3

LEMMA BrokenTypes ==
  ASSUME FanTypeOK, NEW failed \in BOOLEAN, Broken(failed)
  PROVE  /\ PlanDecided /\ desired' \in Committable
         /\ degraded' \in BOOLEAN /\ noted' \in BOOLEAN
<1> USE DEF FanTypeOK, PlanTypeOK, PlanDecided, To, Stage, Calls, Stages, Applies, Restores
<1>1. CASE op \in Applies /\ stage = "try"
  BY <1>1 DEF Broken
<1>2. CASE op \in Applies /\ stage = "undo"
  BY <1>2 DEF Broken
<1>3. CASE op = "release" /\ stage = "try"
  BY <1>3 DEF Broken
<1>4. CASE op = "release" /\ stage = "undo"
  BY <1>4 DEF Broken
<1>5. CASE /\ ~(op \in Applies /\ stage \in {"try", "undo"})
           /\ ~(op = "release" /\ stage \in {"try", "undo"})
  BY <1>5, OverTypes DEF Broken
<1> QED BY <1>1, <1>2, <1>3, <1>4, <1>5

(* A call that is over, a write that worked, one that broke. *)
LEMMA ReturnsTypes ==
  ASSUME FanTypeOK, NEW called, Returns(called), Succeeds \/ Fails
  PROVE  /\ OwnerTypeOK' /\ suspended' \in BOOLEAN
         /\ ops' \in 0..MaxOps /\ late' \in 0..MaxLate
<1>1. OwnerTypeOK'
  BY DEF FanTypeOK, OwnerTypeOK, Returns, hardware, controller, snapshot, owner, thread
<1>2. late' \in 0..MaxLate
  BY BackendAssumption, SMTT(30)
  DEF FanTypeOK, PlanTypeOK, Succeeds, Fails, Answered, TimedOut, Refused
<1> QED BY <1>1, <1>2 DEF FanTypeOK, PlanTypeOK, Returns

LEMMA AnswerTypes ==
  ASSUME FanTypeOK
  PROVE  answer.ok \in BOOLEAN /\ answer.error \in BOOLEAN /\ answer.failure \in BOOLEAN
<1>1. answer \in Answers \/ answer = NoAnswer
  BY DEF FanTypeOK, OwnerTypeOK
<1>2. CASE answer \in Answers
  BY <1>2 DEF Answers
<1>3. CASE answer = NoAnswer
  BY <1>3 DEF NoAnswer
<1> QED BY <1>1, <1>2, <1>3

LEMMA WorksTypes ==
  ASSUME FanTypeOK, NEW written, Works(written)
  PROVE  /\ OwnerTypeOK' /\ suspended' \in BOOLEAN
         /\ ops' \in 0..MaxOps /\ late' \in 0..MaxLate
<1>1. OwnerTypeOK'
  BY DEF FanTypeOK, OwnerTypeOK, Works, ownerVars, hardware, controller, snapshot, owner,
     thread, channel
<1> QED BY <1>1 DEF FanTypeOK, PlanTypeOK, Works, bounds

LEMMA BreaksTypes ==
  ASSUME FanTypeOK, NEW written, Breaks(written)
  PROVE  /\ OwnerTypeOK' /\ suspended' \in BOOLEAN
         /\ ops' \in 0..MaxOps /\ late' \in 0..MaxLate
<1>1. faults' \in 0..MaxFaults /\ errors' \in 0..faults'
  BY OwnerAssumption DEF FanTypeOK, OwnerTypeOK, Breaks, MayFail, controller
<1>2. OwnerTypeOK'
  BY <1>1 DEF FanTypeOK, OwnerTypeOK, Breaks, controller, snapshot, owner, thread, channel
<1> QED BY <1>2 DEF FanTypeOK, PlanTypeOK, Breaks, bounds

LEMMA BeginTypes ==
  ASSUME FanTypeOK, Begin
  PROVE  FanTypeOK'
<1>1. OwnerTypeOK'
  BY DEF FanTypeOK, OwnerTypeOK, Begin, Apply, ReleaseFans, Observe, Suspend, Resume, Teardown,
     Start, ownerVars, hardware, controller, snapshot, owner, thread, channel
<1>2. ops' \in 0..MaxOps /\ late' \in 0..MaxLate
  BY BackendAssumption
     DEF FanTypeOK, PlanTypeOK, Begin, Apply, ReleaseFans, Observe, Suspend, Resume, Teardown,
         Start, Counted
<1>3. goal' \in Committable /\ prior' \in Committable
  BY DEF FanTypeOK, PlanTypeOK, Begin, Apply, ReleaseFans, Observe, Suspend, Resume, Teardown,
     Committable
<1>4. /\ op' \in Operations /\ stage' \in Stages /\ step' \in Calls \cup Writes \cup {"none"}
      /\ desired' = desired /\ degraded' = degraded /\ noted' = noted /\ moved' = moved
      /\ suspended' \in BOOLEAN
  BY DEF FanTypeOK, PlanTypeOK, Begin, Apply, ReleaseFans, Observe, Suspend, Resume, Teardown,
     Start, persisted, Operations, Applies, Restores, Stages, Calls, Writes
<1> QED BY <1>1, <1>2, <1>3, <1>4 DEF FanTypeOK, PlanTypeOK

(* Each action of the backend, given what its helpers decide. *)
LEMMA ContinueTypes ==
  ASSUME FanTypeOK, Continue
  PROVE  FanTypeOK'
<1> DEFINE Decided ==
      /\ PlanDecided /\ desired' \in Committable /\ moved' \in BOOLEAN
      /\ degraded' \in BOOLEAN /\ noted' \in BOOLEAN
<1> USE DEF To, Same, Stage, persisted, plan, PlanDecided
<1>1. PlanTypeOK
  BY DEF FanTypeOK
<1>2. ASSUME NEW written, Works(written), Decided PROVE FanTypeOK'
  BY <1>2, WorksTypes DEF FanTypeOK, PlanTypeOK
<1>3. ASSUME NEW written, Breaks(written), Decided PROVE FanTypeOK'
  BY <1>3, BreaksTypes DEF FanTypeOK, PlanTypeOK
<1>4. ASSUME NEW called, Returns(called), Succeeds \/ Fails, Decided PROVE FanTypeOK'
  BY <1>4, ReturnsTypes DEF FanTypeOK, PlanTypeOK
<1>5. CASE Send
  BY <1>5, SendTypes
<1>6. CASE Check \/ CheckFails
  <2>1. CASE Check
    <3>1. Decided BY <1>1, <2>1 DEF Check, PlanTypeOK, Calls
    <3> QED BY <1>2, <2>1, <3>1 DEF Check
  <2>2. CASE CheckFails
    <3>1. degraded \in BOOLEAN /\ ApplyFailed(degraded)
      BY <1>1, <2>2 DEF CheckFails, PlanTypeOK
    <3>2. Decided BY <1>1, <2>2, <3>1, ApplyFailedTypes DEF CheckFails, PlanTypeOK
    <3> QED BY <1>3, <2>2, <3>2 DEF CheckFails
  <2> QED BY <1>6, <2>1, <2>2
<1>7. CASE AfterPolicy
  <2>1. Succeeds \/ Fails BY <1>7 DEF AfterPolicy
  <2>2. degraded \in BOOLEAN BY <1>1 DEF PlanTypeOK
  <2>3. noted' = noted /\ moved' = moved BY <1>7 DEF AfterPolicy
  <2>4. \/ ApplyFailed(degraded)
        \/ Over /\ degraded' = TRUE /\ desired' = desired
        \/ /\ desired' = desired /\ degraded' \in {degraded, TRUE}
           /\ step' \in {"write", "observe", "power", "policy"}
           /\ UNCHANGED plan \/ Stage("reject")
    <3>1. CASE stage = "reject"
      BY <1>7, <3>1 DEF AfterPolicy
    <3>2. CASE stage = "safe"
      BY <1>1, <1>7, <3>2 DEF AfterPolicy, PlanTypeOK
    <3>3. CASE stage = "try"
      BY <1>7, <3>3 DEF AfterPolicy
    <3>4. CASE stage \in {"undo", "none"}
      BY <1>7, <3>4 DEF AfterPolicy
    <3> QED BY <1>1, <3>1, <3>2, <3>3, <3>4 DEF PlanTypeOK, Stages
  <2>5. Decided
    <3>1. CASE ApplyFailed(degraded)
      BY <1>1, <2>2, <2>3, <3>1, ApplyFailedTypes DEF PlanTypeOK
    <3>2. CASE Over /\ degraded' = TRUE /\ desired' = desired
      BY <1>1, <2>3, <3>2, OverTypes DEF PlanTypeOK
    <3>3. CASE /\ desired' = desired /\ degraded' \in {degraded, TRUE}
               /\ step' \in {"write", "observe", "power", "policy"}
               /\ UNCHANGED plan \/ Stage("reject")
      BY <1>1, <2>3, <3>3 DEF PlanTypeOK, Calls, Writes, Stages
    <3> QED BY <2>4, <3>1, <3>2, <3>3
  <2> QED BY <1>4, <1>7, <2>1, <2>5 DEF AfterPolicy
<1>8. CASE Power \/ PowerFails \/ SettleFails
  <2>1. CASE Power
    <3>1. Decided BY <1>1, <2>1 DEF Power, PlanTypeOK, FansOf, Calls
    <3> QED BY <1>2, <2>1, <3>1 DEF Power
  <2>2. CASE PowerFails \/ SettleFails
    <3>1. noted \in BOOLEAN /\ Broken(noted) /\ moved' = moved
      BY <1>1, <2>2 DEF PowerFails, SettleFails, PlanTypeOK
    <3>2. Decided BY <1>1, <3>1, BrokenTypes DEF PlanTypeOK
    <3> QED BY <1>3, <2>2, <3>2 DEF PowerFails, SettleFails
  <2> QED BY <1>8, <2>1, <2>2
<1>9. CASE Settle
  <2>1. Decided BY <1>1, <1>9 DEF Settle, PlanTypeOK, Calls, Writes
  <2> QED BY <1>2, <1>9, <2>1 DEF Settle
<1>10. CASE Save
  <2>1. /\ desired' \in Committable /\ degraded' = degraded /\ noted' = noted /\ moved' = moved
    <3>1. ASSUME desired # NoRequest
          PROVE  [desired EXCEPT !.mode = "stock"] \in [mode : {"stock"}, policy : Policies]
      BY <1>1, <3>1, BackendAssumption DEF PlanTypeOK, Committable
    <3> QED BY <1>1, <1>10, <3>1 DEF Save, PlanTypeOK, Committable
  <2>2. Decided BY <1>1, <1>10, <2>1, OverTypes DEF Save, PlanTypeOK
  <2> QED BY <1>2, <1>10, <2>2 DEF Save
<1>11. CASE SaveFails
  <2>1. CASE op = "release"
    <3>1. noted \in BOOLEAN /\ Broken(noted) /\ moved' = moved
      BY <1>1, <1>11, <2>1 DEF SaveFails, PlanTypeOK
    <3> QED BY <1>1, <3>1, BrokenTypes, <1>3, <1>11 DEF SaveFails, PlanTypeOK
  <2>2. CASE op # "release"
    <3>1. Decided BY <1>1, <1>11, <2>2 DEF SaveFails, PlanTypeOK, Stages, Calls
    <3> QED BY <1>3, <1>11, <3>1 DEF SaveFails
  <2> QED BY <2>1, <2>2
<1>12. CASE AfterObserve
  <2>1. Succeeds \/ Fails BY <1>12 DEF AfterObserve
  <2>2. PICK worse \in BOOLEAN :
          /\ noted' = FALSE
          /\ \/ /\ degraded' = (degraded \/ worse) /\ UNCHANGED <<desired, plan>>
                /\ step' \in {"save", "stop"}
             \/ /\ degraded' = (degraded \/ worse) /\ UNCHANGED <<desired, op>>
                /\ goal' = desired /\ prior' = desired /\ stage' = "try" /\ step' = "check"
             \/ ApplyFailed(degraded \/ worse)
             \/ Over /\ degraded' = (degraded \/ worse) /\ UNCHANGED desired
    BY <1>1, <1>12, AnswerTypes DEF AfterObserve, PlanTypeOK
  <2>3. degraded \in BOOLEAN /\ (degraded \/ worse) \in BOOLEAN BY <1>1 DEF PlanTypeOK
  <2>4. moved' = moved BY <1>12 DEF AfterObserve
  <2>5. CASE ApplyFailed(degraded \/ worse)
    <3>1. Decided BY <1>1, <2>2, <2>3, <2>4, <2>5, ApplyFailedTypes DEF PlanTypeOK
    <3> QED BY <1>4, <1>12, <2>1, <3>1 DEF AfterObserve
  <2>6. CASE ~ApplyFailed(degraded \/ worse)
    <3>1. Decided BY <1>1, <2>2, <2>3, <2>4, <2>6, OverTypes DEF PlanTypeOK, Writes, Stages
    <3> QED BY <1>4, <1>12, <2>1, <3>1 DEF AfterObserve
  <2> QED BY <2>5, <2>6
<1>13. CASE AfterHold \/ AfterUnhold \/ AfterResume
  <2>1. Succeeds \/ Fails BY <1>13 DEF AfterHold, AfterUnhold, AfterResume
  <2>2. Decided BY <1>1, <1>13 DEF AfterHold, AfterUnhold, AfterResume, PlanTypeOK, Calls, Writes
  <2> QED BY <1>4, <1>13, <2>1, <2>2 DEF AfterHold, AfterUnhold, AfterResume
<1>14. CASE Write
  <2>1. Decided BY <1>1, <1>14 DEF Write, PlanTypeOK, Calls
  <2> QED BY <1>2, <1>14, <2>1 DEF Write
<1>15. CASE WriteFails
  <2>1. CASE stage = "safe"
    <3>1. noted \in BOOLEAN /\ Broken(noted) /\ moved' = moved
      BY <1>1, <1>15, <2>1 DEF WriteFails, PlanTypeOK
    <3>2. Decided BY <1>1, <3>1, BrokenTypes DEF PlanTypeOK
    <3> QED BY <1>3, <1>15, <3>2 DEF WriteFails
  <2>2. CASE stage # "safe"
    <3>1. Decided BY <1>1, <1>15, <2>2 DEF WriteFails, PlanTypeOK, Calls
    <3> QED BY <1>3, <1>15, <3>1 DEF WriteFails
  <2> QED BY <2>1, <2>2
<1>16. CASE AfterSwitch
  <2>1. Succeeds \/ Fails BY <1>16 DEF AfterSwitch
  <2>2. CASE stage = "safe"
    <3>1. (\E failed \in BOOLEAN : Broken(failed)) /\ moved' = moved
      BY <1>1, <1>16, <2>2 DEF AfterSwitch, PlanTypeOK
    <3>2. Decided BY <1>1, <3>1, BrokenTypes DEF PlanTypeOK
    <3> QED BY <1>4, <1>16, <2>1, <3>2 DEF AfterSwitch
  <2>3. CASE stage # "safe"
    <3>1. Decided BY <1>1, <1>16, <2>3 DEF AfterSwitch, PlanTypeOK, Calls
    <3> QED BY <1>4, <1>16, <2>1, <3>1 DEF AfterSwitch
  <2> QED BY <2>2, <2>3
<1>17. CASE AfterSync
  <2>1. Succeeds \/ Fails BY <1>17 DEF AfterSync
  <2>2. PICK seen \in BOOLEAN :
          /\ moved' = FALSE
          /\ \/ Broken(noted \/ seen)
             \/ /\ noted' = (noted \/ seen) /\ UNCHANGED <<desired, degraded>>
                /\ Over \/ (To("settle") /\ UNCHANGED plan)
    BY <1>17, AnswerTypes DEF AfterSync
  <2>3. noted \in BOOLEAN /\ (noted \/ seen) \in BOOLEAN BY <1>1 DEF PlanTypeOK
  <2>4. CASE Broken(noted \/ seen)
    <3>1. Decided BY <2>2, <2>3, <2>4, BrokenTypes
    <3> QED BY <1>4, <1>17, <2>1, <3>1 DEF AfterSync
  <2>5. CASE ~Broken(noted \/ seen)
    <3>1. Decided BY <1>1, <2>2, <2>3, <2>5, OverTypes DEF PlanTypeOK, Writes
    <3> QED BY <1>4, <1>17, <2>1, <3>1 DEF AfterSync
  <2> QED BY <2>4, <2>5
<1>18. CASE AfterInstall \/ AfterAbandon \/ AfterDrop
  <2>1. Succeeds \/ Fails BY <1>18 DEF AfterInstall, AfterAbandon, AfterDrop
  <2>2. moved' = moved BY <1>18 DEF AfterInstall, AfterAbandon, AfterDrop
  <2>3. CASE \E failed \in BOOLEAN : Broken(failed)
    <3>1. Decided BY <1>1, <2>2, <2>3, BrokenTypes DEF PlanTypeOK
    <3> QED BY <1>4, <1>18, <2>1, <3>1 DEF AfterInstall, AfterAbandon, AfterDrop
  <2>4. CASE ~ \E failed \in BOOLEAN : Broken(failed)
    <3>1. FansSet \/ (To("abandon") /\ UNCHANGED <<persisted, plan>>)
      BY <1>1, <1>18, <2>4 DEF AfterInstall, AfterAbandon, AfterDrop, PlanTypeOK
    <3>2. Decided BY <1>1, <2>2, <3>1, OverTypes DEF FansSet, PlanTypeOK, Calls, Writes
    <3> QED BY <1>4, <1>18, <2>1, <3>2 DEF AfterInstall, AfterAbandon, AfterDrop
  <2> QED BY <2>3, <2>4
<1>19. CASE AfterDisarm
  <2>1. Succeeds \/ Fails BY <1>19 DEF AfterDisarm
  <2>2. PICK failed \in BOOLEAN :
          /\ degraded' = (degraded \/ failed) /\ noted' = FALSE
          /\ Over \/ (step' \in {"observe", "stop"} /\ UNCHANGED plan)
    BY <1>1, <1>19 DEF AfterDisarm, PlanTypeOK
  <2>3. (degraded \/ failed) \in BOOLEAN BY <1>1 DEF PlanTypeOK
  <2>4. Decided
    BY <1>1, <1>19, <2>2, <2>3, OverTypes DEF AfterDisarm, PlanTypeOK, Calls, Writes
  <2> QED BY <1>4, <1>19, <2>1, <2>4 DEF AfterDisarm
<1>20. CASE Stop
  <2>1. OwnerTypeOK'
    BY <1>20 DEF Stop, FanTypeOK, OwnerTypeOK, hardware, controller, snapshot, owner, thread
  <2> QED BY <1>1, <1>20, <2>1 DEF Stop, FanTypeOK, PlanTypeOK, bounds, Writes
<1>21. CASE Join
  <2>1. OwnerTypeOK'
    BY <1>21 DEF Join, FanTypeOK, OwnerTypeOK, ownerVars, hardware, controller, snapshot, owner,
       thread, channel
  <2> QED BY <1>1, <1>21, <2>1 DEF Join, FanTypeOK, PlanTypeOK, bounds, Operations
<1> QED
  BY <1>5, <1>6, <1>7, <1>8, <1>9, <1>10, <1>11, <1>12, <1>13, <1>14, <1>15, <1>16, <1>17,
     <1>18, <1>19, <1>20, <1>21 DEF Continue

(* What the backend and the owner pass each other keeps its type: a        *)
(* command carries a policy of some request, the channel never holds more  *)
(* than its capacity, and the plan of an operation stays a plan.           *)
THEOREM FanTypesCorrect == FanSpec => []FanTypeOK
<1>1. FanInit => FanTypeOK
  <2>1. FanInit => OwnerTypeOK
    <3>1. <<>> \in Seq(Commands) /\ Len(<<>>) = 0 /\ 0 <= Capacity
      BY OwnerAssumption, EmptySeq
    <3>2. 0 \in 0..MaxFaults /\ 0 \in 0..0
      BY OwnerAssumption
    <3> QED BY <3>1, <3>2 DEF FanInit, OwnerInit, OwnerTypeOK, Places, Jobs
  <2>2. FanInit => PlanTypeOK
    <3>1. 0 \in 0..MaxOps /\ 0 \in 0..MaxLate
      BY BackendAssumption
    <3>2. FanInit => desired \in Committable /\ goal \in Committable /\ prior \in Committable
      BY DEF FanInit, Committable
    <3> QED BY <3>1, <3>2 DEF FanInit, PlanTypeOK, Operations, Applies, Restores, Stages, Calls
  <2> QED BY <2>1, <2>2 DEF FanTypeOK
<1>2. FanTypeOK /\ [FanNext]_vars => FanTypeOK'
  <2> SUFFICES ASSUME FanTypeOK, [FanNext]_vars PROVE FanTypeOK'
    OBVIOUS
  <2>1. CASE Begin
    BY <2>1, BeginTypes
  <2>2. CASE Continue
    BY <2>2, ContinueTypes
  <2>3. CASE ThreadStep
    <3>1. OwnerTypeOK'
      BY <2>3, OwnerTypes DEF ThreadStep, FanTypeOK
    <3>2. PlanTypeOK'
      BY <2>3 DEF ThreadStep, BackendUnchanged, FanTypeOK, PlanTypeOK, persisted, plan, bounds
    <3> QED BY <3>1, <3>2 DEF FanTypeOK
  <2>4. CASE UNCHANGED vars
    BY <2>4 DEF vars, FanTypeOK, OwnerTypeOK, PlanTypeOK, ownerVars, hardware, controller,
       snapshot, owner, thread, channel, persisted, plan, bounds
  <2> QED BY <2>1, <2>2, <2>3, <2>4 DEF FanNext
<1> QED BY <1>1, <1>2, PTL DEF FanSpec

(* Where the EC and the flags of the owner stand, in the middle of its     *)
(* work too.                                                               *)
OwnerInv ==
  /\ pending => failure
  /\ released => ~pending /\ ec = "auto" /\ driving = None /\ at \in {"loop", "release", "gone"}
  /\ at = "enable" => job = "install"
  /\ at \in {"sense", "duty"} => driving # None /\ ~pending
  /\ at = "loop" /\ ec = "direct" => driving # None \/ pending
  /\ at = "gone" /\ ec = "direct" => pending

(* Every step of the owner keeps it. *)
LEMMA OwnerInvHolds ==
  ASSUME OwnerTypeOK, OwnerInv, OwnerStep
  PROVE  OwnerInv'
<1> USE DEF OwnerInv, OwnerTypeOK, hardware, controller, snapshot, owner, thread, channel
<1>1. CASE StartTick
  BY <1>1 DEF StartTick, TickDue, Idle
<1>2. CASE TakeCommand
  <2>1. CASE TakePolicy \/ TakeSnapshot
    <3>1. UNCHANGED <<ec, driving, failure, pending, released, at, job>>
      BY <2>1 DEF TakePolicy, TakeSnapshot
    <3> QED BY <3>1
  <2>2. CASE TakeInstall
    BY <2>2 DEF TakeInstall, Take, Idle
  <2>3. CASE TakeHold
    BY <2>3 DEF TakeHold, Take, Idle
  <2>4. CASE TakeResume
    BY <2>4 DEF TakeResume, Take, Idle
  <2>5. CASE TakeRelease
    BY <2>5 DEF TakeRelease, Take, Idle
  <2> QED BY <1>2, <2>1, <2>2, <2>3, <2>4, <2>5 DEF TakeCommand
<1>3. CASE StopOwner
  BY <1>3 DEF StopOwner
<1>4. CASE Enabled
  BY <1>4, NoneIsNoPolicy DEF Enabled
<1>5. CASE EnableFails
  BY <1>5 DEF EnableFails
<1>6. CASE Sensed \/ SensorFails
  BY <1>6 DEF Sensed, SensorFails
<1>7. CASE DutySet
  BY <1>7 DEF DutySet
<1>8. CASE DutyFails
  BY <1>8 DEF DutyFails, OperationFailed, TickFailed, InstallFailed
<1>9. CASE AutoRelease
  BY <1>9 DEF AutoRelease, GiveBack, GiveBackFails, OperationFailed, TickFailed, InstallFailed
<1>10. CASE ReleaseSkipped
  BY <1>10 DEF ReleaseSkipped, Finish
<1>11. CASE Released
  BY <1>11 DEF Released, GiveBack, Finish
<1>12. CASE ReleaseFails
  BY <1>12 DEF ReleaseFails, MustRelease, GiveBackFails, Finish
<1> QED
  BY <1>1, <1>2, <1>3, <1>4, <1>5, <1>6, <1>7, <1>8, <1>9, <1>10, <1>11, <1>12 DEF OwnerStep

(* Whatever command comes, whatever fails and whatever is late, the EC is  *)
(* never left in direct mode without curves to drive it or a release to    *)
(* retry, and Owner.released never hides a release that is still due.      *)
THEOREM DirectModeIsOwned == FanSpec => []NoOrphanDirectMode
<1>1. FanInit => OwnerInv
  BY DEF FanInit, OwnerInit, OwnerInv
<1>2. FanTypeOK /\ OwnerInv /\ [FanNext]_vars => OwnerInv'
  <2> SUFFICES ASSUME FanTypeOK, OwnerInv, [FanNext]_vars PROVE OwnerInv'
    OBVIOUS
  <2>1. CASE ThreadStep
    BY <2>1, OwnerInvHolds DEF ThreadStep, FanTypeOK
  <2>2. CASE UNCHANGED <<ec, controller, snapshot, owner, thread>>
    BY <2>2 DEF OwnerInv, controller, snapshot, owner, thread
  <2>3. CASE Begin
    <3>1. UNCHANGED ownerVars
      BY <2>3 DEF Begin, Apply, ReleaseFans, Observe, Suspend, Resume, Teardown, Start
    <3> QED BY <2>2, <3>1 DEF ownerVars, hardware
  <2>4. CASE Continue
    <3>1. UNCHANGED <<ec, controller, snapshot, owner, thread>>
      BY <2>4 DEF Continue, Send, Check, CheckFails, AfterPolicy, Power, PowerFails, Settle,
         SettleFails, Save, SaveFails, AfterObserve, AfterHold, AfterUnhold, Write, WriteFails,
         AfterSwitch, AfterResume, AfterSync, AfterInstall, AfterAbandon, AfterDrop,
         AfterDisarm, Stop, Join, Returns, Works, Breaks, ownerVars, hardware
    <3> QED BY <2>2, <3>1
  <2>5. CASE UNCHANGED vars
    BY <2>2, <2>5 DEF vars, ownerVars, hardware
  <2> QED BY <2>1, <2>3, <2>4, <2>5 DEF FanNext
<1>3. FanTypeOK /\ OwnerInv => NoOrphanDirectMode
  BY DEF FanTypeOK, OwnerInv, NoOrphanDirectMode
<1> QED BY <1>1, <1>2, <1>3, FanTypesCorrect, PTL DEF FanSpec

-----------------------------------------------------------------------------
(* The owner's work, seen from its caller.                                 *)

(* What the thread does where, and that nothing drives the EC while its    *)
(* release is due or its ticks are held.                                   *)
OwnerPlace ==
  /\ at \in {"loop", "gone"} => job = "none"
  /\ at \in {"sense", "duty", "auto"} => job \in {"tick", "install"}
  /\ at = "release" => job # "none"
  /\ at = "release" /\ job = "tick" => pending
  /\ pending => driving = None
  /\ unreleased => pending \/ (at = "release" /\ ~released)
  /\ released => ~held
  /\ held => at \notin {"sense", "duty"} /\ ~(at = "auto" /\ job = "tick")
  /\ job = "final" \/ at = "gone" => stopping

(* Every step of the owner keeps it. *)
LEMMA OwnerPlaceHolds ==
  ASSUME OwnerTypeOK, OwnerInv, OwnerPlace, OwnerStep
  PROVE  OwnerPlace'
<1> USE DEF OwnerPlace, OwnerInv, OwnerTypeOK, hardware, controller, snapshot, owner, thread,
            channel
<1>1. CASE StartTick
  BY <1>1 DEF StartTick, TickDue, Idle
<1>2. CASE TakeCommand
  <2>1. CASE TakePolicy \/ TakeSnapshot
    <3>1. UNCHANGED <<driving, pending, unreleased, released, held, at, job, stopping>>
      BY <2>1 DEF TakePolicy, TakeSnapshot, Take
    <3> QED BY <3>1
  <2>2. CASE TakeInstall
    BY <2>2 DEF TakeInstall, Take, Idle
  <2>3. CASE TakeHold
    BY <2>3 DEF TakeHold, Take, Idle
  <2>4. CASE TakeResume
    BY <2>4 DEF TakeResume, Take, Idle
  <2>5. CASE TakeRelease
    BY <2>5 DEF TakeRelease, Take, Idle
  <2> QED BY <1>2, <2>1, <2>2, <2>3, <2>4, <2>5 DEF TakeCommand
<1>3. CASE StopOwner
  BY <1>3 DEF StopOwner
<1>4. CASE Enabled
  BY <1>4 DEF Enabled
<1>5. CASE EnableFails
  BY <1>5 DEF EnableFails
<1>6. CASE Sensed \/ SensorFails
  BY <1>6 DEF Sensed, SensorFails
<1>7. CASE DutySet
  BY <1>7 DEF DutySet
<1>8. CASE DutyFails
  BY <1>8 DEF DutyFails, OperationFailed, TickFailed, InstallFailed
<1>9. CASE AutoRelease
  BY <1>9 DEF AutoRelease, GiveBack, GiveBackFails, OperationFailed, TickFailed, InstallFailed
<1>10. CASE ReleaseSkipped
  BY <1>10 DEF ReleaseSkipped, Finish
<1>11. CASE Released
  BY <1>11 DEF Released, GiveBack, Finish
<1>12. CASE ReleaseFails
  BY <1>12 DEF ReleaseFails, MustRelease, GiveBackFails, Finish
<1> QED
  BY <1>1, <1>2, <1>3, <1>4, <1>5, <1>6, <1>7, <1>8, <1>9, <1>10, <1>11, <1>12 DEF OwnerStep

(* Of the calls that ran out of time nothing more than their command is    *)
(* left; the call in hand has the last command of the channel, or the      *)
(* owner works on it, or it is answered.                                   *)
Calling ==
  /\ waiting => step \in Calls /\ ~stopping
  /\ answer.sent => waiting /\ queue = <<>> /\ job \in {"none", "tick"}
  /\ waiting /\ ~answer.sent /\ queue # <<>> => queue[Len(queue)] = CommandOf
  /\ waiting /\ ~answer.sent /\ queue = <<>> =>
       \/ job = "release" /\ CommandOf.kind = "Release"
       \/ /\ job = "install" /\ CommandOf.kind = "InstallPrime"
          /\ wanted = CommandOf.policy
  /\ stopping => op \in {"teardown", "gone"} /\ step \in {"join", "none"}

(* The command of a call, by the step of the operation. *)
LEMMA CommandKinds ==
  /\ step = "policy" => CommandOf = [kind |-> "SetPolicy", policy |-> TargetPolicy]
  /\ step = "install" => CommandOf = [kind |-> "InstallPrime", policy |-> TargetPolicy]
  /\ step = "hold" => CommandOf = [kind |-> "Hold"]
  /\ step \in {"unhold", "resume"} => CommandOf = [kind |-> "Resume"]
  /\ step \in {"switch", "abandon", "drop", "disarm"} => CommandOf = [kind |-> "Release"]
  /\ step \in {"sync", "observe"} => CommandOf = [kind |-> "Snapshot"]
BY DEF CommandOf

(* While the backend waits, the command it waits for is the same. *)
LEMMA CommandStays ==
  BackendUnchanged =>
    CommandOf' = CommandOf /\ TargetPolicy' = TargetPolicy /\ Target' = Target
BY DEF BackendUnchanged, plan, CommandOf, TargetPolicy, Target

(* A command that is taken leaves the others one place ahead. *)
LEMMA TakeMoves ==
  ASSUME OwnerTypeOK, NEW kind, Take(kind)
  PROVE  /\ Len(queue') = Len(queue) - 1 /\ Len(queue) \in Nat /\ Len(queue') \in Nat
         /\ \A i \in 1..Len(queue') : queue'[i] = queue[i + 1]
         /\ queue[1].kind = kind /\ Head(queue) = queue[1]
         /\ (queue' = <<>> <=> Len(queue) = 1)
         /\ queue' # <<>> => queue'[Len(queue')] = queue[Len(queue)]
         /\ UNCHANGED <<waiting, stopping>>
         /\ at = "loop" /\ ~stopping /\ queue # <<>>
<1>1. queue \in Seq(Commands) /\ queue # <<>> /\ queue' = Tail(queue) /\ Head(queue).kind = kind
  BY DEF OwnerTypeOK, Take
<1>2. /\ Tail(queue) \in Seq(Commands) /\ Len(Tail(queue)) = Len(queue) - 1
      /\ \A i \in 1..Len(Tail(queue)) : Tail(queue)[i] = queue[i + 1]
  BY <1>1, HeadTailProperties
<1>3. Len(queue) \in Nat /\ Len(queue) # 0
  BY <1>1, EmptySeq, LenProperties
<1>4. Head(queue) = queue[1]
  BY <1>1
<1>5. queue' = <<>> <=> Len(queue') = 0
  BY <1>1, <1>2, EmptySeq
<1>6. queue' # <<>> => queue'[Len(queue')] = queue[Len(queue)]
  BY <1>1, <1>2, <1>3, <1>5
<1> QED BY <1>1, <1>2, <1>3, <1>4, <1>5, <1>6 DEF Take, Idle

(* A reply reaches the caller when nothing is queued behind it.            *)
LEMMA ReplyTells ==
  ASSUME NEW ok, Reply(ok)
  PROVE  /\ waiting /\ queue' = <<>> => answer'.sent /\ answer'.ok = ok
         /\ ~(waiting /\ queue' = <<>>) => answer' = answer
BY DEF Reply

(* The owner's steps keep the account of the call. *)
LEMMA CallingTakes ==
  ASSUME FanTypeOK, OwnerPlace, Calling, TakeCommand, BackendUnchanged
  PROVE  Calling'
<1> USE DEF BackendUnchanged, bounds, plan
<1>1. OwnerTypeOK
  BY DEF FanTypeOK
<1>2. CommandOf' = CommandOf
  BY CommandStays
<1>4. ASSUME NEW kind, Take(kind)
      PROVE  /\ ~answer.sent
             /\ job = "none"
             /\ waiting => step \in Calls /\ ~stopping
             /\ waiting /\ queue' # <<>> => queue'[Len(queue')] = CommandOf'
             /\ waiting /\ queue' = <<>> => queue[1] = CommandOf
             /\ UNCHANGED <<waiting, stopping>> /\ ~stopping
             /\ Head(queue) = queue[1] /\ queue[1].kind = kind
  <2>1. ~answer.sent
    BY <1>1, <1>4, TakeMoves DEF Calling
  <2>3. waiting => queue[Len(queue)] = CommandOf
    BY <1>1, <1>4, <2>1, TakeMoves DEF Calling
  <2> QED BY <1>1, <1>2, <1>4, <2>1, <2>3, TakeMoves DEF Calling, OwnerPlace
<1>5. ASSUME NEW kind, Take(kind), NEW ok, Reply(ok), job' = job
      PROVE  Calling'
  <2>1. CASE waiting /\ queue' = <<>>
    <3>1. answer'.sent
      BY <1>5, <2>1, ReplyTells
    <3> QED BY <1>4, <1>5, <2>1, <3>1 DEF Calling
  <2>2. CASE ~(waiting /\ queue' = <<>>)
    <3>1. answer' = answer
      BY <1>5, <2>2, ReplyTells
    <3> QED BY <1>4, <1>5, <2>2, <3>1 DEF Calling
  <2> QED BY <2>1, <2>2
<1>6. CASE TakePolicy \/ TakeHold \/ TakeResume \/ TakeSnapshot
  <2>1. \E kind : Take(kind) /\ \E ok : Reply(ok)
    BY <1>6 DEF TakePolicy, TakeHold, TakeResume, TakeSnapshot
  <2>2. job' = job
    BY <1>6 DEF TakePolicy, TakeHold, TakeResume, TakeSnapshot, thread
  <2> QED BY <1>5, <2>1, <2>2
<1>7. CASE TakeInstall
  <2>1. Take("InstallPrime") /\ job' = "install" /\ wanted' = Head(queue).policy /\ answer' = answer
    BY <1>7 DEF TakeInstall
  <2> QED BY <1>2, <1>4, <2>1 DEF Calling
<1>8. CASE TakeRelease
  <2>1. Take("Release") /\ job' = "release" /\ answer' = answer
    BY <1>8 DEF TakeRelease
  <2> QED BY <1>2, <1>4, <2>1 DEF Calling
<1> QED BY <1>6, <1>7, <1>8 DEF TakeCommand

(* A step of the owner that takes no command either goes on with its job   *)
(* or ends it, and then tells the caller when it is the caller's.          *)
LEMMA OwnerWorks ==
  ASSUME FanTypeOK, OwnerPlace, OwnerStep, ~TakeCommand
  PROVE  /\ UNCHANGED <<queue, waiting, stopping>>
         /\ \/ job \in {"none", "tick"} /\ job' \in {"none", "tick"} /\ answer' = answer
            \/ job' = "final" /\ stopping /\ answer' = answer
            \/ job = "final" /\ job' = "none" /\ answer' = answer
            \/ job' = job /\ wanted' = wanted /\ answer' = answer
            \/ /\ job \in {"install", "release"} /\ job' = "none"
               /\ at' = "loop" /\ \E ok \in BOOLEAN : Reply(ok)
<1> USE DEF OwnerPlace, controller, snapshot, owner, thread, channel
<1>0. job \in Jobs
  BY DEF FanTypeOK, OwnerTypeOK
<1>1. CASE StartTick \/ StopOwner
  BY <1>1 DEF StartTick, Idle, StopOwner
<1>2. CASE Enabled \/ EnableFails \/ Sensed \/ SensorFails
  BY <1>2 DEF Enabled, EnableFails, Sensed, SensorFails
<1>3. CASE DutySet
  BY <1>3 DEF DutySet
<1>4. ASSUME NEW kept, OperationFailed(kept)
      PROVE  (job' = job /\ wanted' = wanted) \/ (job = "tick" /\ job' = "none")
  BY <1>4 DEF OperationFailed, TickFailed, InstallFailed
<1>5. CASE DutyFails
  <2>1. UNCHANGED channel
    BY <1>5 DEF DutyFails
  <2>2. (job' = job /\ wanted' = wanted) \/ (job = "tick" /\ job' = "none")
    BY <1>4, <1>5 DEF DutyFails
  <2> QED BY <2>1, <2>2
<1>6. CASE AutoRelease
  <2>1. UNCHANGED channel
    BY <1>6 DEF AutoRelease
  <2>2. (job' = job /\ wanted' = wanted) \/ (job = "tick" /\ job' = "none")
    BY <1>4, <1>6 DEF AutoRelease
  <2> QED BY <2>1, <2>2
<1>7. CASE ReleaseSkipped \/ Released \/ ReleaseFails
  <2>1. PICK ok \in BOOLEAN : Finish(ok)
    BY <1>7 DEF ReleaseSkipped, Released, ReleaseFails
  <2>2. CASE job = "release"
    BY <2>1, <2>2 DEF Finish
  <2>3. CASE job = "install"
    BY <2>1, <2>3 DEF Finish
  <2>4. CASE job \in {"none", "tick", "final"}
    BY <2>1, <2>4 DEF Finish
  <2> QED BY <1>0, <2>2, <2>3, <2>4 DEF Jobs
<1> QED BY <1>1, <1>2, <1>3, <1>5, <1>6, <1>7 DEF OwnerStep

LEMMA CallingServed ==
  ASSUME FanTypeOK, OwnerPlace, Calling, ThreadStep
  PROVE  Calling'
<1> USE DEF BackendUnchanged, bounds, plan
<1>1. OwnerStep /\ BackendUnchanged
  BY DEF ThreadStep
<1>2. CASE TakeCommand
  BY <1>1, <1>2, CallingTakes
<1>3. CASE ~TakeCommand
  <2>1. CommandOf' = CommandOf /\ UNCHANGED <<queue, waiting, stopping, op, step>>
    BY <1>1, <1>3, CommandStays, OwnerWorks
  <2>2. CASE /\ answer' = answer
             /\ \/ job \in {"none", "tick"} /\ job' \in {"none", "tick"}
                \/ job' = job /\ wanted' = wanted
    BY <2>1, <2>2 DEF Calling
  <2>3. CASE answer' = answer /\ (job' = "final" \/ job = "final") /\ (stopping \/ job = "final")
    BY <2>1, <2>3 DEF Calling, OwnerPlace
  <2>4. CASE /\ job \in {"install", "release"} /\ job' = "none"
             /\ \E ok \in BOOLEAN : Reply(ok)
    <3>1. PICK ok \in BOOLEAN : Reply(ok)
      BY <2>4
    <3>2. CASE waiting /\ queue' = <<>>
      BY <2>1, <2>4, <3>1, <3>2, ReplyTells DEF Calling
    <3>3. CASE ~(waiting /\ queue' = <<>>)
      BY <2>1, <2>4, <3>1, <3>3, ReplyTells DEF Calling
    <3> QED BY <3>2, <3>3
  <2> QED BY <1>1, <1>3, <2>2, <2>3, <2>4, OwnerWorks
<1> QED BY <1>2, <1>3

(* Which step belongs to which stage of which operation, and to a request  *)
(* of which mode.                                                          *)
Transition == {"hold", "unhold", "write", "switch", "resume", "sync"}
Shape ==
  /\ op = "apply" /\ (stage \in {"undo", "reject"} \/ step \notin {"observe", "save"}) =>
       desired = prior
  /\ op = "release" => desired = prior /\ step \notin {"observe", "disarm"}
  /\ op = "release" /\ stage = "try" => goal = NoRequest /\ step # "policy"
  /\ op = "release" /\ stage = "undo" => prior # NoRequest
  /\ stage = "safe" => op = "release" /\ step \in {"policy", "write", "switch"}
  /\ stage = "reject" => op \in Applies /\ step \in {"policy", "disarm"}
  /\ stage = "none" =>
       /\ op \in {"idle", "observe", "suspend", "teardown", "gone", "boot"}
       /\ step \in {"none", "observe", "disarm", "stop", "join"}
  /\ op \in {"idle", "observe", "suspend", "teardown", "gone"} => stage = "none"
  /\ op = "idle" => step = "none"
  /\ step = "disarm" => op \in {"suspend", "teardown"} \cup Restores
  /\ op = "suspend" => suspended
  /\ suspended => op \in {"idle", "suspend", "teardown", "gone"}
  /\ step \in {"install", "abandon"} => Target.mode = "direct"
  /\ step \in Transition /\ stage # "safe" => Target.mode = "firmware"
  /\ step = "drop" => Target.mode # "direct"
  /\ step = "save" \/ (step = "settle" /\ op = "release") => stage = "try"
  /\ step = "check" => op \in Restores
  /\ step \in {"stop", "join"} => op = "teardown"

(* Where an operation that is over, failed or broken goes fits its stage.  *)
LEMMA OverIs ==
  ASSUME Over
  PROVE  /\ stage' = "none" /\ goal' = NoRequest /\ prior' = NoRequest
         /\ op = "restore" => op' = "observe" /\ step' = "observe"
         /\ op # "restore" => op' = "idle" /\ step' = "none"
BY DEF Over

LEMMA OverShape ==
  ASSUME Over, suspended' = suspended, suspended => op \in {"idle", "suspend", "teardown", "gone"}
  PROVE  Shape'
BY OverIs DEF Shape, Applies, Restores, Transition

LEMMA ApplyFailedShape ==
  ASSUME Shape, NEW worse, ApplyFailed(worse), suspended' = suspended,
         stage \in {"try", "undo", "reject"}
  PROVE  Shape'
<1>1. CASE op \in Restores
  <2>1. step' = "disarm" /\ UNCHANGED <<plan, desired>>
    BY <1>1 DEF ApplyFailed, To
  <2> QED BY <1>1, <2>1 DEF Shape, plan, Applies, Restores, Transition
<1>2. CASE op \notin Restores
  BY <1>2, OverShape DEF ApplyFailed, Shape
<1> QED BY <1>1, <1>2

LEMMA BrokenShape ==
  ASSUME Shape, NEW failed, Broken(failed), suspended' = suspended, step \notin {"observe", "save"}
         \/ op = "release"
  PROVE  Shape'
<1> USE DEF To, Stage
<1>1. CASE op \in Applies /\ stage = "try"
  BY <1>1 DEF Broken, Shape, Applies, Restores, Transition
<1>2. CASE op \in Applies /\ stage = "undo"
  BY <1>2 DEF Broken, Shape, Applies, Restores, Transition
<1>3. CASE op = "release" /\ stage = "try"
  BY <1>3 DEF Broken, Shape, Applies, Restores, Transition
<1>4. CASE op = "release" /\ stage = "undo"
  BY <1>4 DEF Broken, Shape, Applies, Restores, Transition
<1>5. CASE /\ ~(op \in Applies /\ stage \in {"try", "undo"})
           /\ ~(op = "release" /\ stage \in {"try", "undo"})
  BY <1>5, OverShape DEF Broken, Shape
<1> QED BY <1>1, <1>2, <1>3, <1>4, <1>5

(* Every step of the backend keeps the shape of its plan. *)
LEMMA ShapeHolds ==
  ASSUME FanTypeOK, Shape, Begin \/ Continue
  PROVE  Shape'
<1> USE DEF To, Same, Stage, persisted, plan
<1>0. /\ stage \in Stages /\ op \in Operations /\ desired \in Committable
      /\ goal \in Committable /\ prior \in Committable
  BY DEF FanTypeOK, PlanTypeOK
<1>1. ASSUME NEW called, Returns(called) PROVE suspended' = suspended /\ step = called
  BY <1>1 DEF Returns
<1>2. ASSUME NEW written, Works(written) \/ Breaks(written)
      PROVE  suspended' = suspended /\ step = written
  BY <1>2 DEF Works, Breaks
<1>3. CASE Begin
  BY <1>3 DEF Begin, Apply, ReleaseFans, Observe, Suspend, Resume, Teardown, Start, Free, Shape,
     Applies, Restores, Transition, Stages
<1>4. CASE Send
  BY <1>4 DEF Send, Shape, Target
<1>5. CASE Check
  <2>1. suspended' = suspended /\ step = "check" BY <1>2, <1>5 DEF Check
  <2> QED BY <1>5, <2>1 DEF Check, Shape, Transition, Restores, Applies
<1>6. CASE CheckFails
  <2>1. suspended' = suspended /\ step = "check" BY <1>2, <1>6 DEF CheckFails
  <2>2. stage \in {"try", "undo", "reject"} BY <1>0, <2>1 DEF Shape, Stages
  <2> QED BY <1>6, <2>1, <2>2, ApplyFailedShape DEF CheckFails
<1>7. CASE AfterPolicy
  <2>1. suspended' = suspended /\ step = "policy" BY <1>1, <1>7 DEF AfterPolicy
  <2>2. CASE stage = "reject"
    <3>1. op \in Applies BY <2>2 DEF Shape
    <3>2. ApplyFailed(degraded) BY <1>7, <2>2, <3>1 DEF AfterPolicy, Applies, Restores
    <3> QED BY <2>1, <2>2, <3>2, ApplyFailedShape
  <2>3. CASE stage = "safe"
    <3>1. \/ step' = "write" /\ UNCHANGED <<plan, desired>>
          \/ Over
      BY <1>7, <2>3 DEF AfterPolicy, Shape
    <3> QED BY <2>1, <2>3, <3>1, OverShape DEF Shape, Transition
  <2>4. CASE stage = "try"
    <3>1. \/ step' = "power" /\ UNCHANGED <<plan, desired>>
          \/ stage' = "reject" /\ step' = "policy" /\ UNCHANGED <<op, goal, prior, desired>>
      <4>1. op # "release" BY <2>1, <2>4 DEF Shape
      <4> QED BY <1>7, <2>4, <4>1 DEF AfterPolicy
    <3> QED BY <1>0, <2>1, <2>4, <3>1 DEF Shape, Transition, Operations
  <2>5. CASE stage = "undo"
    <3>1. \/ step' = "observe" /\ UNCHANGED <<plan, desired>> /\ op # "release"
          \/ step' = "power" /\ UNCHANGED <<plan, desired>>
          \/ Over
      BY <1>7, <2>5 DEF AfterPolicy, Shape
    <3> QED BY <2>1, <2>5, <3>1, OverShape DEF Shape, Transition
  <2>6. stage # "none" BY <2>1 DEF Shape
  <2> QED BY <1>0, <2>2, <2>3, <2>4, <2>5, <2>6 DEF Stages
<1>8. CASE Power
  <2>1. suspended' = suspended /\ step = "power" BY <1>2, <1>8 DEF Power
  <2>2. step' = FansOf(Target) /\ UNCHANGED <<desired, plan>> BY <1>8 DEF Power
  <2>3. Target' = Target BY <2>2 DEF Target
  <2>4. /\ step' \in {"install", "hold", "drop"}
        /\ step' = "install" => Target.mode = "direct"
        /\ step' = "hold" => Target.mode = "firmware"
        /\ step' = "drop" => Target.mode # "direct"
    BY <2>2 DEF FansOf
  <2> QED BY <2>1, <2>2, <2>3, <2>4 DEF Shape, Transition
<1>9. CASE PowerFails \/ SettleFails
  <2>1. suspended' = suspended /\ step \in {"power", "settle"}
    BY <1>2, <1>9 DEF PowerFails, SettleFails
  <2> QED BY <1>9, <2>1, BrokenShape DEF PowerFails, SettleFails
<1>10. CASE Settle
  <2>1. suspended' = suspended /\ step = "settle" BY <1>2, <1>10 DEF Settle
  <2>2. UNCHANGED plan /\ (\/ op = "release" /\ step' = "save" /\ desired' = desired
                           \/ op # "release" /\ step' = "observe" /\ desired' = desired
                           \/ op # "release" /\ step' = "observe" /\ stage = "try")
    BY <1>10 DEF Settle
  <2> QED BY <1>10, <2>1, <2>2 DEF Shape, Transition
<1>11. CASE Save
  <2>1. suspended' = suspended /\ step = "save" BY <1>2, <1>11 DEF Save
  <2> QED BY <1>11, <2>1, OverShape DEF Save, Shape
<1>12. CASE SaveFails
  <2>1. suspended' = suspended /\ step = "save" BY <1>2, <1>12 DEF SaveFails
  <2>2. CASE op = "release"
    BY <1>12, <2>1, <2>2, BrokenShape DEF SaveFails
  <2>3. CASE op # "release"
    BY <1>12, <2>1, <2>3 DEF SaveFails, Shape, Transition
  <2> QED BY <2>2, <2>3
<1>13. CASE AfterObserve
  <2>1. suspended' = suspended /\ step = "observe" BY <1>1, <1>13 DEF AfterObserve
  <2>2. \/ /\ op \in Applies /\ stage = "try" /\ step' = "save" /\ UNCHANGED <<plan, desired>>
        \/ \E worse : op \in Applies /\ stage = "undo" /\ ApplyFailed(worse)
        \/ op = "teardown" /\ step' = "stop" /\ UNCHANGED <<plan, desired>>
        \/ /\ op = "boot" /\ op' = op /\ goal' = desired /\ prior' = desired /\ stage' = "try"
           /\ step' = "check"
        \/ Over
    BY <1>13 DEF AfterObserve
  <2> QED BY <2>1, <2>2, ApplyFailedShape, OverShape DEF Shape, Transition, Restores, Applies
<1>14. CASE AfterHold \/ AfterUnhold \/ AfterResume
  <2>1. suspended' = suspended /\ step \in {"hold", "unhold", "resume"}
    BY <1>1, <1>14 DEF AfterHold, AfterUnhold, AfterResume
  <2>2. step' \in {"write", "unhold", "sync"} /\ UNCHANGED <<plan, desired>>
    BY <1>14 DEF AfterHold, AfterUnhold, AfterResume
  <2>3. Target' = Target BY <2>2 DEF Target
  <2> QED BY <2>1, <2>2, <2>3 DEF Shape, Transition
<1>15. CASE Write
  <2>1. suspended' = suspended /\ step = "write" BY <1>2, <1>15 DEF Write
  <2>2. step' = "switch" /\ UNCHANGED <<plan, desired>> BY <1>15 DEF Write
  <2>3. Target' = Target BY <2>2 DEF Target
  <2> QED BY <2>1, <2>2, <2>3 DEF Shape, Transition
<1>16. CASE WriteFails
  <2>1. suspended' = suspended /\ step = "write" BY <1>2, <1>16 DEF WriteFails
  <2>2. CASE stage = "safe"
    BY <1>16, <2>1, <2>2, BrokenShape DEF WriteFails
  <2>3. CASE stage # "safe"
    <3>1. step' = "resume" /\ UNCHANGED <<plan, desired>> BY <1>16, <2>3 DEF WriteFails
    <3>2. Target' = Target BY <3>1 DEF Target
    <3> QED BY <2>1, <2>3, <3>1, <3>2 DEF Shape, Transition
  <2> QED BY <2>2, <2>3
<1>17. CASE AfterSwitch
  <2>1. suspended' = suspended /\ step = "switch" BY <1>1, <1>17 DEF AfterSwitch
  <2>2. CASE stage = "safe"
    BY <1>17, <2>1, <2>2, BrokenShape DEF AfterSwitch
  <2>3. CASE stage # "safe"
    <3>1. step' = "sync" /\ UNCHANGED <<plan, desired>> BY <1>17, <2>3 DEF AfterSwitch
    <3>2. Target' = Target BY <3>1 DEF Target
    <3> QED BY <2>1, <2>3, <3>1, <3>2 DEF Shape, Transition
  <2> QED BY <2>2, <2>3
<1>18. CASE AfterSync
  <2>1. suspended' = suspended /\ step = "sync" BY <1>1, <1>18 DEF AfterSync
  <2>2. \/ \E failed : Broken(failed)
        \/ Over
        \/ op # "release" /\ step' = "settle" /\ UNCHANGED <<plan, desired>>
    BY <1>18 DEF AfterSync
  <2> QED BY <2>1, <2>2, BrokenShape, OverShape DEF Shape, Transition
<1>19. CASE AfterInstall \/ AfterAbandon \/ AfterDrop
  <2>1. suspended' = suspended /\ step \in {"install", "abandon", "drop"}
    BY <1>1, <1>19 DEF AfterInstall, AfterAbandon, AfterDrop
  <2>2. \/ \E failed : Broken(failed)
        \/ FansSet
        \/ step = "install" /\ step' = "abandon" /\ UNCHANGED <<plan, desired>>
    BY <1>19, <2>1 DEF AfterInstall, AfterAbandon, AfterDrop, Returns
  <2>3. \/ \E failed : Broken(failed)
        \/ Over
        \/ step' = "settle" /\ ~(op = "release" /\ stage = "undo") /\ UNCHANGED <<plan, desired>>
        \/ step = "install" /\ step' = "abandon" /\ UNCHANGED <<plan, desired>>
    BY <2>2 DEF FansSet
  <2>4. CASE /\ step' \in {"settle", "abandon"} /\ UNCHANGED <<plan, desired>>
             /\ step' = "abandon" => step = "install"
             /\ step' = "settle" => ~(op = "release" /\ stage = "undo")
    <3>1. Target' = Target BY <2>4 DEF Target
    <3> QED BY <1>0, <2>1, <2>4, <3>1 DEF Shape, Transition, Stages
  <2> QED BY <2>1, <2>3, <2>4, BrokenShape, OverShape DEF Shape
<1>20. CASE AfterDisarm
  <2>1. suspended' = suspended /\ step = "disarm" /\ desired' = desired
    BY <1>1, <1>20 DEF AfterDisarm
  <2>2. \/ op \notin Restores /\ step' = "observe" /\ UNCHANGED plan
        \/ op = "teardown" /\ step' = "stop" /\ UNCHANGED plan
        \/ Over
    BY <1>20 DEF AfterDisarm
  <2> QED BY <2>1, <2>2, OverShape DEF Shape, Transition, Restores, Applies
<1>21. CASE Stop \/ Join
  BY <1>21 DEF Stop, Join, Works, Shape, Transition, Restores, Applies
<1> QED
  BY <1>3, <1>4, <1>5, <1>6, <1>7, <1>8, <1>9, <1>10, <1>11, <1>12, <1>13, <1>14, <1>15, <1>16,
     <1>17, <1>18, <1>19, <1>20, <1>21 DEF Continue

(* What the backend does to its call. *)
LEMMA Kinds ==
  ASSUME FanTypeOK, Continue
  PROVE  \/ Send
         \/ (\E called \in Calls : Returns(called)) /\ (Succeeds \/ Fails)
         \/ \E written \in Writes \ {"join"} : Works(written) \/ Breaks(written)
         \/ Stop \/ Join
<1> USE DEF Calls, Writes
<1>1. CASE Check \/ CheckFails \/ Power \/ PowerFails \/ Settle \/ SettleFails \/ Save \/ SaveFails
           \/ Write \/ WriteFails
  BY <1>1 DEF Check, CheckFails, Power, PowerFails, Settle, SettleFails, Save, SaveFails, Write,
     WriteFails
<1>2. CASE AfterPolicy \/ AfterObserve \/ AfterHold \/ AfterUnhold \/ AfterSwitch
  BY <1>2 DEF AfterPolicy, AfterObserve, AfterHold, AfterUnhold, AfterSwitch
<1>3. CASE AfterResume \/ AfterSync \/ AfterInstall \/ AfterAbandon \/ AfterDrop \/ AfterDisarm
  BY <1>3 DEF AfterResume, AfterSync, AfterInstall, AfterAbandon, AfterDrop, AfterDisarm
<1> QED BY <1>1, <1>2, <1>3 DEF Continue

(* How a call ends. *)
LEMMA CallEnds ==
  ASSUME FanTypeOK, Calling, Succeeds \/ Fails
  PROVE  /\ Len(queue) \in Nat
         /\ Answered => queue = <<>> /\ Len(queue) = 0
         /\ Refused => ~waiting /\ Len(queue) = Capacity
<1>1. Len(queue) \in Nat
  BY LenProperties DEF FanTypeOK, OwnerTypeOK
<1> QED BY <1>1, EmptySeq DEF Answered, Refused, Calling

(* The backend's steps keep the account of its call. *)
LEMMA CallingHolds ==
  ASSUME FanTypeOK, Shape, Calling, Begin \/ Continue
  PROVE  Calling'
<1>0. queue \in Seq(Commands) /\ Len(queue) \in Nat
  BY LenProperties DEF FanTypeOK, OwnerTypeOK
<1>1. CASE Begin
  <2>1. op = "idle" /\ step = "none"
    BY <1>1 DEF Begin, Apply, ReleaseFans, Observe, Suspend, Resume, Teardown, Free, Shape
  <2>2. UNCHANGED ownerVars
    BY <1>1 DEF Begin, Apply, ReleaseFans, Observe, Suspend, Resume, Teardown, Start
  <2> QED BY <2>1, <2>2 DEF Calling, ownerVars, channel, thread, Calls
<1>2. CASE Send
  <2>1. CommandOf \in Commands
    BY <1>2, TargetTypes DEF FanTypeOK, Send, Calls, CommandOf, Commands, Command
  <2>2. /\ Len(queue') = Len(queue) + 1 /\ queue'[Len(queue')] = CommandOf /\ queue' # <<>>
    BY <1>0, <1>2, <2>1, AppendProperties, EmptySeq DEF Send
  <2>3. CommandOf' = CommandOf
    BY <1>2 DEF Send, CommandOf, Target, TargetPolicy, plan
  <2>4. /\ UNCHANGED <<answer, stopping, op, step>>
        /\ ~waiting /\ waiting' = TRUE /\ step \in Calls
    BY <1>2 DEF Send, plan, bounds
  <2> QED BY <1>0, <2>2, <2>3, <2>4 DEF Calling, Calls
<1>3. CASE (\E called \in Calls : Returns(called)) /\ (Succeeds \/ Fails)
  <2>1. /\ step \in Calls /\ waiting' = FALSE /\ ~answer'.sent
        /\ UNCHANGED <<queue, stopping>>
    BY <1>3 DEF Returns, NoAnswer
  <2>2. ~stopping
    BY <2>1 DEF Calling, Calls
  <2> QED BY <2>1, <2>2 DEF Calling
<1>4. CASE \E written \in Writes \ {"join"} : Works(written) \/ Breaks(written)
  <2>1. step \in Writes \ {"join"} /\ UNCHANGED <<channel, thread>>
    BY <1>4 DEF Works, Breaks, ownerVars
  <2>2. ~stopping /\ ~waiting
    BY <2>1 DEF Calling, Calls, Writes
  <2> QED BY <2>1, <2>2 DEF Calling, channel
<1>5. CASE Stop \/ Join
  <2>1. step \in {"stop", "join"} /\ UNCHANGED <<queue, waiting, answer, job>>
    BY <1>5 DEF Stop, Join, ownerVars, thread, channel
  <2>2. ~waiting /\ ~answer.sent /\ op = "teardown"
    BY <2>1 DEF Calling, Calls, Shape
  <2>3. op' \in {"teardown", "gone"} /\ step' \in {"join", "none"}
    BY <1>5, <2>2 DEF Stop, Join, Same, To, plan
  <2> QED BY <2>1, <2>2, <2>3 DEF Calling
<1> QED BY <1>1, <1>2, <1>3, <1>4, <1>5, Kinds

-----------------------------------------------------------------------------
(* The owner neither samples nor writes duties, and will not.              *)
Fenced ==
  /\ queue = <<>> /\ at \notin {"enable", "sense", "duty", "auto"}
  /\ held \/ driving = None

(* No step of the owner leaves the fence: ticks are held or there is       *)
(* nothing to tick, and there is no command to take.                       *)
LEMMA FencedStays ==
  ASSUME OwnerTypeOK, OwnerPlace, Fenced, OwnerStep
  PROVE  Fenced'
<1> USE DEF Fenced, controller, snapshot, channel
<1>1. ~TakeCommand
  BY DEF TakeCommand, TakePolicy, TakeInstall, TakeHold, TakeResume, TakeRelease, TakeSnapshot, Take
<1>2. CASE StartTick \/ StopOwner
  BY <1>2 DEF StartTick, StopOwner, TickDue, OwnerPlace
<1>3. CASE ReleaseSkipped
  BY <1>3 DEF ReleaseSkipped, Finish
<1>4. CASE Released \/ ReleaseFails
  BY <1>4 DEF Released, ReleaseFails, GiveBack, GiveBackFails, Finish
<1> QED
  BY <1>1, <1>2, <1>3, <1>4
     DEF OwnerStep, Enabled, EnableFails, Sensed, SensorFails, DutySet, DutyFails, AutoRelease

(* What an answer says is still so when its caller reads it. *)
Releases == {"switch", "abandon", "drop", "disarm"}
Told ==
  answer.sent =>
    /\ step = "policy" => policy = TargetPolicy /\ answer.ok
    /\ step = "hold" => answer.ok /\ Fenced
    /\ step \in Releases => driving = None

(* The step that waits for a command of a kind. *)
LEMMA StepOf ==
  ASSUME step \in Calls
  PROVE  /\ CommandOf.kind = "SetPolicy" => step = "policy" /\ CommandOf.policy = TargetPolicy
         /\ CommandOf.kind = "InstallPrime" => step = "install" /\ CommandOf.policy = TargetPolicy
         /\ CommandOf.kind = "Hold" => step = "hold"
         /\ CommandOf.kind = "Resume" => step \in {"unhold", "resume"}
         /\ CommandOf.kind = "Release" => step \in Releases
         /\ CommandOf.kind = "Snapshot" => step \in {"sync", "observe"}
<1>1. CASE step \in {"policy", "install", "hold"}
  BY <1>1, CommandKinds
<1>2. CASE step \in {"unhold", "resume", "sync", "observe"}
  BY <1>2, CommandKinds
<1>3. CASE step \in {"switch", "abandon", "drop", "disarm"}
  BY <1>3, CommandKinds DEF Releases
<1> QED BY <1>1, <1>2, <1>3 DEF Calls

(* The owner answers truly, and does nothing after that makes it untrue.   *)
LEMMA ToldServed ==
  ASSUME FanTypeOK, OwnerInv, OwnerPlace, Calling, Told, ThreadStep
  PROVE  Told'
<1>1. OwnerStep /\ BackendUnchanged /\ OwnerTypeOK
  BY DEF ThreadStep, FanTypeOK
<1>2. UNCHANGED <<step, TargetPolicy>>
  BY <1>1, CommandStays DEF BackendUnchanged
<1>3. CASE TakeCommand
  <2>1. ASSUME NEW kind, Take(kind)
        PROVE  /\ ~answer.sent
               /\ waiting /\ queue' = <<>> => step \in Calls /\ CommandOf.kind = kind
                                              /\ queue[1] = CommandOf
    <3>1. queue # <<>> /\ queue[1].kind = kind /\ (queue' = <<>> <=> Len(queue) = 1)
      BY <1>1, <2>1, TakeMoves
    <3>2. ~answer.sent
      BY <3>1 DEF Calling
    <3> QED BY <3>1, <3>2 DEF Calling
  <2>2. ASSUME NEW kind, Take(kind), answer' = answer PROVE Told'
    BY <2>1, <2>2 DEF Told
  <2>3. ASSUME NEW kind, Take(kind), Reply(TRUE) \/ Reply(FALSE), ~(waiting /\ queue' = <<>>)
        PROVE  Told'
    BY <2>1, <2>3, ReplyTells DEF Told
  <2>4. CASE TakePolicy
    <3>1. CASE waiting /\ queue' = <<>>
      <4>1. step = "policy" /\ policy' = TargetPolicy
        BY <1>1, <2>1, <2>4, <3>1, StepOf, TakeMoves DEF TakePolicy
      <4>2. answer'.ok = TRUE
        BY <2>4, <3>1, ReplyTells DEF TakePolicy
      <4> QED BY <1>2, <4>1, <4>2 DEF Told, Releases
    <3> QED BY <2>3, <2>4, <3>1 DEF TakePolicy
  <2>5. CASE TakeHold
    <3>1. CASE waiting /\ queue' = <<>>
      <4>1. step = "hold" /\ queue' = <<>>
        BY <2>1, <2>5, <3>1, StepOf DEF TakeHold
      <4>2. answer'.ok = TRUE
        BY <2>5, <3>1, ReplyTells DEF TakeHold
      <4>3. Fenced'
        BY <2>5, <3>1 DEF TakeHold, Take, Idle, Fenced, thread, controller
      <4> QED BY <1>2, <4>1, <4>2, <4>3 DEF Told, Releases
    <3> QED BY <2>3, <2>5, <3>1 DEF TakeHold
  <2>6. CASE TakeResume \/ TakeSnapshot
    <3>1. CASE waiting /\ queue' = <<>>
      <4>1. step \in {"unhold", "resume", "sync", "observe"}
        BY <2>1, <2>6, <3>1, StepOf DEF TakeResume, TakeSnapshot
      <4> QED BY <1>2, <4>1 DEF Told, Releases
    <3>2. CASE ~(waiting /\ queue' = <<>>)
      <4>1. CASE TakeResume
        <5>1. Reply(TRUE) \/ Reply(FALSE)
          BY <1>1, <4>1 DEF TakeResume, OwnerTypeOK
        <5> QED BY <2>3, <3>2, <4>1, <5>1 DEF TakeResume
      <4>2. CASE TakeSnapshot
        BY <2>3, <3>2, <4>2 DEF TakeSnapshot
      <4> QED BY <2>6, <4>1, <4>2
    <3> QED BY <3>1, <3>2
  <2>7. CASE TakeInstall \/ TakeRelease
    BY <2>2, <2>7 DEF TakeInstall, TakeRelease
  <2> QED BY <1>3, <2>4, <2>5, <2>6, <2>7 DEF TakeCommand
<1>4. CASE ~TakeCommand /\ answer.sent
  <2>1. job \in {"none", "tick"} /\ queue = <<>> /\ waiting
    BY <1>4 DEF Calling
  <2>2. answer' = answer
    BY <1>1, <1>4, <2>1, OwnerWorks
  <2>3. policy' = policy
    BY <1>1, <1>4
       DEF OwnerStep, StartTick, StopOwner, Enabled, EnableFails, Sensed, SensorFails, DutySet,
           DutyFails, AutoRelease, OperationFailed, TickFailed, InstallFailed, ReleaseSkipped,
           Released, ReleaseFails, owner
  <2>4. driving = None => driving' = None
    BY <1>1, <1>4, <2>1
       DEF OwnerStep, StartTick, StopOwner, Enabled, EnableFails, Sensed, SensorFails, DutySet,
           DutyFails, AutoRelease, GiveBack, GiveBackFails, ReleaseSkipped, Released,
           ReleaseFails, controller, OwnerInv
  <2>5. Fenced => Fenced'
    BY <1>1, FencedStays
  <2> QED BY <1>2, <1>4, <2>2, <2>3, <2>4, <2>5 DEF Told
<1>5. CASE ~TakeCommand /\ ~answer.sent
  <2>1. CASE answer' = answer
    BY <1>5, <2>1 DEF Told
  <2>2. CASE answer' # answer
    <3>1. job \in {"install", "release"} /\ \E ok : Reply(ok)
      BY <1>1, <1>5, <2>2, OwnerWorks
    <3>2. waiting /\ queue' = <<>> /\ queue' = queue
      BY <1>1, <1>5, <2>2, <3>1, ReplyTells, OwnerWorks
    <3>3. CASE job = "install"
      <4>1. step = "install"
        BY <1>5, <3>2, <3>3, StepOf DEF Calling
      <4> QED BY <1>2, <4>1 DEF Told, Releases
    <3>4. CASE job = "release"
      <4>1. step \in Releases
        BY <1>5, <3>2, <3>4, StepOf DEF Calling
      <4>2. at = "release" \/ at = "enable"
        BY <1>1, <3>4 DEF OwnerPlace, OwnerTypeOK, Places
      <4>3. driving' = None
        BY <1>1, <1>5, <2>2, <3>4, <4>2
           DEF OwnerStep, StartTick, StopOwner, Enabled, EnableFails, Sensed, SensorFails, DutySet,
               DutyFails, AutoRelease, GiveBack, GiveBackFails, ReleaseSkipped, Released,
               ReleaseFails, controller, channel, OwnerInv
      <4> QED BY <1>2, <4>1, <4>3 DEF Told, Releases
    <3> QED BY <3>1, <3>3, <3>4
  <2> QED BY <2>1, <2>2
<1> QED BY <1>3, <1>4, <1>5

(* A step of the backend reads the answer, if there was one. *)
LEMMA NothingTold ==
  ASSUME FanTypeOK, Shape, Calling, Begin \/ Continue
  PROVE  ~answer'.sent
<1>1. CASE Begin
  <2>1. step = "none" /\ answer' = answer
    BY <1>1 DEF Begin, Apply, ReleaseFans, Observe, Suspend, Resume, Teardown, Free, Shape, Start,
       ownerVars, channel
  <2> QED BY <2>1 DEF Calling, Calls
<1>2. CASE Send
  BY <1>2 DEF Send, Calling
<1>3. CASE \E called \in Calls : Returns(called)
  BY <1>3 DEF Returns, NoAnswer
<1>4. CASE Stop \/ Join \/ \E written \in Writes \ {"join"} : Works(written) \/ Breaks(written)
  <2>1. step \in Writes /\ answer' = answer
    BY <1>4 DEF Stop, Join, Works, Breaks, Writes, ownerVars, channel
  <2> QED BY <2>1 DEF Calling, Calls, Writes
<1> QED BY <1>1, <1>2, <1>3, <1>4, Kinds

(* Where the ways an operation ends, or is rolled back, lead. *)
LEMMA OverSteps == Over => step' \in {"observe", "none"}
BY DEF Over

LEMMA ApplyFailedSteps == ASSUME NEW worse, ApplyFailed(worse)
                          PROVE  step' \in {"disarm", "observe", "none"}
BY OverSteps DEF ApplyFailed, To

LEMMA BrokenSteps == ASSUME NEW failed, Broken(failed)
                     PROVE  step' \in {"policy", "observe", "none"}
BY OverSteps DEF Broken, To

(* The firmware's curves are written after a Hold that succeeded, or as    *)
(* the last resort of a release.                                           *)
LEMMA WriteComes ==
  ASSUME FanTypeOK, Shape, Begin \/ Continue, step' = "write"
  PROVE  (AfterHold /\ Succeeds) \/ stage' = "safe"
<1> USE DEF To, Same, plan
<1>1. CASE Begin
  BY <1>1 DEF Begin, Apply, ReleaseFans, Observe, Suspend, Resume, Teardown, Start
<1>2. CASE Send
  BY <1>2 DEF Send, Calls
<1>3. CASE Check \/ CheckFails \/ Power \/ PowerFails \/ Settle \/ SettleFails \/ Save \/ SaveFails
           \/ Write \/ WriteFails
  BY <1>3, OverSteps, ApplyFailedSteps, BrokenSteps
     DEF Check, CheckFails, Power, PowerFails, Settle, SettleFails, Save, SaveFails, Write,
         WriteFails, FansOf
<1>4. CASE AfterPolicy
  <2>1. step = "policy" /\ stage \in Stages /\ stage # "none"
    BY <1>4 DEF AfterPolicy, Returns, FanTypeOK, PlanTypeOK, Shape
  <2>2. CASE stage = "reject"
    <3>1. op \in Applies BY <2>2 DEF Shape
    <3>2. ApplyFailed(degraded) BY <1>4, <2>2, <3>1 DEF AfterPolicy, Applies, Restores
    <3> QED BY <3>2, ApplyFailedSteps
  <2>3. CASE stage = "safe"
    BY <1>4, <2>3, OverSteps DEF AfterPolicy, Shape
  <2>4. CASE stage = "try"
    <3>1. op # "release" BY <2>1, <2>4 DEF Shape
    <3> QED BY <1>4, <2>4, <3>1 DEF AfterPolicy
  <2>5. CASE stage = "undo"
    BY <1>4, <2>5, OverSteps DEF AfterPolicy, Shape
  <2> QED BY <2>1, <2>2, <2>3, <2>4, <2>5 DEF Stages
<1>5. CASE AfterHold
  BY <1>5 DEF AfterHold
<1>6. CASE AfterObserve
  BY <1>6, OverSteps, ApplyFailedSteps DEF AfterObserve
<1>7. CASE AfterUnhold \/ AfterSwitch \/ AfterResume \/ AfterSync
  BY <1>7, OverSteps, BrokenSteps DEF AfterUnhold, AfterSwitch, AfterResume, AfterSync
<1>8. CASE AfterInstall \/ AfterAbandon \/ AfterDrop \/ AfterDisarm
  BY <1>8, OverSteps, BrokenSteps DEF AfterInstall, AfterAbandon, AfterDrop, AfterDisarm, FansSet
<1>9. CASE Stop \/ Join
  BY <1>9 DEF Stop, Join
<1> QED BY <1>1, <1>2, <1>3, <1>4, <1>5, <1>6, <1>7, <1>8, <1>9 DEF Continue

(* The backend touches nothing of the owner but its channel. *)
LEMMA OwnerKept ==
  ASSUME FanTypeOK, Begin \/ Continue
  PROVE  /\ UNCHANGED <<ec, controller, snapshot, owner, thread>>
         /\ Send \/ queue' = queue
         /\ Stop \/ stopping' = stopping
<1>1. CASE Begin
  BY <1>1 DEF Begin, Apply, ReleaseFans, Observe, Suspend, Resume, Teardown, Start, ownerVars,
     hardware, channel
<1>2. CASE Send \/ Stop \/ Join
  BY <1>2 DEF Send, Stop, Join, ownerVars, hardware, channel, bounds
<1>3. CASE (\E called \in Calls : Returns(called)) /\ (Succeeds \/ Fails)
  BY <1>3 DEF Returns, hardware, Succeeds, Fails, Answered, Refused
<1>4. CASE \E written \in Writes \ {"join"} : Works(written) \/ Breaks(written)
  BY <1>4 DEF Works, Breaks, ownerVars, hardware, channel, bounds
<1> QED BY <1>1, <1>2, <1>3, <1>4, Kinds

-----------------------------------------------------------------------------
(* How many commands of given-up calls may be in the channel. A call that  *)
(* is answered found the channel empty behind its command, so whatever     *)
(* was late before, the count starts again at the policy that was set: an  *)
(* apply leaves three before it is rolled back, the rollback three more.   *)
AtMost(n) == Len(queue) <= n + (IF waiting THEN 1 ELSE 0)

Depth ==
  /\ stage = "try" /\ op # "release" =>
       /\ step \in {"power", "install", "hold", "drop"} => AtMost(0)
       /\ step \in {"unhold", "abandon", "settle", "observe"} => AtMost(1)
       /\ step = "sync" => AtMost(IF moved THEN 0 ELSE 2)
       /\ step = "save" => AtMost(2)
  /\ stage = "undo" =>
       /\ step = "policy" /\ op # "release" => AtMost(3)
       /\ step \in {"power", "install", "hold", "drop"} => AtMost(4)
       /\ step = "unhold" => AtMost(5)
  /\ stage # "safe" /\ step \in {"write", "switch", "resume"} => AtMost(0)
  /\ step \in {"unhold", "resume"} => ~moved
  /\ step = "check" => stage # "undo"

(* The owner never lengthens the channel. *)
LEMMA DepthServed ==
  ASSUME FanTypeOK, OwnerPlace, Depth, ThreadStep
  PROVE  Depth'
<1>1. OwnerStep /\ OwnerTypeOK /\ UNCHANGED <<op, stage, step, moved>>
  BY DEF ThreadStep, FanTypeOK, BackendUnchanged, plan
<1>2. waiting' = waiting /\ Len(queue) \in Nat /\ Len(queue') \in Nat
      /\ Len(queue') <= Len(queue)
  <2>1. CASE TakeCommand
    <3>1. PICK kind : Take(kind)
      BY <2>1 DEF TakeCommand, TakePolicy, TakeInstall, TakeHold, TakeResume, TakeRelease,
         TakeSnapshot
    <3> QED BY <1>1, <3>1, TakeMoves
  <2>2. CASE ~TakeCommand
    <3>1. UNCHANGED <<queue, waiting>>
      BY <1>1, <2>2, OwnerWorks
    <3> QED BY <1>1, <3>1, LenProperties DEF OwnerTypeOK
  <2> QED BY <2>1, <2>2
<1>3. \A n \in 0..5 : AtMost(n) => AtMost(n)'
  BY <1>2 DEF AtMost
<1>4. 0 \in 0..5 /\ 1 \in 0..5 /\ 2 \in 0..5 /\ 3 \in 0..5 /\ 4 \in 0..5 /\ 5 \in 0..5
  OBVIOUS
<1> HIDE DEF AtMost
<1>5. AtMost(IF moved THEN 0 ELSE 2) => AtMost(IF moved THEN 0 ELSE 2)'
  BY <1>1, <1>3, <1>4
<1> QED BY <1>1, <1>3, <1>4, <1>5 DEF Depth

LEMMA DepthOver == ASSUME Over PROVE Depth'
BY OverIs DEF Depth, Over

LEMMA DepthApplyFailed == ASSUME NEW worse, ApplyFailed(worse) PROVE Depth'
<1>1. CASE op \in Restores
  BY <1>1 DEF ApplyFailed, To, Depth
<1>2. CASE op \notin Restores
  BY <1>2, DepthOver DEF ApplyFailed
<1> QED BY <1>1, <1>2

LEMMA DepthBroken ==
  ASSUME NEW failed, Broken(failed), ~waiting', Len(queue') \in Nat,
         op \in Applies /\ stage = "try" => Len(queue') <= 3
  PROVE  Depth'
<1> USE DEF To, Stage, Depth, AtMost
<1>1. CASE op \in Applies /\ stage = "try"
  BY <1>1 DEF Broken
<1>2. CASE op \in Applies /\ stage = "undo"
  BY <1>2 DEF Broken
<1>3. CASE op = "release" /\ stage = "try"
  BY <1>3 DEF Broken, Applies, Restores
<1>4. CASE op = "release" /\ stage = "undo"
  BY <1>4 DEF Broken, Applies, Restores
<1>5. CASE /\ ~(op \in Applies /\ stage \in {"try", "undo"})
           /\ ~(op = "release" /\ stage \in {"try", "undo"})
  BY <1>5, DepthOver DEF Broken
<1> QED BY <1>1, <1>2, <1>3, <1>4, <1>5

(* The backend's steps keep the account of the channel. *)
LEMMA DepthSent ==
  ASSUME FanTypeOK, Calling, Shape, Depth, Begin \/ Continue
  PROVE  Depth'
<1> USE DEF To, Same, Stage, plan
<1>0. /\ Len(queue) \in Nat /\ queue \in Seq(Commands) /\ stage \in Stages /\ moved \in BOOLEAN
      /\ op \in Operations
  BY LenProperties DEF FanTypeOK, OwnerTypeOK, PlanTypeOK
<1>1. CASE Begin
  BY <1>1 DEF Begin, Apply, ReleaseFans, Observe, Suspend, Resume, Teardown, Start, Depth
<1>2. CASE Send
  <2>1. CommandOf \in Commands
    BY <1>2, TargetTypes DEF FanTypeOK, Send, Calls, CommandOf, Commands, Command
  <2>2. Len(queue') = Len(queue) + 1
    BY <1>0, <1>2, <2>1, AppendProperties DEF Send
  <2>3. ~waiting /\ waiting' /\ UNCHANGED <<op, stage, step, moved>>
    BY <1>2 DEF Send
  <2> QED BY <1>0, <2>2, <2>3 DEF Depth, AtMost
<1>3. CASE Stop \/ Join
  BY <1>3 DEF Stop, Join, Depth
<1>4. ASSUME NEW called, Returns(called), Succeeds \/ Fails
      PROVE  /\ step = called /\ queue' = queue /\ ~waiting' /\ Len(queue') \in Nat
             /\ Succeeds => Len(queue') = 0
             /\ \A n \in Nat : AtMost(n) => Len(queue') <= n + 1
  BY <1>0, <1>4, CallEnds DEF Returns, Succeeds, AtMost
<1>5. ASSUME NEW written, Works(written) \/ Breaks(written), written \in Writes
      PROVE  /\ step = written /\ queue' = queue /\ ~waiting /\ ~waiting' /\ Len(queue') \in Nat
  BY <1>0, <1>5 DEF Works, Breaks, ownerVars, channel, Calling, Calls, Writes
<1>6. CASE Check
  <2>1. step = "check" /\ UNCHANGED plan /\ step' = "policy"
    BY <1>5, <1>6 DEF Check, Writes
  <2> QED BY <2>1 DEF Depth
<1>7. CASE CheckFails
  BY <1>7, DepthApplyFailed DEF CheckFails
<1>8. CASE AfterPolicy
  <2>1. /\ step = "policy" /\ queue' = queue /\ ~waiting' /\ Len(queue') \in Nat
        /\ Succeeds => Len(queue') = 0
        /\ \A n \in Nat : AtMost(n) => Len(queue') <= n + 1
    BY <1>4, <1>8 DEF AfterPolicy
  <2>2. CASE stage = "reject"
    <3>1. op \in Applies BY <2>2 DEF Shape
    <3>2. ApplyFailed(degraded) BY <1>8, <2>2, <3>1 DEF AfterPolicy, Applies, Restores
    <3> QED BY <3>2, DepthApplyFailed
  <2>3. CASE stage = "safe"
    <3>1. CASE Over
      BY <3>1, DepthOver
    <3>2. CASE step' = "write" /\ UNCHANGED plan
      BY <2>3, <3>2 DEF Depth
    <3> QED BY <1>8, <2>3, <3>1, <3>2 DEF AfterPolicy, Shape
  <2>4. CASE stage = "try"
    <3>1. op # "release" BY <2>1, <2>4 DEF Shape
    <3>2. CASE Succeeds /\ step' = "power" /\ UNCHANGED plan
      BY <2>1, <2>4, <3>2 DEF Depth, AtMost
    <3>3. CASE step' = "policy" /\ stage' = "reject"
      BY <3>3 DEF Depth
    <3> QED BY <1>8, <2>4, <3>1, <3>2, <3>3 DEF AfterPolicy
  <2>5. CASE stage = "undo"
    <3>1. CASE Over
      BY <3>1, DepthOver
    <3>2. CASE step' = "observe" /\ UNCHANGED plan
      BY <2>5, <3>2 DEF Depth
    <3>3. CASE (Succeeds \/ op # "release") /\ step' = "power" /\ UNCHANGED plan
      <4>1. Len(queue') <= 4
        BY <2>1, <2>5, <3>3 DEF Depth
      <4> QED BY <2>1, <2>5, <3>3, <4>1 DEF Depth, AtMost
    <3> QED BY <1>8, <2>5, <3>1, <3>2, <3>3 DEF AfterPolicy
  <2>6. stage # "none" BY <2>1 DEF Shape
  <2> QED BY <1>0, <2>2, <2>3, <2>4, <2>5, <2>6 DEF Stages
<1>9. CASE Power
  <2>1. /\ step = "power" /\ queue' = queue /\ ~waiting /\ ~waiting' /\ UNCHANGED plan
        /\ step' \in {"install", "hold", "drop"}
    BY <1>5, <1>9 DEF Power, FansOf, Writes
  <2> QED BY <1>0, <2>1 DEF Depth, AtMost
<1>10. CASE PowerFails
  <2>1. step = "power" /\ queue' = queue /\ ~waiting /\ ~waiting' /\ Broken(noted)
    BY <1>5, <1>10 DEF PowerFails, Writes
  <2>2. op \in Applies /\ stage = "try" => Len(queue') <= 3
    BY <1>0, <2>1 DEF Depth, AtMost, Applies, Restores
  <2> QED BY <1>0, <2>1, <2>2, DepthBroken
<1>11. CASE Settle
  <2>1. step = "settle" /\ queue' = queue /\ ~waiting /\ ~waiting'
    BY <1>5, <1>11 DEF Settle, Writes
  <2>2. UNCHANGED plan /\ step' = (IF op = "release" THEN "save" ELSE "observe")
    BY <1>11 DEF Settle
  <2> QED BY <1>0, <2>1, <2>2 DEF Depth, AtMost
<1>12. CASE SettleFails
  <2>1. step = "settle" /\ queue' = queue /\ ~waiting /\ ~waiting' /\ Broken(noted)
    BY <1>5, <1>12 DEF SettleFails, Writes
  <2>2. op \in Applies /\ stage = "try" => Len(queue') <= 3
    BY <1>0, <2>1 DEF Depth, AtMost, Applies, Restores
  <2> QED BY <1>0, <2>1, <2>2, DepthBroken
<1>13. CASE Save
  BY <1>13, DepthOver DEF Save
<1>14. CASE SaveFails
  <2>1. step = "save" /\ stage = "try" /\ queue' = queue /\ ~waiting /\ ~waiting'
    BY <1>5, <1>14 DEF SaveFails, Writes, Shape
  <2>2. CASE op = "release"
    BY <1>0, <1>14, <2>1, <2>2, DepthBroken DEF SaveFails, Applies, Restores
  <2>3. CASE op # "release"
    <3>1. stage' = "undo" /\ step' = "policy"
      BY <1>14, <2>3 DEF SaveFails
    <3> QED BY <1>0, <2>1, <2>3, <3>1 DEF Depth, AtMost
  <2> QED BY <2>2, <2>3
<1>15. CASE AfterObserve
  <2>1. /\ step = "observe" /\ queue' = queue /\ ~waiting' /\ Len(queue') \in Nat
        /\ \A n \in Nat : AtMost(n) => Len(queue') <= n + 1
    BY <1>4, <1>15 DEF AfterObserve
  <2>2. CASE op \in Applies /\ stage = "try" /\ step' = "save" /\ UNCHANGED plan
    <3>1. Len(queue') <= 2
      BY <2>1, <2>2 DEF Depth, Applies, Restores
    <3> QED BY <2>1, <2>2, <3>1 DEF Depth, AtMost
  <2>3. CASE \E worse : ApplyFailed(worse)
    BY <2>3, DepthApplyFailed
  <2>4. CASE step' = "stop" \/ (step' = "check" /\ stage' = "try")
    BY <2>4 DEF Depth
  <2>5. CASE Over
    BY <2>5, DepthOver
  <2> QED BY <1>15, <2>2, <2>3, <2>4, <2>5 DEF AfterObserve
<1>16. CASE AfterHold
  <2>1. /\ step = "hold" /\ queue' = queue /\ ~waiting' /\ Len(queue') \in Nat /\ UNCHANGED plan
        /\ Succeeds => Len(queue') = 0
        /\ \A n \in Nat : AtMost(n) => Len(queue') <= n + 1
    BY <1>4, <1>16 DEF AfterHold
  <2>2. /\ stage = "try" /\ op # "release" => Len(queue') <= 1
        /\ stage = "undo" => Len(queue') <= 5
    BY <2>1 DEF Depth
  <2>3. (Succeeds /\ step' = "write") \/ (step' = "unhold" /\ ~moved')
    BY <1>16 DEF AfterHold
  <2> QED BY <2>1, <2>2, <2>3 DEF Depth, AtMost
<1>17. CASE AfterUnhold
  <2>1. /\ step = "unhold" /\ ~waiting' /\ Len(queue') \in Nat /\ UNCHANGED plan
        /\ \A n \in Nat : AtMost(n) => Len(queue') <= n + 1
        /\ step' = "sync" /\ moved' = moved
    BY <1>4, <1>17 DEF AfterUnhold
  <2>2. stage = "try" /\ op # "release" => Len(queue') <= 2
    BY <2>1 DEF Depth
  <2>3. ~moved
    BY <2>1 DEF Depth
  <2> QED BY <2>1, <2>2, <2>3 DEF Depth, AtMost
<1>18. CASE Write \/ WriteFails
  <2>1. step = "write" /\ queue' = queue /\ ~waiting /\ ~waiting'
    BY <1>5, <1>18 DEF Write, WriteFails, Writes
  <2>2. CASE stage = "safe" /\ WriteFails
    <3>1. op = "release"
      BY <2>2 DEF Shape
    <3> QED BY <1>0, <2>1, <2>2, <3>1, DepthBroken DEF WriteFails, Applies, Restores
  <2>3. CASE UNCHANGED plan /\ (step' = "switch" \/ (stage # "safe" /\ step' = "resume" /\ ~moved'))
    BY <1>0, <2>1, <2>3 DEF Depth, AtMost
  <2> QED BY <1>18, <2>2, <2>3 DEF Write, WriteFails
<1>19. CASE AfterSwitch
  <2>1. /\ step = "switch" /\ ~waiting' /\ Len(queue') \in Nat /\ (Succeeds \/ Fails)
        /\ Succeeds => Len(queue') = 0
        /\ \A n \in Nat : AtMost(n) => Len(queue') <= n + 1
    BY <1>4, <1>19 DEF AfterSwitch
  <2>2. CASE stage = "safe"
    <3>1. op = "release"
      BY <2>2 DEF Shape
    <3> QED BY <1>19, <2>1, <2>2, <3>1, DepthBroken DEF AfterSwitch, Applies, Restores
  <2>3. CASE stage # "safe"
    <3>1. Len(queue') <= 1
      BY <2>1, <2>3 DEF Depth
    <3>2. UNCHANGED plan /\ step' = "sync" /\ (moved' => Succeeds)
      BY <1>19, <2>3 DEF AfterSwitch
    <3> QED BY <2>1, <3>1, <3>2 DEF Depth, AtMost
  <2> QED BY <2>2, <2>3
<1>20. CASE AfterResume
  <2>1. /\ step = "resume" /\ ~waiting' /\ Len(queue') \in Nat /\ UNCHANGED plan
        /\ \A n \in Nat : AtMost(n) => Len(queue') <= n + 1
        /\ step' = "sync" /\ moved' = moved
    BY <1>4, <1>20 DEF AfterResume
  <2>2. ~moved /\ (stage = "try" => Len(queue') <= 1)
    BY <2>1 DEF Depth
  <2> QED BY <2>1, <2>2 DEF Depth, AtMost
<1>21. CASE AfterSync
  <2>1. /\ step = "sync" /\ ~waiting' /\ Len(queue') \in Nat
        /\ \A n \in Nat : AtMost(n) => Len(queue') <= n + 1
    BY <1>4, <1>21 DEF AfterSync
  <2>2. CASE Over
    BY <2>2, DepthOver
  <2>3. CASE ~moved /\ \E failed : Broken(failed)
    <3>1. op \in Applies /\ stage = "try" => Len(queue') <= 3
      BY <2>1, <2>3 DEF Depth, Applies, Restores
    <3> QED BY <2>1, <2>3, <3>1, DepthBroken
  <2>4. CASE moved /\ op # "release" /\ step' = "settle" /\ UNCHANGED plan
    <3>1. stage = "try" => Len(queue') <= 1
      BY <2>1, <2>4 DEF Depth
    <3> QED BY <2>1, <2>4, <3>1 DEF Depth, AtMost
  <2> QED BY <1>21, <2>2, <2>3, <2>4 DEF AfterSync
<1>22. CASE AfterInstall \/ AfterAbandon \/ AfterDrop
  <2>1. /\ step \in {"install", "abandon", "drop"} /\ ~waiting' /\ Len(queue') \in Nat
        /\ \A n \in Nat : AtMost(n) => Len(queue') <= n + 1
    BY <1>4, <1>22 DEF AfterInstall, AfterAbandon, AfterDrop
  <2>2. /\ stage = "try" /\ op # "release" => Len(queue') <= 2
        /\ stage = "try" /\ op # "release" /\ step # "abandon" => Len(queue') <= 1
    BY <2>1 DEF Depth
  <2>3. CASE \E failed : Broken(failed)
    <3>1. op \in Applies /\ stage = "try" => Len(queue') <= 3
      BY <2>1, <2>2 DEF Applies, Restores
    <3> QED BY <2>1, <2>3, <3>1, DepthBroken
  <2>4. CASE Over
    BY <2>4, DepthOver
  <2>5. CASE step # "abandon" /\ step' \in {"settle", "abandon"} /\ UNCHANGED plan
    BY <2>1, <2>2, <2>5 DEF Depth, AtMost
  <2>6. AfterAbandon => \E failed : Broken(failed)
    BY DEF AfterAbandon
  <2>7. AfterInstall \/ AfterDrop => step # "abandon"
    BY DEF AfterInstall, AfterDrop, Returns
  <2>8. AfterInstall \/ AfterDrop =>
          \/ \E failed : Broken(failed)
          \/ FansSet
          \/ step' = "abandon" /\ UNCHANGED plan
    BY DEF AfterInstall, AfterDrop
  <2>9. FansSet => Over \/ (step' = "settle" /\ UNCHANGED plan)
    BY DEF FansSet
  <2> QED BY <1>22, <2>3, <2>4, <2>5, <2>6, <2>7, <2>8, <2>9
<1>23. CASE AfterDisarm
  <2>1. CASE Over
    BY <2>1, DepthOver
  <2>2. CASE step' \in {"stop", "observe"} /\ UNCHANGED plan /\ op \notin Restores
    <3>1. step = "disarm"
      BY <1>23 DEF AfterDisarm, Returns
    <3>2. stage # "try"
      BY <2>2, <3>1 DEF Shape, Applies, Restores
    <3> QED BY <2>2, <3>2 DEF Depth
  <2> QED BY <1>23, <2>1, <2>2 DEF AfterDisarm, Restores
<1> QED
  BY <1>1, <1>2, <1>3, <1>6, <1>7, <1>8, <1>9, <1>10, <1>11, <1>12, <1>13, <1>14, <1>15, <1>16,
     <1>17, <1>18, <1>19, <1>20, <1>21, <1>22, <1>23 DEF Continue

(* The plan of the operation and its call with the owner. *)
CallInv ==
  OwnerInv /\ OwnerPlace /\ Calling /\ Shape /\ Depth /\ Told /\ FirmwareWriteIsFenced

LEMMA CallInvHolds == FanTypeOK /\ CallInv /\ [FanNext]_vars => CallInv'
<1> SUFFICES ASSUME FanTypeOK, CallInv, [FanNext]_vars PROVE CallInv'
  OBVIOUS
<1>1. FanTypeOK /\ OwnerTypeOK /\ OwnerInv /\ OwnerPlace /\ Calling /\ Shape /\ Depth /\ Told
  BY DEF CallInv, FanTypeOK
<1>2. CASE ThreadStep
  <2>1. OwnerStep /\ BackendUnchanged
    BY <1>2 DEF ThreadStep
  <2>2. OwnerInv' /\ OwnerPlace'
    BY <1>1, <2>1, OwnerInvHolds, OwnerPlaceHolds
  <2>3. Calling' /\ Depth' /\ Told'
    BY <1>1, <1>2, CallingServed, DepthServed, ToldServed
  <2>4. Shape'
    BY <1>1, <2>1, CommandStays DEF Shape, BackendUnchanged, persisted, plan
  <2>5. FirmwareWriteIsFenced'
    <3>1. (step' = "write" /\ stage' # "safe") => Fenced
      BY <2>1 DEF CallInv, FirmwareWriteIsFenced, Fenced, BackendUnchanged, plan
    <3> QED BY <1>1, <2>1, <3>1, FencedStays DEF FirmwareWriteIsFenced, Fenced
  <2> QED BY <2>2, <2>3, <2>4, <2>5 DEF CallInv
<1>3. CASE Begin \/ Continue
  <2>1. UNCHANGED <<ec, controller, snapshot, owner, thread>> /\ (stopping => stopping')
    <3>1. stopping' = stopping \/ stopping' = TRUE
      BY <1>1, <1>3, OwnerKept DEF Stop
    <3> QED BY <1>1, <1>3, <3>1, OwnerKept
  <2>2. OwnerInv'
    BY <1>1, <2>1 DEF OwnerInv, controller, snapshot, owner, thread
  <2>3. OwnerPlace'
    BY <1>1, <2>1 DEF OwnerPlace, controller, snapshot, owner, thread
  <2>4. Calling' /\ Shape' /\ Depth'
    BY <1>1, <1>3, CallingHolds, ShapeHolds, DepthSent
  <2>5. Told'
    BY <1>1, <1>3, NothingTold DEF Told
  <2>6. ASSUME step' = "write", stage' # "safe" PROVE Fenced'
    <3>1. AfterHold /\ Succeeds
      BY <1>1, <1>3, <2>6, WriteComes
    <3>2. Fenced
      BY <1>1, <3>1 DEF AfterHold, Returns, Succeeds, Answered, Told
    <3>3. queue' = queue
      BY <3>1 DEF AfterHold, Returns
    <3> QED BY <2>1, <3>2, <3>3 DEF Fenced, controller, snapshot, thread
  <2>7. FirmwareWriteIsFenced'
    BY <2>6 DEF FirmwareWriteIsFenced, Fenced
  <2> QED BY <2>2, <2>3, <2>4, <2>5, <2>7 DEF CallInv
<1>4. CASE UNCHANGED vars
  <2> USE <1>4 DEF vars, ownerVars, hardware, controller, snapshot, owner, thread, channel,
                   persisted, plan, bounds
  <2>1. OwnerInv' /\ OwnerPlace'
    BY <1>1 DEF OwnerInv, OwnerPlace
  <2>2. CommandOf' = CommandOf /\ TargetPolicy' = TargetPolicy /\ Target' = Target
    BY DEF CommandOf, TargetPolicy, Target
  <2>3. Calling' /\ Shape' /\ Depth' /\ Told' /\ FirmwareWriteIsFenced'
    BY <1>1, <2>2 DEF CallInv, Calling, Shape, Depth, AtMost, Told, Fenced, FirmwareWriteIsFenced
  <2> QED BY <2>1, <2>3 DEF CallInv
<1> QED BY <1>2, <1>3, <1>4 DEF FanNext

LEMMA CallInvStarts == FanInit => CallInv
<1> SUFFICES ASSUME FanInit PROVE CallInv
  OBVIOUS
<1>1. OwnerInv /\ OwnerPlace
  BY DEF FanInit, OwnerInit, OwnerInv, OwnerPlace
<1>2. Calling /\ Told /\ FirmwareWriteIsFenced
  BY EmptySeq DEF FanInit, OwnerInit, Calling, Told, NoAnswer, FirmwareWriteIsFenced
<1>3. Shape /\ Depth
  BY DEF FanInit, Shape, Depth, Transition
<1> QED BY <1>1, <1>2, <1>3 DEF CallInv

(* firmware_transition: while it writes the firmware's curves the owner    *)
(* takes no sample and writes no duty, and nothing in its channel makes    *)
(* it: not the tick it was in, and no command of a call that was given up  *)
(* before. The firmware's curves that a release of the fans writes to be   *)
(* safe, when it could not be undone, are not written behind a hold, and   *)
(* are left out (stage "safe").                                            *)
THEOREM FirmwareWritesAreFenced == FanSpec => []FirmwareWriteIsFenced
<1>1. CallInv => FirmwareWriteIsFenced
  BY DEF CallInv
<1> QED BY <1>1, CallInvStarts, CallInvHolds, FanTypesCorrect, PTL DEF FanSpec

-----------------------------------------------------------------------------
(* A hold of the ticks is lifted. The channel has room for whatever an     *)
(* apply and its rollback leave in it (Depth), so a failed transition      *)
(* always gets its Resume or its Release into the channel, behind the Hold *)
(* it may have left there. COMMAND_CAPACITY is 8; with a channel of 5 the  *)
(* Resume of a rollback can be refused, and both theorems below are false. *)
Room == Capacity >= 6

Lifting ==
  \/ pending \/ job \in {"install", "release", "final"} \/ stopping
  \/ \E i \in 1..Len(queue) : Lifts(queue[i])

(* The transition that asked for the hold has yet to send what lifts it. *)
Owing ==
  \/ step = "hold" /\ waiting
  \/ step = "write" /\ stage # "safe"
  \/ step \in {"unhold", "switch", "resume"} /\ ~waiting /\ stage # "safe"

HoldsAreFollowed ==
  \A i \in 1..Len(queue) :
    queue[i].kind = "Hold" =>
      \/ (step = "hold" /\ waiting) \/ (step = "unhold" /\ ~waiting)
      \/ \E j \in 1..Len(queue) : i < j /\ Lifts(queue[j])

Holds == (held => Owing \/ Lifting) /\ HoldsAreFollowed

LEMMA TakeLeavesHolds ==
  ASSUME OwnerTypeOK, BackendUnchanged, HoldsAreFollowed, NEW kind, Take(kind)
  PROVE  HoldsAreFollowed'
<1>1. /\ Len(queue') = Len(queue) - 1 /\ Len(queue) \in Nat /\ Len(queue') \in Nat
      /\ \A i \in 1..Len(queue') : queue'[i] = queue[i + 1]
      /\ waiting' = waiting /\ step' = step
  BY TakeMoves DEF BackendUnchanged
<1> SUFFICES ASSUME NEW i \in 1..Len(queue'), queue'[i].kind = "Hold",
                    ~(step = "hold" /\ waiting), ~(step = "unhold" /\ ~waiting)
             PROVE  \E j \in 1..Len(queue') : i < j /\ Lifts(queue'[j])
  BY <1>1 DEF HoldsAreFollowed
<1>2. i + 1 \in 1..Len(queue) /\ queue[i + 1].kind = "Hold"
  BY <1>1
<1>3. PICK j \in 1..Len(queue) : i + 1 < j /\ Lifts(queue[j])
  BY <1>2 DEF HoldsAreFollowed
<1>4. j - 1 \in 1..Len(queue') /\ i < j - 1 /\ queue'[j - 1] = queue[j]
  BY <1>1, <1>3
<1> QED BY <1>3, <1>4

LEMMA TakeLeavesLifting ==
  ASSUME OwnerTypeOK, NEW kind, Take(kind), kind \notin {"Resume", "Release", "InstallPrime"},
         Lifting, UNCHANGED <<pending, job>>
  PROVE  Lifting'
<1>1. /\ Len(queue') = Len(queue) - 1 /\ Len(queue) \in Nat /\ Len(queue') \in Nat
      /\ \A i \in 1..Len(queue') : queue'[i] = queue[i + 1]
      /\ queue[1].kind = kind /\ stopping' = stopping
  BY TakeMoves
<1>2. CASE pending \/ job \in {"install", "release", "final"} \/ stopping
  BY <1>1, <1>2 DEF Lifting
<1>3. CASE \E i \in 1..Len(queue) : Lifts(queue[i])
  <2>1. PICK i \in 1..Len(queue) : Lifts(queue[i])
    BY <1>3
  <2>2. i # 1
    BY <1>1, <2>1 DEF Lifts
  <2>3. i - 1 \in 1..Len(queue') /\ queue'[i - 1] = queue[i]
    BY <1>1, <2>2
  <2> QED BY <2>1, <2>3 DEF Lifting
<1> QED BY <1>2, <1>3 DEF Lifting

LEMMA HoldsServed ==
  ASSUME FanTypeOK, CallInv, Holds, ThreadStep
  PROVE  Holds'
<1>1. OwnerStep /\ BackendUnchanged /\ OwnerTypeOK /\ OwnerInv /\ OwnerPlace /\ Shape
  BY DEF ThreadStep, FanTypeOK, CallInv
<1>2. UNCHANGED <<step, stage>>
  BY <1>1 DEF BackendUnchanged, plan
<1> SUFFICES ASSUME held => Owing \/ Lifting, HoldsAreFollowed
             PROVE  (held' => Owing' \/ Lifting') /\ HoldsAreFollowed'
  BY DEF Holds
<1>3. CASE TakeCommand
  <2>1. ASSUME NEW kind, Take(kind)
        PROVE  HoldsAreFollowed' /\ (Owing' <=> Owing)
    <3>1. waiting' = waiting
      BY <1>1, <2>1, TakeMoves
    <3> QED BY <1>1, <1>2, <2>1, <3>1, TakeLeavesHolds DEF Owing
  <2>2. CASE TakePolicy \/ TakeSnapshot
    <3>1. PICK kind \in {"SetPolicy", "Snapshot"} : Take(kind)
      BY <2>2 DEF TakePolicy, TakeSnapshot
    <3>2. UNCHANGED <<held, pending, job>>
      BY <2>2 DEF TakePolicy, TakeSnapshot, snapshot, owner, thread
    <3> QED BY <1>1, <2>1, <3>1, <3>2, TakeLeavesLifting
  <2>3. CASE TakeHold
    <3>1. Take("Hold") /\ UNCHANGED <<pending, job>>
      BY <2>3 DEF TakeHold, owner, thread
    <3>2. /\ Len(queue') = Len(queue) - 1 /\ Len(queue) \in Nat /\ Len(queue') \in Nat
          /\ \A i \in 1..Len(queue') : queue'[i] = queue[i + 1]
          /\ queue[1].kind = "Hold" /\ (queue' = <<>> <=> Len(queue) = 1)
          /\ queue # <<>>
      BY <1>1, <3>1, TakeMoves
    <3>3. 1 \in 1..Len(queue)
      BY <1>1, <3>2, EmptySeq DEF OwnerTypeOK
    <3>4. CASE (step = "hold" /\ waiting) \/ (step = "unhold" /\ ~waiting)
      <4>1. Owing
        BY <1>1, <3>4 DEF Owing, Shape
      <4> QED BY <2>1, <3>1, <4>1
    <3>5. CASE \E j \in 1..Len(queue) : 1 < j /\ Lifts(queue[j])
      <4>1. PICK j \in 1..Len(queue) : 1 < j /\ Lifts(queue[j])
        BY <3>5
      <4>2. j - 1 \in 1..Len(queue') /\ queue'[j - 1] = queue[j]
        BY <3>2, <4>1
      <4>3. Lifting'
        BY <4>1, <4>2 DEF Lifting
      <4> QED BY <2>1, <3>1, <4>3
    <3> QED BY <3>2, <3>3, <3>4, <3>5 DEF HoldsAreFollowed
  <2>4. CASE TakeResume
    <3>1. held' => pending'
      BY <2>4 DEF TakeResume, owner
    <3> QED BY <2>1, <2>4, <3>1 DEF TakeResume, Lifting
  <2>5. CASE TakeInstall \/ TakeRelease
    <3>1. job' \in {"install", "release"}
      BY <2>5 DEF TakeInstall, TakeRelease
    <3> QED BY <2>1, <2>5, <3>1 DEF TakeInstall, TakeRelease, Lifting
  <2> QED BY <1>3, <2>2, <2>3, <2>4, <2>5 DEF TakeCommand
<1>4. CASE ~TakeCommand
  <2>1. UNCHANGED <<queue, waiting, stopping>>
    BY <1>1, <1>4, OwnerWorks
  <2>2. HoldsAreFollowed' /\ (Owing' <=> Owing)
    BY <1>2, <2>1 DEF HoldsAreFollowed, Owing
  <2>3. held' => held /\ (Lifting => pending' \/ job' \in {"install", "release", "final"}
                                      \/ stopping' \/ \E i \in 1..Len(queue') : Lifts(queue'[i]))
    <3> DEFINE Comes == \E i \in 1..Len(queue) : Lifts(queue[i])
    <3>0. (\E i \in 1..Len(queue') : Lifts(queue'[i])) <=> Comes
      BY <2>1
    <3>1. Lifting => pending \/ job \in {"install", "release", "final"} \/ stopping \/ Comes
      BY DEF Lifting
    <3> HIDE DEF Comes
    <3> SUFFICES held' => held /\ (pending \/ job \in {"install", "release", "final"} =>
                            pending' \/ job' \in {"install", "release", "final"})
      BY <2>1, <3>0, <3>1
    <3> USE DEF OwnerPlace, OwnerInv, OwnerTypeOK, hardware, controller, snapshot, owner, thread
    <3>2. CASE StartTick \/ StopOwner
      <4>1. at = "loop" /\ UNCHANGED <<held, pending>>
        BY <3>2 DEF StartTick, Idle, StopOwner
      <4> QED BY <1>1, <4>1
    <3>9. CASE Sensed \/ SensorFails
      <4>1. UNCHANGED <<held, pending, job>>
        BY <3>9 DEF Sensed, SensorFails
      <4> QED BY <4>1
    <3>3. CASE Enabled \/ EnableFails
      BY <1>1, <3>3 DEF Enabled, EnableFails
    <3>4. CASE DutySet
      BY <1>1, <3>4 DEF DutySet
    <3>5. CASE DutyFails
      BY <1>1, <3>5 DEF DutyFails, OperationFailed, TickFailed, InstallFailed
    <3>6. CASE AutoRelease
      BY <1>1, <3>6 DEF AutoRelease, OperationFailed, TickFailed, InstallFailed
    <3>7. CASE ReleaseSkipped
      BY <1>1, <3>7 DEF ReleaseSkipped
    <3>8. CASE Released \/ ReleaseFails
      BY <1>1, <3>8 DEF Released, ReleaseFails
    <3> QED BY <1>1, <1>4, <3>2, <3>3, <3>4, <3>5, <3>6, <3>7, <3>8, <3>9 DEF OwnerStep
  <2> QED BY <2>2, <2>3 DEF Lifting
<1> QED BY <1>3, <1>4

(* What the backend has yet to send, it sends.                             *)
LEMMA OwedIsSent ==
  ASSUME Room, FanTypeOK, CallInv, Continue \/ Begin, ~Send,
         Owing \/ (step = "hold" /\ waiting) \/ (step = "unhold" /\ ~waiting)
  PROVE  /\ Owing'
         /\ step = "hold" => waiting /\ (queue = <<>> \/ (step' = "unhold" /\ ~waiting'))
         /\ step # "unhold"
<1>1. Calling /\ Shape /\ Depth /\ Told
  BY DEF CallInv
<1>2. step \in {"hold", "write", "unhold", "switch", "resume"} /\ stage # "safe"
  BY <1>1 DEF Owing, Shape
<1>3. AfterHold \/ Write \/ WriteFails \/ AfterUnhold \/ AfterSwitch \/ AfterResume
  BY <1>1, <1>2 DEF Continue, Begin, Apply, ReleaseFans, Observe, Suspend, Resume, Teardown, Free,
     Shape, Check, CheckFails, AfterPolicy, Power, PowerFails, Settle, SettleFails, Save, SaveFails,
     AfterObserve, AfterSync, AfterInstall, AfterAbandon, AfterDrop, AfterDisarm, Stop, Join,
     Returns, Works, Breaks
<1>4. CASE AfterHold
  <2>1. step = "hold" /\ waiting /\ waiting' = FALSE /\ stage' = stage
    BY <1>4 DEF AfterHold, Returns, Owing, plan
  <2>2. \/ step' = "write" /\ queue = <<>>
        \/ step' = "unhold"
    BY <1>1, <1>4 DEF AfterHold, Succeeds, Answered, Calling, To
  <2> QED BY <1>2, <2>1, <2>2 DEF Owing
<1>5. CASE Write \/ WriteFails
  <2>1. step = "write" /\ ~waiting /\ waiting' = waiting
    BY <1>1, <1>5 DEF Write, WriteFails, Works, Breaks, Calling, Calls, ownerVars, channel
  <2>2. stage' = stage /\ step' \in {"switch", "resume"}
    BY <1>2, <1>5 DEF Write, WriteFails, To, Same, plan
  <2> QED BY <1>2, <2>1, <2>2 DEF Owing
<1>6. CASE AfterUnhold \/ AfterSwitch \/ AfterResume
  <2>1. ~waiting /\ (Succeeds \/ Fails)
    BY <1>2, <1>6 DEF AfterUnhold, AfterSwitch, AfterResume, Returns, Owing
  <2>2. Refused
    BY <2>1 DEF Succeeds, Fails, Answered, TimedOut
  <2>3. Len(queue) \in Nat /\ ~waiting /\ Len(queue) = Capacity
    BY <1>1, <2>1, <2>2, CallEnds
  <2>4. AtMost(1) \/ AtMost(5) \/ AtMost(0)
    <3>1. CASE step = "unhold"
      <4>1. stage \in {"try", "undo"} /\ (stage = "try" => op # "release")
        BY <1>1, <1>2, <3>1 DEF FanTypeOK, PlanTypeOK, Stages, Shape, Transition, Target, NoRequest
      <4> QED BY <1>1, <3>1, <4>1 DEF Depth
    <3>2. CASE step \in {"switch", "resume"}
      BY <1>1, <1>2, <3>2 DEF Depth
    <3>3. step \in {"unhold", "switch", "resume"}
      BY <1>6 DEF AfterUnhold, AfterSwitch, AfterResume, Returns
    <3> QED BY <3>1, <3>2, <3>3
  <2> QED BY <2>3, <2>4, OwnerAssumption DEF Room, AtMost
<1> QED BY <1>3, <1>4, <1>5, <1>6

LEMMA HoldsSent ==
  ASSUME Room, FanTypeOK, CallInv, Holds, Begin \/ Continue
  PROVE  Holds'
<1>1. Calling /\ Shape /\ OwnerTypeOK /\ queue \in Seq(Commands) /\ Len(queue) \in Nat
  BY LenProperties DEF CallInv, FanTypeOK, OwnerTypeOK
<1>2. /\ UNCHANGED <<held, pending, job>> /\ (stopping => stopping')
      /\ Send \/ queue' = queue
  <2>1. stopping' = stopping \/ stopping' = TRUE
    BY OwnerKept DEF Stop
  <2> QED BY <2>1, OwnerKept DEF snapshot, owner, thread
<1> SUFFICES ASSUME held => Owing \/ Lifting, HoldsAreFollowed
             PROVE  (held => Owing' \/ Lifting') /\ HoldsAreFollowed'
  BY <1>2 DEF Holds
<1>5. CASE Send
  <2>1. CommandOf \in Commands
    BY <1>5, TargetTypes DEF FanTypeOK, Send, Calls, CommandOf, Commands, Command
  <2>2. /\ Len(queue') = Len(queue) + 1 /\ queue'[Len(queue')] = CommandOf
        /\ \A i \in 1..Len(queue) : queue'[i] = queue[i]
    BY <1>1, <1>5, <2>1, AppendProperties DEF Send
  <2>3. /\ step \in Calls /\ ~waiting /\ waiting' = TRUE /\ UNCHANGED <<step, stage, stopping>>
    BY <1>5 DEF Send, plan
  <2>4. (\E i \in 1..Len(queue) : Lifts(queue[i])) => \E i \in 1..Len(queue') : Lifts(queue'[i])
    BY <1>1, <2>2
  <2>5. Lifting => Lifting'
    BY <1>2, <2>3, <2>4 DEF Lifting
  <2>6. step \in {"unhold", "switch", "resume"} => Lifts(queue'[Len(queue')])
    BY <2>2, CommandKinds DEF Lifts
  <2>7. step \in {"unhold", "switch", "resume"} => Lifting'
    BY <1>1, <2>2, <2>6 DEF Lifting
  <2>8. Owing => step \in {"unhold", "switch", "resume"}
    BY <2>3 DEF Owing, Calls
  <2>9. HoldsAreFollowed'
    <3> SUFFICES ASSUME NEW i \in 1..Len(queue'), queue'[i].kind = "Hold", step # "hold"
                 PROVE  \E j \in 1..Len(queue') : i < j /\ Lifts(queue'[j])
      BY <2>3 DEF HoldsAreFollowed
    <3>1. i # Len(queue')
      BY <2>2, <2>3, StepOf
    <3>2. i \in 1..Len(queue) /\ queue[i].kind = "Hold"
      BY <1>1, <2>2, <3>1
    <3>3. CASE step = "unhold"
      <4>1. Len(queue') \in 1..Len(queue') /\ i < Len(queue')
        BY <1>1, <2>2, <3>2
      <4> QED BY <2>6, <3>3, <4>1
    <3>4. CASE step # "unhold"
      <4>1. PICK j \in 1..Len(queue) : i < j /\ Lifts(queue[j])
        BY <3>2, <3>4 DEF HoldsAreFollowed
      <4> QED BY <1>1, <2>2, <4>1
    <3> QED BY <3>3, <3>4
  <2> QED BY <2>5, <2>7, <2>8, <2>9
<1>6. CASE ~Send
  <2>1. queue' = queue
    BY <1>2, <1>6
  <2>2. Lifting => Lifting'
    BY <1>2, <2>1 DEF Lifting
  <2>4. Owing => Owing'
    BY <1>6, OwedIsSent
  <2>5. HoldsAreFollowed'
    <3> SUFFICES ASSUME NEW i \in 1..Len(queue), queue[i].kind = "Hold",
                        ~(step' = "unhold" /\ ~waiting')
                 PROVE  \E j \in 1..Len(queue) : i < j /\ Lifts(queue[j])
      BY <2>1 DEF HoldsAreFollowed
    <3>1. queue # <<>>
      BY <1>1, EmptySeq
    <3>2. ~(step = "hold" /\ waiting) /\ ~(step = "unhold" /\ ~waiting)
      BY <1>6, <3>1, OwedIsSent
    <3> QED BY <3>2 DEF HoldsAreFollowed
  <2> QED BY <2>2, <2>4, <2>5
<1> QED BY <1>5, <1>6

(* hold_for_firmware: outside the transition that asked for it a hold of   *)
(* the ticks never lasts: a command behind it lifts it, or a release of    *)
(* the EC does. However many calls have run out of time, the command that  *)
(* lifts is not refused by a channel of six places.                        *)
THEOREM HoldsAreLifted == ASSUME Capacity >= 6 PROVE FanSpec => []HoldIsLifted
<1>0. Room
  BY DEF Room
<1> DEFINE Inv == CallInv /\ Holds
<1>1. FanInit => Inv
  <2> SUFFICES ASSUME FanInit PROVE Holds
    BY CallInvStarts
  <2>1. Len(queue) = 0 /\ ~held
    BY EmptySeq DEF FanInit, OwnerInit
  <2> QED BY <2>1 DEF Holds, HoldsAreFollowed
<1>2. FanTypeOK /\ Inv /\ [FanNext]_vars => Inv'
  <2> SUFFICES ASSUME FanTypeOK, CallInv, Holds, [FanNext]_vars PROVE Holds'
    BY CallInvHolds
  <2>1. CASE UNCHANGED vars
    BY <2>1 DEF vars, ownerVars, hardware, controller, snapshot, owner, thread, channel, persisted,
       plan, bounds, Holds, Owing, Lifting, HoldsAreFollowed
  <2> QED BY <1>0, <2>1, HoldsServed, HoldsSent DEF FanNext
<1>3. FanTypeOK /\ Inv => HoldIsLifted
  BY DEF Holds, Owing, Lifting, HoldIsLifted, InTransition
<1> QED BY <1>1, <1>2, <1>3, FanTypesCorrect, PTL DEF FanSpec

-----------------------------------------------------------------------------
(* An install runs under its own policy.                                   *)

(* Once the first i commands of q have run, the owner's policy is p: the   *)
(* last of them that sets a policy sets this one, or none does and it is   *)
(* the present one.                                                        *)
InForce(q, now, i, p) ==
  \E j \in 0..i :
    /\ j = 0 => now = p
    /\ j # 0 => q[j] = [kind |-> "SetPolicy", policy |-> p]
    /\ \A k \in 1..i : j < k => q[k].kind # "SetPolicy"

LEMMA InForceTakes ==
  ASSUME OwnerTypeOK, NEW kind, Take(kind), NEW i \in Nat, i <= Len(queue'), NEW p,
         InForce(queue, policy, i + 1, p),
         kind = "SetPolicy" => policy' = queue[1].policy,
         kind # "SetPolicy" => policy' = policy
  PROVE  InForce(queue', policy', i, p)
<1>1. /\ Len(queue') = Len(queue) - 1 /\ Len(queue) \in Nat /\ Len(queue') \in Nat
      /\ \A k \in 1..Len(queue') : queue'[k] = queue[k + 1]
      /\ queue[1].kind = kind
  BY TakeMoves
<1>2. PICK j \in 0..(i + 1) :
        /\ j = 0 => policy = p
        /\ j # 0 => queue[j] = [kind |-> "SetPolicy", policy |-> p]
        /\ \A k \in 1..(i + 1) : j < k => queue[k].kind # "SetPolicy"
  BY DEF InForce
<1>3. ASSUME NEW k \in 1..i, j < k + 1 PROVE queue'[k].kind # "SetPolicy"
  <2>1. k + 1 \in 1..(i + 1) /\ queue'[k] = queue[k + 1]
    BY <1>1
  <2> QED BY <1>2, <1>3, <2>1
<1>4. CASE j = 0
  <2>1. 1 \in 1..(i + 1) /\ j < 1
    BY <1>4
  <2>2. policy' = p
    BY <1>1, <1>2, <1>4, <2>1
  <2> QED BY <1>3, <1>4, <2>2 DEF InForce
<1>5. CASE j = 1
  <2>1. policy' = p
    BY <1>1, <1>2, <1>5
  <2> QED BY <1>3, <1>5, <2>1 DEF InForce
<1>6. CASE j > 1
  <2>1. j - 1 \in 0..i /\ j - 1 # 0 /\ j - 1 \in 1..Len(queue')
    BY <1>1, <1>6
  <2>2. queue'[j - 1] = queue[j]
    BY <1>1, <2>1
  <2>3. ASSUME NEW k \in 1..i, j - 1 < k PROVE queue'[k].kind # "SetPolicy"
    <3>1. j < k + 1
      BY <2>3
    <3> QED BY <1>3, <3>1
  <2> QED BY <1>2, <1>6, <2>1, <2>2, <2>3 DEF InForce
<1> QED BY <1>4, <1>5, <1>6

(* A command put behind them changes nothing for those before. *)
LEMMA InForceSent ==
  ASSUME NEW q \in Seq(Commands), NEW r \in Seq(Commands), NEW now, NEW p,
         Len(r) = Len(q) + 1, \A i \in 1..Len(q) : r[i] = q[i],
         NEW i \in 0..Len(q), InForce(q, now, i, p)
  PROVE  /\ InForce(r, now, i, p)
         /\ i = Len(q) /\ r[Len(r)].kind # "SetPolicy" => InForce(r, now, Len(r), p)
<1>1. Len(q) \in Nat
  BY LenProperties
<1>2. PICK j \in 0..i :
        /\ j = 0 => now = p
        /\ j # 0 => q[j] = [kind |-> "SetPolicy", policy |-> p]
        /\ \A k \in 1..i : j < k => q[k].kind # "SetPolicy"
  BY DEF InForce
<1>3. j # 0 => r[j] = q[j]
  BY <1>1, <1>2
<1>4. \A k \in 1..i : r[k] = q[k]
  BY <1>1
<1>5. InForce(r, now, i, p)
  BY <1>2, <1>3, <1>4 DEF InForce
<1>6. ASSUME i = Len(q), r[Len(r)].kind # "SetPolicy" PROVE InForce(r, now, Len(r), p)
  <2>1. j \in 0..Len(r)
    BY <1>1, <1>6
  <2>2. ASSUME NEW k \in 1..Len(r), j < k PROVE r[k].kind # "SetPolicy"
    <3>1. k = Len(r) \/ k \in 1..i
      BY <1>1, <1>6
    <3> QED BY <1>2, <1>4, <1>6, <2>2, <3>1
  <2> QED BY <1>2, <1>3, <2>1, <2>2 DEF InForce
<1> QED BY <1>5, <1>6

Installs ==
  /\ \A i \in 1..Len(queue) :
       queue[i].kind = "InstallPrime" => InForce(queue, policy, i - 1, queue[i].policy)
  /\ InstallUsesItsPolicy
  /\ at \in {"sense", "duty"} /\ job = "install" => driving = wanted
PolicySent ==
  step \in {"power", "install"} /\ Target # NoRequest =>
    InForce(queue, policy, Len(queue), TargetPolicy)
Driven == driving = TargetPolicy \/ (driving = None /\ lastError)
Installed == answer.sent /\ answer.ok /\ step = "install" => Driven

-----------------------------------------------------------------------------
(* The owner serves a request: it runs its curve, or lost it to an error   *)
(* it reports, or runs none.                                               *)
Serves(now, error, r) ==
  IF r.mode = "direct" THEN now = r.policy \/ (now = None /\ error) ELSE now = None

(* ... and no command left in the channel changes that.                    *)
Quiet ==
  /\ job \in {"none", "tick"}
  /\ \A i \in 1..Len(queue) : queue[i].kind \in {"SetPolicy", "Snapshot"}

LEMMA QuietStays ==
  ASSUME OwnerTypeOK, OwnerInv, OwnerPlace, OwnerStep, Quiet, ~stopping
  PROVE  /\ Quiet'
         /\ \A r : Serves(driving, lastError, r) => Serves(driving', lastError', r)
<1>1. CASE TakeCommand
  <2>1. ASSUME NEW kind, Take(kind)
        PROVE  /\ kind \in {"SetPolicy", "Snapshot"}
               /\ job' = job => Quiet'
    <3>1. /\ Len(queue') = Len(queue) - 1 /\ Len(queue) \in Nat /\ Len(queue') \in Nat
          /\ \A i \in 1..Len(queue') : queue'[i] = queue[i + 1]
          /\ queue[1].kind = kind /\ queue # <<>>
      BY <2>1, TakeMoves
    <3>2. 1 \in 1..Len(queue)
      BY <3>1
    <3>3. \A i \in 1..Len(queue') : i + 1 \in 1..Len(queue)
      BY <3>1
    <3> QED BY <3>1, <3>2, <3>3 DEF Quiet
  <2>2. TakePolicy \/ TakeSnapshot
    <3>1. ~Take("InstallPrime") /\ ~Take("Hold") /\ ~Take("Resume") /\ ~Take("Release")
      BY <2>1
    <3> QED BY <1>1, <3>1 DEF TakeCommand, TakeInstall, TakeHold, TakeResume, TakeRelease
  <2>3. UNCHANGED <<driving, lastError, job>> /\ \E kind : Take(kind)
    BY <2>2 DEF TakePolicy, TakeSnapshot, controller, snapshot, thread
  <2> QED BY <2>1, <2>3
<1>2. CASE ~TakeCommand
  <2> USE DEF OwnerInv, OwnerPlace, Quiet, Serves, controller, snapshot, channel
  <2>1. CASE StartTick \/ StopOwner
    BY <2>1 DEF StartTick, StopOwner
  <2>2. CASE Enabled \/ EnableFails
    BY <2>2 DEF Enabled, EnableFails
  <2>3. CASE Sensed \/ SensorFails
    BY <2>3 DEF Sensed, SensorFails
  <2>4. CASE DutySet
    BY <2>4 DEF DutySet
  <2>5. CASE DutyFails
    <3>1. driving' = driving /\ UNCHANGED channel /\ (lastError' = lastError \/ lastError' = TRUE)
          /\ job' \in {job, "none"}
      BY <2>5 DEF DutyFails, OperationFailed, TickFailed, InstallFailed
    <3> QED BY <3>1
  <2>6. CASE AutoRelease
    <3>1. at = "auto" /\ driving' = None /\ UNCHANGED channel
      BY <2>6 DEF AutoRelease, GiveBack, GiveBackFails
    <3>2. job = "tick"
      BY <3>1
    <3>3. lastError' = TRUE /\ job' = "none"
      BY <2>6, <3>2 DEF AutoRelease, OperationFailed, TickFailed
    <3> QED BY <3>1, <3>3
  <2>7. CASE ReleaseSkipped
    BY <2>7 DEF ReleaseSkipped, Finish
  <2>8. CASE Released \/ ReleaseFails
    <3>1. at = "release" /\ driving' = None /\ lastError' = lastError /\ queue' = queue
          /\ job' = "none"
      BY <2>8 DEF Released, ReleaseFails, MustRelease, GiveBack, GiveBackFails, Finish
    <3>2. driving = None
      BY <3>1
    <3> QED BY <3>1, <3>2
  <2> QED BY <1>2, <2>1, <2>2, <2>3, <2>4, <2>5, <2>6, <2>7, <2>8 DEF OwnerStep
<1> QED BY <1>1, <1>2

(* The owner's steps keep the installs, and an answered install, in order. *)
LEMMA InstallsServed ==
  ASSUME FanTypeOK, CallInv, Installs, PolicySent, ThreadStep
  PROVE  Installs' /\ PolicySent'
<1>1. OwnerStep /\ BackendUnchanged /\ OwnerTypeOK /\ OwnerPlace
  BY DEF ThreadStep, FanTypeOK, CallInv
<1>2. UNCHANGED <<step, Target, TargetPolicy>>
  BY <1>1, CommandStays DEF BackendUnchanged
<1>3. CASE TakeCommand
  <2>1. ASSUME NEW kind, Take(kind),
               kind = "SetPolicy" => policy' = queue[1].policy,
               kind # "SetPolicy" => policy' = policy
        PROVE  /\ PolicySent'
               /\ \A i \in 1..Len(queue') :
                    queue'[i].kind = "InstallPrime" =>
                      InForce(queue', policy', i - 1, queue'[i].policy)
               /\ kind = "InstallPrime" => policy = queue[1].policy
    <3>1. /\ Len(queue') = Len(queue) - 1 /\ Len(queue) \in Nat /\ Len(queue') \in Nat
          /\ \A i \in 1..Len(queue') : queue'[i] = queue[i + 1]
          /\ queue[1].kind = kind /\ at = "loop"
      BY <1>1, <2>1, TakeMoves
    <3>2. ASSUME NEW i \in 1..Len(queue'), queue'[i].kind = "InstallPrime"
          PROVE  InForce(queue', policy', i - 1, queue'[i].policy)
      <4>1. i + 1 \in 1..Len(queue) /\ queue[i + 1] = queue'[i]
        BY <3>1
      <4>2. InForce(queue, policy, (i + 1) - 1, queue'[i].policy)
        BY <3>2, <4>1 DEF Installs
      <4>3. i - 1 \in Nat /\ i - 1 <= Len(queue') /\ (i + 1) - 1 = (i - 1) + 1
        BY <3>1
      <4> QED BY <1>1, <2>1, <4>2, <4>3, InForceTakes
    <3>3. PolicySent'
      <4> SUFFICES ASSUME step \in {"power", "install"}, Target # NoRequest
                   PROVE  InForce(queue', policy', Len(queue'), TargetPolicy)
        BY <1>2 DEF PolicySent
      <4>1. InForce(queue, policy, Len(queue') + 1, TargetPolicy)
        BY <3>1 DEF PolicySent
      <4> QED BY <1>1, <2>1, <3>1, <4>1, InForceTakes
    <3>4. ASSUME kind = "InstallPrime" PROVE policy = queue[1].policy
      <4>1. 1 \in 1..Len(queue)
        BY <3>1
      <4>2. InForce(queue, policy, 1 - 1, queue[1].policy)
        BY <3>1, <3>4, <4>1 DEF Installs
      <4> QED BY <4>2 DEF InForce
    <3> QED BY <3>2, <3>3, <3>4
  <2>2. CASE TakePolicy
    <3>1. Take("SetPolicy") /\ policy' = queue[1].policy /\ at' = "loop"
      BY <1>1, <2>2, TakeMoves DEF TakePolicy, thread, Take, Idle
    <3> QED BY <2>1, <3>1 DEF Installs, InstallUsesItsPolicy
  <2>3. CASE TakeInstall
    <3>1. Take("InstallPrime") /\ policy' = policy /\ at' = "enable" /\ wanted' = queue[1].policy
      BY <1>1, <2>3, TakeMoves DEF TakeInstall
    <3> QED BY <2>1, <3>1 DEF Installs, InstallUsesItsPolicy
  <2>4. CASE TakeHold \/ TakeResume \/ TakeSnapshot
    <3>1. policy' = policy /\ at' = "loop"
      BY <2>4 DEF TakeHold, TakeResume, TakeSnapshot, owner, thread, Take, Idle
    <3>2. \E kind \in {"Hold", "Resume", "Snapshot"} : Take(kind)
      BY <2>4 DEF TakeHold, TakeResume, TakeSnapshot
    <3> QED BY <2>1, <3>1, <3>2 DEF Installs, InstallUsesItsPolicy
  <2>5. CASE TakeRelease
    <3>1. Take("Release") /\ policy' = policy /\ at' = "release"
      BY <2>5 DEF TakeRelease, owner
    <3> QED BY <2>1, <3>1 DEF Installs, InstallUsesItsPolicy
  <2> QED BY <1>3, <2>2, <2>3, <2>4, <2>5 DEF TakeCommand
<1>4. CASE ~TakeCommand
  <2>1. queue' = queue
    BY <1>1, <1>4, OwnerWorks
  <2>2. policy' = policy
    BY <1>1, <1>4
       DEF OwnerStep, StartTick, StopOwner, Enabled, EnableFails, Sensed, SensorFails, DutySet,
           DutyFails, AutoRelease, OperationFailed, TickFailed, InstallFailed, ReleaseSkipped,
           Released, ReleaseFails, owner
  <2>3. /\ at' # "enable"
        /\ at' \in {"sense", "duty"} /\ job' = "install" => driving' = wanted'
    <3> USE DEF controller
    <3>1. CASE StartTick \/ StopOwner
      BY <3>1 DEF StartTick, StopOwner
    <3>2. CASE Enabled
      BY <3>2 DEF Enabled, Installs, InstallUsesItsPolicy
    <3>3. CASE Sensed
      BY <3>3 DEF Sensed, Installs
    <3>4. CASE EnableFails \/ SensorFails \/ DutySet
      BY <3>4 DEF EnableFails, SensorFails, DutySet
    <3>5. CASE DutyFails
      BY <3>5 DEF DutyFails, OperationFailed, TickFailed, InstallFailed
    <3>6. CASE AutoRelease
      BY <3>6 DEF AutoRelease, OperationFailed, TickFailed, InstallFailed
    <3>7. CASE ReleaseSkipped \/ Released \/ ReleaseFails
      BY <3>7 DEF ReleaseSkipped, Released, ReleaseFails, Finish
    <3> QED BY <1>1, <1>4, <3>1, <3>2, <3>3, <3>4, <3>5, <3>6, <3>7 DEF OwnerStep
  <2> QED BY <1>2, <2>1, <2>2, <2>3 DEF Installs, PolicySent, InstallUsesItsPolicy
<1> QED BY <1>3, <1>4

LEMMA InstalledServed ==
  ASSUME FanTypeOK, CallInv, Installs, Installed, ThreadStep
  PROVE  Installed'
<1>1. OwnerStep /\ BackendUnchanged /\ OwnerTypeOK /\ OwnerInv /\ OwnerPlace /\ Calling
  BY DEF ThreadStep, FanTypeOK, CallInv
<1>2. UNCHANGED <<step, Target, TargetPolicy>>
  BY <1>1, CommandStays DEF BackendUnchanged
<1>3. CASE answer.sent
  <2>1. queue = <<>> /\ ~stopping /\ job \in {"none", "tick"}
    BY <1>1, <1>3 DEF Calling
  <2>2. Quiet
    BY <2>1, EmptySeq DEF Quiet
  <2>3. Driven => Driven'
    <3> DEFINE r == [mode |-> "direct", policy |-> TargetPolicy]
    <3>1. Serves(driving, lastError, r) => Serves(driving', lastError', r)
      BY <1>1, <2>1, <2>2, QuietStays
    <3> QED BY <1>2, <3>1 DEF Serves, Driven
  <2>4. answer' = answer
    <3>1. ~TakeCommand
      BY <2>1 DEF TakeCommand, TakePolicy, TakeInstall, TakeHold, TakeResume, TakeRelease,
         TakeSnapshot, Take
    <3> QED BY <1>1, <2>1, <3>1, OwnerWorks
  <2> QED BY <1>2, <2>3, <2>4 DEF Installed
<1>4. CASE ~answer.sent /\ TakeCommand
  <2>1. ASSUME NEW kind, Take(kind), waiting, queue' = <<>>
        PROVE  step \in Calls /\ CommandOf.kind = kind
    <3>1. queue # <<>> /\ queue[1].kind = kind /\ Len(queue) = 1
      BY <1>1, <2>1, TakeMoves
    <3> QED BY <1>1, <1>4, <2>1, <3>1 DEF Calling
  <2>2. CASE TakeInstall \/ TakeRelease
    BY <1>4, <2>2 DEF TakeInstall, TakeRelease, Installed
  <2>3. CASE TakePolicy \/ TakeHold \/ TakeResume \/ TakeSnapshot
    <3>1. PICK kind \in {"SetPolicy", "Hold", "Resume", "Snapshot"} : Take(kind)
      BY <2>3 DEF TakePolicy, TakeHold, TakeResume, TakeSnapshot
    <3>2. waiting /\ queue' = <<>> => step # "install"
      BY <2>1, <3>1, StepOf DEF Releases
    <3>3. \E ok : Reply(ok)
      BY <2>3 DEF TakePolicy, TakeHold, TakeResume, TakeSnapshot
    <3> QED BY <1>2, <1>4, <3>2, <3>3, ReplyTells DEF Installed
  <2> QED BY <1>4, <2>2, <2>3 DEF TakeCommand
<1>5. CASE ~answer.sent /\ ~TakeCommand /\ answer' # answer
  <2>1. /\ job \in {"install", "release"} /\ queue' = queue
        /\ \E ok : Reply(ok)
    BY <1>1, <1>5, OwnerWorks
  <2>2. waiting /\ queue = <<>>
    BY <1>5, <2>1, ReplyTells
  <2>3. CASE job = "release"
    BY <1>1, <1>2, <1>5, <2>2, <2>3, StepOf DEF Calling, Installed, Releases
  <2>4. CASE job = "install" /\ at = "duty"
    <3>1. wanted = TargetPolicy
      BY <1>1, <1>5, <2>2, <2>4, StepOf DEF Calling
    <3>2. driving = TargetPolicy
      BY <2>4, <3>1 DEF Installs
    <3>3. driving' = driving
      BY <1>1, <1>5, <2>4
         DEF OwnerStep, StartTick, StopOwner, Enabled, EnableFails, Sensed, SensorFails, DutySet,
             DutyFails, AutoRelease, ReleaseSkipped, MustRelease, Released, ReleaseFails,
             controller, Idle
    <3> QED BY <1>2, <3>2, <3>3 DEF Installed, Driven
  <2>5. CASE job = "install" /\ at # "duty"
    <3>1. Reply(FALSE)
      BY <1>1, <1>5, <2>5
         DEF OwnerStep, StartTick, StopOwner, Enabled, EnableFails, Sensed, SensorFails, DutySet,
             DutyFails, AutoRelease, ReleaseSkipped, MustRelease, Released, ReleaseFails, Finish,
             channel
    <3>2. ~answer'.ok
      BY <2>1, <2>2, <3>1, ReplyTells
    <3> QED BY <3>2 DEF Installed
  <2> QED BY <2>1, <2>3, <2>4, <2>5
<1>6. CASE ~answer.sent /\ answer' = answer
  BY <1>6 DEF Installed
<1> QED BY <1>3, <1>4, <1>5, <1>6

-----------------------------------------------------------------------------
(* What the owner serves, by where the backend is.                         *)

(* Nothing has been done yet that the committed request does not ask for,  *)
(* or it has been done again.                                              *)
Committed ==
  \/ op = "idle" /\ ~suspended
  \/ op = "observe"
  \/ op = "apply" /\ stage = "try" /\ step \in {"policy", "power"}
  \/ op = "apply" /\ stage = "reject"
  \/ op \in Applies /\ stage = "try" /\ step \in {"observe", "save"}
  \/ op = "apply" /\ stage = "undo" /\ step = "observe"

Served ==
  /\ step = "settle" => Quiet /\ Serves(driving, lastError, Target)
  /\ step = "sync" /\ moved => Quiet /\ Serves(driving, lastError, Target)
  /\ op = "release" /\ step = "save" => Quiet /\ Serves(driving, lastError, NoRequest)
  /\ op = "boot" /\ stage = "none" /\ step = "observe" =>
       Quiet /\ Serves(driving, lastError, NoRequest)
  /\ ~degraded /\ op = "idle" /\ suspended => Quiet /\ Serves(driving, lastError, NoRequest)
  /\ ~degraded /\ Committed => Quiet /\ Serves(driving, lastError, desired)

LEMMA ServedServed ==
  ASSUME FanTypeOK, CallInv, Served, ThreadStep
  PROVE  Served'
<1>1. OwnerStep /\ BackendUnchanged /\ OwnerTypeOK /\ OwnerInv /\ OwnerPlace /\ Calling
  BY DEF ThreadStep, FanTypeOK, CallInv
<1>2. /\ UNCHANGED <<op, stage, step, goal, prior, desired, degraded, suspended, moved>>
      /\ Target' = Target /\ (Committed' <=> Committed)
  BY <1>1, CommandStays DEF BackendUnchanged, persisted, plan, Committed
<1>3. CASE stopping
  BY <1>1, <1>2, <1>3 DEF Calling, Served, Committed, Applies, Restores
<1>4. CASE ~stopping
  <2>1. ASSUME NEW r, Quiet, Serves(driving, lastError, r)
        PROVE  Quiet' /\ Serves(driving', lastError', r)
    BY <1>1, <1>4, <2>1, QuietStays
  <2> QED BY <1>2, <2>1 DEF Served
<1> QED BY <1>3, <1>4

(* What the operation has noted where it stands. *)
Marks ==
  /\ op = "suspend" /\ step = "observe" => degraded
  /\ step = "disarm" /\ op \in Restores => degraded
  /\ step \in {"unhold", "resume"} => ~moved
  /\ op = "gone" => step = "none"

LEMMA InstallsSent ==
  ASSUME FanTypeOK, CallInv, Installs, PolicySent, Begin \/ Continue
  PROVE  Installs'
<1>1. /\ Calling /\ Shape /\ queue \in Seq(Commands) /\ Len(queue) \in Nat
      /\ UNCHANGED <<controller, owner, thread>> /\ (Send \/ queue' = queue)
  BY OwnerKept, LenProperties DEF CallInv, FanTypeOK, OwnerTypeOK
<1>2. /\ InstallUsesItsPolicy'
      /\ at' \in {"sense", "duty"} /\ job' = "install" => driving' = wanted'
  BY <1>1 DEF Installs, InstallUsesItsPolicy, controller, owner, thread
<1>3. CASE queue' = queue
  BY <1>1, <1>2, <1>3 DEF Installs, owner
<1>4. CASE Send
  <2>1. CommandOf \in Commands
    BY <1>4, TargetTypes DEF FanTypeOK, Send, Calls, CommandOf, Commands, Command
  <2>2. /\ queue' \in Seq(Commands) /\ Len(queue') = Len(queue) + 1
        /\ queue'[Len(queue')] = CommandOf /\ \A i \in 1..Len(queue) : queue'[i] = queue[i]
    BY <1>1, <1>4, <2>1, AppendProperties DEF Send
  <2>3. ASSUME NEW i \in 1..Len(queue'), queue'[i].kind = "InstallPrime"
        PROVE  InForce(queue', policy, i - 1, queue'[i].policy)
    <3>1. CASE i = Len(queue')
      <4>1. step = "install" /\ CommandOf.policy = TargetPolicy
        BY <1>4, <2>2, <2>3, <3>1, StepOf DEF Send
      <4>2. Target # NoRequest
        BY <1>1, <4>1 DEF Shape, NoRequest
      <4>3. InForce(queue, policy, Len(queue), TargetPolicy)
        BY <4>1, <4>2 DEF PolicySent
      <4>4. Len(queue) \in 0..Len(queue)
        BY <1>1
      <4>5. InForce(queue', policy, Len(queue), TargetPolicy)
        BY <1>1, <2>2, <4>3, <4>4, InForceSent
      <4> QED BY <1>1, <2>2, <3>1, <4>1, <4>5
    <3>2. CASE i # Len(queue')
      <4>1. i \in 1..Len(queue) /\ queue'[i] = queue[i] /\ i - 1 \in 0..Len(queue)
        BY <1>1, <2>2, <3>2
      <4>2. InForce(queue, policy, i - 1, queue'[i].policy)
        BY <2>3, <4>1 DEF Installs
      <4> QED BY <1>1, <2>2, <4>1, <4>2, InForceSent
    <3> QED BY <3>1, <3>2
  <2> QED BY <1>1, <1>2, <2>3 DEF Installs, owner
<1> QED BY <1>1, <1>3, <1>4

(* The policy of a request is in force when its fans are set. *)
LEMMA PolicyReturns ==
  ASSUME FanTypeOK, CallInv, Room, AfterPolicy, step' = "power"
  PROVE  InForce(queue, policy, Len(queue), TargetPolicy)
<1>1. step = "policy" /\ (Succeeds \/ Fails) /\ queue \in Seq(Commands) /\ Len(queue) \in Nat
      /\ Calling /\ Shape /\ Depth /\ Told
  BY LenProperties DEF AfterPolicy, Returns, FanTypeOK, OwnerTypeOK, CallInv
<1>2. ~Refused
  <2> SUFFICES ASSUME Refused PROVE FALSE
    OBVIOUS
  <2>1. ~waiting /\ Len(queue) = Capacity /\ ~Succeeds
    BY <1>1, CallEnds DEF Succeeds, Answered
  <2>2. stage = "undo" /\ op # "release"
    <3>1. CASE stage = "reject"
      <4>1. op \in Applies /\ ApplyFailed(degraded)
        BY <3>1, <1>1, <2>1 DEF AfterPolicy, Shape, Applies, Restores
      <4> QED BY <4>1, ApplyFailedSteps
    <3>2. CASE stage # "reject"
      BY <1>1, <2>1, <3>2, OverSteps DEF AfterPolicy, To
    <3> QED BY <3>1, <3>2
  <2>3. AtMost(3)
    BY <1>1, <2>2 DEF Depth
  <2> QED BY <1>1, <2>1, <2>3, OwnerAssumption DEF AtMost, Room
<1>3. CASE Answered
  <2>1. policy = TargetPolicy /\ Len(queue) = 0
    BY <1>1, <1>3, EmptySeq DEF Answered, Told, Calling
  <2> QED BY <2>1 DEF InForce
<1>4. CASE TimedOut
  <2>1. CommandOf = [kind |-> "SetPolicy", policy |-> TargetPolicy]
    BY <1>1, CommandKinds
  <2>2. queue # <<>>
    BY <1>1, <1>4, <2>1 DEF TimedOut, Calling
  <2>3. queue[Len(queue)] = [kind |-> "SetPolicy", policy |-> TargetPolicy]
    BY <1>1, <1>4, <2>1, <2>2 DEF TimedOut, Calling
  <2>4. Len(queue) \in 0..Len(queue) /\ Len(queue) # 0
    BY <1>1, <2>2, EmptySeq
  <2>5. \A k \in 1..Len(queue) : ~(Len(queue) < k)
    BY <1>1
  <2> QED BY <2>3, <2>4, <2>5 DEF InForce
<1> QED BY <1>1, <1>2, <1>3, <1>4 DEF Succeeds, Fails

(* Where "power" and "install" come from. *)
LEMMA PowerComes ==
  ASSUME FanTypeOK, Shape, Begin \/ Continue, step' \in {"power", "install"}
  PROVE  \/ ReleaseFans
         \/ AfterPolicy /\ UNCHANGED plan /\ step' = "power"
         \/ Power \/ Send
<1> USE DEF To, Same, plan
<1>1. CASE Begin
  BY <1>1 DEF Begin, Apply, Observe, Suspend, Resume, Teardown, Start
<1>2. CASE Send \/ Power
  BY <1>2
<1>3. CASE Check \/ CheckFails \/ PowerFails \/ Settle \/ SettleFails \/ Save \/ SaveFails
           \/ Write \/ WriteFails
  BY <1>3, OverSteps, ApplyFailedSteps, BrokenSteps
     DEF Check, CheckFails, PowerFails, Settle, SettleFails, Save, SaveFails, Write, WriteFails
<1>4. CASE AfterPolicy
  <2>1. step = "policy" /\ stage \in Stages /\ stage # "none"
    BY <1>4 DEF AfterPolicy, Returns, FanTypeOK, PlanTypeOK, Shape
  <2>2. CASE stage = "reject"
    <3>1. op \in Applies BY <2>2 DEF Shape
    <3>2. ApplyFailed(degraded) BY <1>4, <2>2, <3>1 DEF AfterPolicy, Applies, Restores
    <3> QED BY <3>2, ApplyFailedSteps
  <2>3. CASE stage = "safe"
    BY <1>4, <2>3, OverSteps DEF AfterPolicy, Shape
  <2>4. CASE stage = "try"
    <3>1. op # "release" BY <2>1, <2>4 DEF Shape
    <3> QED BY <1>4, <2>4, <3>1 DEF AfterPolicy
  <2>5. CASE stage = "undo"
    BY <1>4, <2>5, OverSteps DEF AfterPolicy, Shape
  <2> QED BY <2>1, <2>2, <2>3, <2>4, <2>5 DEF Stages
<1>5. CASE AfterHold
  BY <1>5 DEF AfterHold
<1>6. CASE AfterObserve
  BY <1>6, OverSteps, ApplyFailedSteps DEF AfterObserve
<1>7. CASE AfterUnhold \/ AfterSwitch \/ AfterResume \/ AfterSync
  BY <1>7, OverSteps, BrokenSteps DEF AfterUnhold, AfterSwitch, AfterResume, AfterSync
<1>8. CASE AfterInstall \/ AfterAbandon \/ AfterDrop \/ AfterDisarm
  BY <1>8, OverSteps, BrokenSteps DEF AfterInstall, AfterAbandon, AfterDrop, AfterDisarm, FansSet
<1>9. CASE Stop \/ Join
  BY <1>9 DEF Stop, Join
<1> QED BY <1>1, <1>2, <1>3, <1>4, <1>5, <1>6, <1>7, <1>8, <1>9 DEF Continue

LEMMA PolicySentSent ==
  ASSUME FanTypeOK, CallInv, Room, PolicySent, Begin \/ Continue
  PROVE  PolicySent'
<1>1. /\ Calling /\ Shape /\ queue \in Seq(Commands) /\ Len(queue) \in Nat
      /\ policy' = policy /\ (Send \/ queue' = queue)
  BY OwnerKept, LenProperties DEF CallInv, FanTypeOK, OwnerTypeOK, owner
<1> SUFFICES ASSUME step' \in {"power", "install"}, Target' # NoRequest
             PROVE  InForce(queue', policy, Len(queue'), TargetPolicy')
  BY <1>1 DEF PolicySent
<1>2. CASE ReleaseFans
  BY <1>2 DEF ReleaseFans, Start, Target
<1>3. CASE AfterPolicy /\ UNCHANGED plan /\ step' = "power"
  <2>1. TargetPolicy' = TargetPolicy /\ queue' = queue
    BY <1>3 DEF plan, TargetPolicy, Target, AfterPolicy, Returns
  <2> QED BY <1>3, <2>1, PolicyReturns
<1>4. CASE Power
  <2>1. TargetPolicy' = TargetPolicy /\ Target' = Target /\ queue' = queue /\ step = "power"
    BY <1>4 DEF plan, TargetPolicy, Target, Power, Same, Works, ownerVars, channel
  <2> QED BY <2>1 DEF PolicySent
<1>5. CASE Send
  <2>1. TargetPolicy' = TargetPolicy /\ Target' = Target /\ step \in Calls /\ step' = step
    BY <1>5 DEF plan, TargetPolicy, Target, Send
  <2>2. step = "install"
    BY <2>1 DEF Calls
  <2>3. CommandOf \in Commands /\ CommandOf.kind # "SetPolicy"
    <3>1. CommandOf \in Commands
      BY <1>5, TargetTypes DEF FanTypeOK, Send, Calls, CommandOf, Commands, Command
    <3> QED BY <2>2, <3>1, CommandKinds
  <2>4. /\ queue' \in Seq(Commands) /\ Len(queue') = Len(queue) + 1
        /\ queue'[Len(queue')] = CommandOf /\ \A i \in 1..Len(queue) : queue'[i] = queue[i]
    BY <1>1, <1>5, <2>3, AppendProperties DEF Send
  <2>5. InForce(queue, policy, Len(queue), TargetPolicy) /\ Len(queue) \in 0..Len(queue)
    BY <1>1, <2>1, <2>2 DEF PolicySent
  <2> QED BY <1>1, <2>1, <2>3, <2>4, <2>5, InForceSent
<1> QED BY <1>1, <1>2, <1>3, <1>4, <1>5, PowerComes

-----------------------------------------------------------------------------
(* What is left of the clauses of Served after the ways to end or roll     *)
(* back an operation.                                                      *)
LEMMA OverServed ==
  ASSUME Over, FanTypeOK, suspended' = suspended, Quiet' <=> Quiet,
         UNCHANGED <<driving, lastError>>,
         suspended => op = "suspend",
         op = "restore" \/ ~suspended =>
           degraded' \/ (Quiet /\ Serves(driving, lastError, desired')),
         op = "suspend" => degraded' \/ (Quiet /\ Serves(driving, lastError, NoRequest))
  PROVE  Served' /\ Marks'
<1>1. stage' = "none"
  BY OverIs
<1>2. CASE op = "restore"
  <2>1. op' = "observe" /\ step' = "observe"
    BY <1>2, OverIs
  <2> QED BY <1>1, <1>2, <2>1 DEF Served, Marks, Committed, Applies, Restores
<1>3. CASE op # "restore"
  <2>1. op' = "idle" /\ step' = "none"
    BY <1>3, OverIs
  <2> QED BY <1>1, <1>3, <2>1 DEF Served, Marks, Committed, Applies, Restores
<1> QED BY <1>2, <1>3

LEMMA BrokenServed ==
  ASSUME NEW failed, Broken(failed), FanTypeOK, Shape, suspended' = suspended, Quiet' <=> Quiet,
         UNCHANGED <<driving, lastError>>, step \notin {"observe", "disarm", "none", "stop", "join"}
  PROVE  Served' /\ Marks'
<1> USE DEF To, Stage
<1>0. op \in Operations /\ stage \in Stages
  BY DEF FanTypeOK, PlanTypeOK
<1>1. CASE op \in Applies /\ stage = "try"
  <2>1. step' = "policy" /\ stage' = "undo" /\ op' = op
    BY <1>1 DEF Broken, Applies, Restores
  <2> QED BY <1>1, <2>1 DEF Served, Marks, Committed, Applies, Restores
<1>2. CASE op \in Applies /\ stage = "undo"
  <2>1. step' = "observe" /\ stage' = "undo" /\ op' = op /\ degraded' = TRUE
    BY <1>2 DEF Broken, Applies, Restores
  <2> QED BY <1>2, <2>1 DEF Served, Marks, Committed, Applies, Restores
<1>3. CASE op = "release" /\ stage \in {"try", "undo"}
  <2>1. step' = "policy" /\ stage' \in {"safe", "undo"} /\ op' = op
    BY <1>3 DEF Broken, Applies, Restores
  <2> QED BY <1>3, <2>1 DEF Served, Marks, Committed, Applies, Restores
<1>4. CASE /\ ~(op \in Applies /\ stage \in {"try", "undo"})
           /\ ~(op = "release" /\ stage \in {"try", "undo"})
  <2>1. Over /\ degraded' = TRUE
    BY <1>4 DEF Broken
  <2>2. stage # "none" /\ ~suspended
    BY <1>0 DEF Shape
  <2> QED BY <2>1, <2>2, OverServed DEF Shape
<1> QED BY <1>1, <1>2, <1>3, <1>4

LEMMA ApplyFailedServed ==
  ASSUME NEW worse \in BOOLEAN, ApplyFailed(worse), FanTypeOK, Shape, op \in Applies,
         stage # "none", suspended' = suspended, Quiet' <=> Quiet, UNCHANGED <<driving, lastError>>,
         op = "apply" => worse \/ (Quiet /\ Serves(driving, lastError, desired))
  PROVE  Served' /\ Marks'
<1>1. CASE op \in Restores
  <2>1. step' = "disarm" /\ UNCHANGED plan /\ degraded' = TRUE
    BY <1>1 DEF ApplyFailed, To
  <2> QED BY <1>1, <2>1 DEF Served, Marks, Committed, Applies, Restores, plan
<1>2. CASE op = "apply"
  <2>1. Over /\ degraded' = worse /\ desired' = desired
    <3>1. op \notin Restores BY <1>2 DEF Restores
    <3> QED BY <3>1 DEF ApplyFailed
  <2>2. ~suspended
    BY <1>2 DEF Shape
  <2> QED BY <1>2, <2>1, <2>2, OverServed
<1> QED BY <1>1, <1>2 DEF Applies

(* Each action of the backend: what it leaves the owner serving is what    *)
(* the place it goes to says.                                              *)
LEMMA ServedSent ==
  ASSUME FanTypeOK, CallInv, Served, Marks, Installed, Continue, ~Send
  PROVE  Served' /\ Marks'
<1> USE DEF To, Same, Stage
<1>0. /\ Calling /\ Shape /\ Told /\ PlanTypeOK
      /\ stage \in Stages /\ op \in Operations /\ degraded \in BOOLEAN /\ noted \in BOOLEAN
      /\ answer.ok \in BOOLEAN /\ answer.error \in BOOLEAN /\ answer.failure \in BOOLEAN
  BY AnswerTypes DEF CallInv, FanTypeOK, PlanTypeOK
<1>1. /\ UNCHANGED <<driving, lastError, job, queue>> /\ (Quiet' <=> Quiet)
  BY OwnerKept DEF Quiet, controller, snapshot, thread
<1>2. ASSUME NEW called, Returns(called) PROVE suspended' = suspended /\ step = called
  BY <1>2 DEF Returns
<1>3. ASSUME NEW written, Works(written) \/ Breaks(written)
      PROVE  suspended' = suspended /\ step = written
  BY <1>3 DEF Works, Breaks
<1>4. Answered => Quiet
  BY <1>0, EmptySeq DEF Answered, Calling, Quiet
<1>5. CASE Check
  <2>1. step' = "policy" /\ UNCHANGED <<persisted, plan, moved, suspended>> /\ step = "check"
    BY <1>3, <1>5 DEF Check
  <2>2. op \in Restores
    BY <1>0, <2>1 DEF Shape
  <2> QED BY <2>1, <2>2 DEF Served, Marks, Committed, plan, persisted, Restores
<1>6. CASE CheckFails
  <2>1. suspended' = suspended /\ step = "check" /\ ApplyFailed(degraded)
    BY <1>3, <1>6 DEF CheckFails
  <2>2. op \in Restores /\ stage # "none"
    BY <1>0, <2>1 DEF Shape
  <2> QED BY <1>0, <1>1, <2>1, <2>2, ApplyFailedServed DEF Applies, Restores
<1>7. CASE AfterPolicy
  <2>1. suspended' = suspended /\ step = "policy" /\ moved' = moved
    BY <1>2, <1>7 DEF AfterPolicy
  <2>2. CASE stage = "reject"
    <3>1. op \in Applies BY <1>0, <2>2 DEF Shape
    <3>2. ApplyFailed(degraded) BY <1>7, <2>2, <3>1 DEF AfterPolicy, Applies, Restores
    <3>3. op = "apply" => degraded \/ (Quiet /\ Serves(driving, lastError, desired))
      BY <2>2 DEF Served, Committed
    <3> QED BY <1>0, <1>1, <2>1, <2>2, <3>1, <3>2, <3>3, ApplyFailedServed
  <2>3. CASE stage = "safe"
    <3>1. op = "release"
      BY <1>0, <2>3 DEF Shape
    <3>2. \/ step' = "write" /\ UNCHANGED <<plan, desired, degraded>>
          \/ Over /\ degraded' = TRUE
      BY <1>7, <2>3, <3>1 DEF AfterPolicy
    <3>3. CASE Over /\ degraded' = TRUE
      BY <1>0, <1>1, <2>1, <3>1, <3>3, OverServed DEF Shape
    <3>4. CASE step' = "write" /\ UNCHANGED <<plan, desired, degraded>>
      BY <2>1, <2>3, <3>1, <3>4 DEF Served, Marks, Committed, plan
    <3> QED BY <3>2, <3>3, <3>4
  <2>4. CASE stage = "try"
    <3>1. op # "release" BY <1>0, <2>1, <2>4 DEF Shape
    <3>2. op \in Applies BY <1>0, <2>4, <3>1 DEF Shape, Operations
    <3>3. \/ step' = "power" /\ UNCHANGED <<plan, desired, degraded>>
          \/ /\ stage' = "reject" /\ step' = "policy"
             /\ UNCHANGED <<op, goal, prior, desired, degraded>>
      BY <1>7, <2>4, <3>1 DEF AfterPolicy
    <3> QED BY <1>1, <2>1, <2>4, <3>2, <3>3 DEF Served, Marks, Committed, plan, Applies, Restores
  <2>5. CASE stage = "undo"
    <3>1. \/ step' = "observe" /\ UNCHANGED <<plan, desired>> /\ degraded' = TRUE /\ op # "release"
          \/ step' = "power" /\ UNCHANGED <<plan, desired, degraded>>
          \/ Over /\ degraded' = TRUE
      BY <1>0, <1>7, <2>5 DEF AfterPolicy, Shape
    <3>2. op \in Applies \cup {"release"} /\ ~suspended
      BY <1>0, <2>5 DEF Shape, Operations, Applies, Restores
    <3>3. CASE Over /\ degraded' = TRUE
      BY <1>0, <1>1, <2>1, <3>2, <3>3, OverServed
    <3>4. CASE step' \in {"observe", "power"} /\ UNCHANGED <<plan, desired>>
               /\ (step' = "observe" => degraded' = TRUE)
      BY <2>1, <2>5, <3>2, <3>4 DEF Served, Marks, Committed, plan, Applies, Restores
    <3> QED BY <3>1, <3>3, <3>4
  <2>6. stage # "none" BY <1>0, <2>1 DEF Shape
  <2> QED BY <1>0, <2>2, <2>3, <2>4, <2>5, <2>6 DEF Stages
<1>8. CASE Power
  <2>1. suspended' = suspended /\ step = "power" /\ UNCHANGED <<persisted, plan, moved>>
    BY <1>3, <1>8 DEF Power
  <2>2. step' \in {"install", "hold", "drop"}
    BY <1>8 DEF Power, FansOf
  <2>3. op \notin {"idle", "observe", "suspend", "gone"} /\ stage \notin {"none", "reject"}
    BY <1>0, <2>1 DEF Shape
  <2> QED BY <2>1, <2>2, <2>3 DEF Served, Marks, Committed, plan
<1>9. CASE PowerFails \/ SettleFails
  <2>1. suspended' = suspended /\ step \in {"power", "settle"} /\ Broken(noted)
    BY <1>3, <1>9 DEF PowerFails, SettleFails
  <2> QED BY <1>0, <1>1, <2>1, BrokenServed
<1>10. CASE Settle
  <2>1. suspended' = suspended /\ step = "settle" /\ moved' = moved
    BY <1>3, <1>10 DEF Settle
  <2>2. Quiet /\ Serves(driving, lastError, Target)
    BY <2>1 DEF Served
  <2>3. stage \in {"try", "undo"} /\ op \in Applies \cup {"release"}
    BY <1>0, <2>1 DEF Shape, Stages, Operations, Applies, Restores
  <2>4. CASE op = "release"
    <3>1. step' = "save" /\ UNCHANGED <<plan, persisted>>
      BY <1>10, <2>4 DEF Settle
    <3>2. Target = NoRequest
      BY <1>0, <2>1, <2>4 DEF Shape, Target
    <3> QED BY <1>1, <2>1, <2>2, <2>3, <2>4, <3>1, <3>2
            DEF Served, Marks, Committed, plan, Applies, Restores
  <2>5. CASE op # "release" /\ stage = "try"
    <3>1. step' = "observe" /\ desired' = goal /\ UNCHANGED plan
      BY <1>10, <2>5 DEF Settle
    <3>2. Target = goal
      BY <2>5 DEF Target
    <3> QED BY <1>1, <2>1, <2>2, <2>3, <2>5, <3>1, <3>2
            DEF Served, Marks, Committed, plan, Applies, Restores
  <2>6. CASE op # "release" /\ stage = "undo"
    <3>1. step' = "observe" /\ UNCHANGED <<plan, persisted>>
      BY <1>10, <2>6 DEF Settle
    <3>2. Target = prior /\ (op = "apply" => desired = prior)
      BY <1>0, <2>6 DEF Target, Shape
    <3> QED BY <1>1, <2>1, <2>2, <2>3, <2>6, <3>1, <3>2
            DEF Served, Marks, Committed, plan, persisted, Applies, Restores
  <2> QED BY <2>3, <2>4, <2>5, <2>6
<1>11. CASE Save
  <2>1. suspended' = suspended /\ step = "save" /\ Over
    BY <1>3, <1>11 DEF Save
  <2>2. stage = "try" /\ op \in Applies \cup {"release"} /\ ~suspended
    BY <1>0, <2>1 DEF Shape, Operations, Applies, Restores
  <2>3. CASE op = "release"
    <3>1. desired' = NoRequest \/ desired'.mode = "stock"
      <4>1. ASSUME desired # NoRequest
            PROVE  [desired EXCEPT !.mode = "stock"] \in [mode : {"stock"}, policy : Policies]
        BY <1>0, <4>1, BackendAssumption DEF PlanTypeOK, Committable
      <4> QED BY <1>11, <2>3, <4>1 DEF Save
    <3>2. Quiet /\ Serves(driving, lastError, desired')
      BY <2>1, <2>3, <3>1 DEF Served, Serves, NoRequest
    <3> QED BY <1>0, <1>1, <2>1, <2>2, <2>3, <3>2, OverServed
  <2>4. CASE op \in Applies
    <3>1. UNCHANGED <<desired, degraded>>
      BY <1>11, <2>4 DEF Save, Applies, Restores
    <3>2. degraded \/ (Quiet /\ Serves(driving, lastError, desired))
      BY <2>1, <2>2, <2>4 DEF Served, Committed
    <3> QED BY <1>0, <1>1, <2>1, <2>2, <2>4, <3>1, <3>2, OverServed DEF Applies, Restores
  <2> QED BY <2>2, <2>3, <2>4
<1>12. CASE SaveFails
  <2>1. suspended' = suspended /\ step = "save" /\ moved' = moved
    BY <1>3, <1>12 DEF SaveFails
  <2>2. CASE op = "release"
    BY <1>0, <1>1, <1>12, <2>1, <2>2, BrokenServed DEF SaveFails
  <2>3. CASE op # "release"
    <3>1. op' = op /\ stage' = "undo" /\ step' = "policy" /\ degraded' = TRUE
      BY <1>12, <2>3 DEF SaveFails
    <3>2. op \in Applies
      BY <1>0, <2>1, <2>3 DEF Shape, Operations
    <3> QED BY <2>1, <3>1, <3>2 DEF Served, Marks, Committed, Applies, Restores
  <2> QED BY <2>2, <2>3
<1>13. CASE AfterObserve
  <2>1. suspended' = suspended /\ step = "observe" /\ moved' = moved
    BY <1>2, <1>13 DEF AfterObserve
  <2>2. PICK worse \in BOOLEAN :
          \/ /\ op \in Applies /\ stage = "try" /\ step' = "save" /\ UNCHANGED <<plan, desired>>
             /\ degraded' = (degraded \/ worse)
          \/ op \in Applies /\ stage = "undo" /\ ApplyFailed(degraded \/ worse)
          \/ op = "teardown" /\ step' = "stop" /\ UNCHANGED <<plan, desired>>
          \/ /\ op = "boot" /\ stage = "none" /\ op' = op /\ stage' = "try" /\ step' = "check"
             /\ desired # NoRequest
          \/ /\ ~(op \in Applies /\ stage \in {"try", "undo"}) /\ op # "teardown"
             /\ op = "boot" /\ stage = "none" => desired = NoRequest
             /\ Over /\ degraded' = (degraded \/ worse) /\ desired' = desired
    <3>1. PICK worse \in BOOLEAN :
           /\ noted' = FALSE
           /\ CASE op \in Applies /\ stage = "try" ->
                     /\ degraded' = (degraded \/ worse) /\ UNCHANGED desired
                     /\ To("save") /\ UNCHANGED plan
                [] op \in Applies /\ stage = "undo" -> ApplyFailed(degraded \/ worse)
                [] op = "teardown" ->
                     /\ degraded' = (degraded \/ worse) /\ UNCHANGED <<desired, plan>>
                     /\ To("stop")
                [] op = "boot" /\ stage = "none" /\ desired # NoRequest ->
                     /\ degraded' = (degraded \/ worse) /\ UNCHANGED <<desired, op>>
                     /\ goal' = desired /\ prior' = desired /\ stage' = "try" /\ To("check")
                [] OTHER -> Over /\ degraded' = (degraded \/ worse) /\ UNCHANGED desired
      BY <1>0, <1>13 DEF AfterObserve
    <3>2. CASE op \in Applies /\ stage = "try"
      BY <3>1, <3>2 DEF Applies, Restores
    <3>3. CASE op \in Applies /\ stage = "undo"
      BY <3>1, <3>3 DEF Applies, Restores
    <3>4. CASE op = "teardown"
      BY <3>1, <3>4 DEF Applies, Restores
    <3>5. CASE op = "boot" /\ stage = "none" /\ desired # NoRequest
      BY <3>1, <3>5
    <3>6. CASE /\ ~(op \in Applies /\ stage \in {"try", "undo"}) /\ op # "teardown"
               /\ ~(op = "boot" /\ stage = "none" /\ desired # NoRequest)
      BY <3>1, <3>6
    <3> QED BY <3>2, <3>3, <3>4, <3>5, <3>6
  <2>3. CASE /\ op \in Applies /\ stage = "try" /\ step' = "save" /\ UNCHANGED <<plan, desired>>
             /\ degraded' = (degraded \/ worse)
    BY <1>1, <2>1, <2>3 DEF Served, Marks, Committed, plan, Applies, Restores
  <2>4. CASE op \in Applies /\ stage = "undo" /\ ApplyFailed(degraded \/ worse)
    <3>1. (degraded \/ worse) \in BOOLEAN
      BY <1>0
    <3>2. op = "apply" => (degraded \/ worse) \/ (Quiet /\ Serves(driving, lastError, desired))
      BY <2>1, <2>4 DEF Served, Committed
    <3> QED BY <1>0, <1>1, <2>1, <2>4, <3>1, <3>2, ApplyFailedServed
  <2>5. CASE op = "teardown" /\ step' = "stop" /\ UNCHANGED <<plan, desired>>
    BY <1>0, <2>1, <2>5 DEF Served, Marks, Committed, plan, Applies, Restores, Shape
  <2>6. CASE op = "boot" /\ stage = "none" /\ op' = op /\ stage' = "try" /\ step' = "check"
    BY <2>1, <2>6 DEF Served, Marks, Committed, Applies, Restores
  <2>7. CASE /\ ~(op \in Applies /\ stage \in {"try", "undo"}) /\ op # "teardown"
             /\ op = "boot" /\ stage = "none" => desired = NoRequest
             /\ Over /\ degraded' = (degraded \/ worse) /\ desired' = desired
    <3>1. stage = "none" /\ op \in {"observe", "suspend", "boot"}
      BY <1>0, <2>1, <2>7 DEF Shape, Stages, Operations, Marks
    <3>2. op # "suspend" => degraded \/ (Quiet /\ Serves(driving, lastError, desired))
      BY <2>1, <2>7, <3>1 DEF Served, Committed
    <3>3. op = "suspend" => degraded
      BY <2>1 DEF Marks
    <3>4. (op = "suspend" <=> suspended)
      BY <1>0, <3>1 DEF Shape
    <3> QED BY <1>0, <1>1, <2>1, <2>7, <3>1, <3>2, <3>3, <3>4, OverServed
  <2> QED BY <2>2, <2>3, <2>4, <2>5, <2>6, <2>7
<1>14. CASE AfterHold \/ AfterUnhold \/ AfterResume
  <2>1. suspended' = suspended /\ step \in {"hold", "unhold", "resume"}
    BY <1>2, <1>14 DEF AfterHold, AfterUnhold, AfterResume
  <2>2. /\ UNCHANGED <<persisted, plan>>
        /\ \/ step' = "write"
           \/ step' \in {"unhold", "sync"} /\ ~moved'
    BY <1>14, <2>1 DEF AfterHold, AfterUnhold, AfterResume, Returns, Marks
  <2>3. op \notin {"idle", "observe", "suspend", "gone"} /\ stage \notin {"none", "reject"}
    BY <1>0, <2>1 DEF Shape
  <2> QED BY <2>1, <2>2, <2>3 DEF Served, Marks, Committed, plan
<1>15. CASE Write
  <2>1. /\ suspended' = suspended /\ step = "write" /\ step' = "switch"
        /\ UNCHANGED <<persisted, plan>>
    BY <1>3, <1>15 DEF Write
  <2>2. op \notin {"idle", "observe", "suspend", "gone"} /\ stage \notin {"none", "reject"}
    BY <1>0, <2>1 DEF Shape
  <2> QED BY <2>1, <2>2 DEF Served, Marks, Committed, plan
<1>16. CASE WriteFails
  <2>1. suspended' = suspended /\ step = "write"
    BY <1>3, <1>16 DEF WriteFails
  <2>2. CASE stage = "safe"
    <3>1. Broken(noted)
      BY <1>16, <2>2 DEF WriteFails
    <3> QED BY <1>0, <1>1, <2>1, <3>1, BrokenServed
  <2>3. CASE stage # "safe"
    <3>1. step' = "resume" /\ UNCHANGED <<persisted, plan>> /\ moved' = FALSE
      BY <1>16, <2>3 DEF WriteFails
    <3>2. op \notin {"idle", "observe", "suspend", "gone"} /\ stage \notin {"none", "reject"}
      BY <1>0, <2>1 DEF Shape
    <3> QED BY <2>1, <3>1, <3>2 DEF Served, Marks, Committed, plan
  <2> QED BY <2>2, <2>3
<1>17. CASE AfterSwitch
  <2>1. suspended' = suspended /\ step = "switch"
    BY <1>2, <1>17 DEF AfterSwitch
  <2>2. CASE stage = "safe"
    <3>1. Broken(noted) \/ Broken(TRUE)
      BY <1>17, <2>2 DEF AfterSwitch
    <3> QED BY <1>0, <1>1, <2>1, <3>1, BrokenServed
  <2>3. CASE stage # "safe"
    <3>1. step' = "sync" /\ UNCHANGED <<persisted, plan>> /\ (moved' => Succeeds)
      BY <1>17, <2>3 DEF AfterSwitch
    <3>2. op \notin {"idle", "observe", "suspend", "gone"} /\ stage \notin {"none", "reject"}
      BY <1>0, <2>1 DEF Shape
    <3>3. Target.mode = "firmware" /\ Target' = Target
      BY <1>0, <2>1, <2>3, <3>1 DEF Shape, Transition, Target, plan
    <3>4. Succeeds => Quiet /\ driving = None
      BY <1>0, <1>4, <2>1 DEF Succeeds, Answered, Told, Releases
    <3>5. moved' => Quiet /\ Serves(driving, lastError, Target)
      BY <3>1, <3>3, <3>4 DEF Serves
    <3> QED BY <1>1, <2>1, <3>1, <3>2, <3>3, <3>5 DEF Served, Marks, Committed, plan
  <2> QED BY <2>2, <2>3
<1>18. CASE AfterSync
  <2>1. suspended' = suspended /\ step = "sync" /\ Target.mode = "firmware"
        /\ stage \in {"try", "undo"} /\ op \in Applies \cup {"release"} /\ ~suspended
    <3>1. suspended' = suspended /\ step = "sync"
      BY <1>2, <1>18 DEF AfterSync
    <3> QED BY <1>0, <3>1 DEF Shape, Transition, Stages, Operations, Applies, Restores
  <2>2. CASE ~moved
    <3>1. \E failed : Broken(failed)
      BY <1>18, <2>2 DEF AfterSync
    <3> QED BY <1>0, <1>1, <2>1, <3>1, BrokenServed
  <2>3. CASE moved
    <3>1. Quiet /\ Serves(driving, lastError, Target)
      BY <2>1, <2>3 DEF Served
    <3>2. /\ moved' = FALSE /\ UNCHANGED <<desired, degraded>>
          /\ IF op = "release" THEN Over ELSE step' = "settle" /\ UNCHANGED plan
      BY <1>18, <2>3 DEF AfterSync
    <3>3. CASE op = "release"
      <4>1. stage = "undo"
        BY <1>0, <2>1, <3>3 DEF Shape, Target, NoRequest
      <4>2. Target = desired
        BY <1>0, <3>3, <4>1 DEF Shape, Target
      <4> QED BY <1>0, <1>1, <2>1, <3>1, <3>2, <3>3, <4>2, OverServed
    <3>4. CASE op # "release"
      <4>1. Target' = Target
        BY <3>2, <3>4 DEF Target, plan
      <4> QED BY <1>1, <2>1, <3>1, <3>2, <3>4, <4>1
              DEF Served, Marks, Committed, plan, Applies, Restores
    <3> QED BY <3>3, <3>4
  <2> QED BY <2>2, <2>3
<1>19. ASSUME FansSet, suspended' = suspended, moved' = moved, step \in {"install", "drop"},
              Quiet, Serves(driving, lastError, Target)
       PROVE  Served' /\ Marks'
  <2>1. stage \in {"try", "undo"} /\ op \in Applies \cup {"release"} /\ ~suspended
    BY <1>0, <1>19 DEF Shape, Stages, Operations, Applies, Restores
  <2>2. CASE op = "release" /\ stage = "undo"
    <3>1. Over /\ UNCHANGED persisted
      BY <1>19, <2>2 DEF FansSet
    <3>2. Target = desired
      BY <1>0, <2>2 DEF Shape, Target
    <3> QED BY <1>0, <1>1, <1>19, <2>1, <2>2, <3>1, <3>2, OverServed DEF persisted
  <2>3. CASE ~(op = "release" /\ stage = "undo")
    <3>1. step' = "settle" /\ UNCHANGED <<persisted, plan>>
      BY <1>19, <2>3 DEF FansSet
    <3>2. Target' = Target
      BY <3>1 DEF Target, plan
    <3> QED BY <1>1, <1>19, <2>1, <3>1, <3>2 DEF Served, Marks, Committed, plan, Applies, Restores
  <2> QED BY <2>2, <2>3
<1>20. CASE AfterInstall
  <2>1. suspended' = suspended /\ step = "install" /\ moved' = moved
    BY <1>2, <1>20 DEF AfterInstall
  <2>2. Target.mode = "direct" /\ TargetPolicy = Target.policy
    BY <1>0, <2>1 DEF Shape, TargetPolicy, NoRequest
  <2>3. CASE Succeeds /\ FansSet
    <3>1. Quiet /\ Serves(driving, lastError, Target)
      BY <1>4, <2>1, <2>2, <2>3 DEF Succeeds, Answered, Installed, Driven, Serves
    <3> QED BY <1>19, <2>1, <2>3, <3>1
  <2>4. CASE step' = "abandon" /\ UNCHANGED <<persisted, plan>>
    <3>1. op \notin {"idle", "observe", "suspend", "gone"} /\ stage \notin {"none", "reject"}
      BY <1>0, <2>1 DEF Shape
    <3> QED BY <2>1, <2>4, <3>1 DEF Served, Marks, Committed, plan
  <2> QED BY <1>20, <2>3, <2>4 DEF AfterInstall
<1>21. CASE AfterAbandon
  <2>1. suspended' = suspended /\ step = "abandon" /\ (Broken(noted) \/ Broken(TRUE))
    BY <1>2, <1>21 DEF AfterAbandon
  <2> QED BY <1>0, <1>1, <2>1, BrokenServed
<1>22. CASE AfterDrop
  <2>1. suspended' = suspended /\ step = "drop" /\ moved' = moved
    BY <1>2, <1>22 DEF AfterDrop
  <2>2. CASE Succeeds /\ FansSet
    <3>1. Quiet /\ driving = None
      BY <1>0, <1>4, <2>1, <2>2 DEF Succeeds, Answered, Told, Releases
    <3>2. Target.mode # "direct"
      BY <1>0, <2>1 DEF Shape
    <3>3. Quiet /\ Serves(driving, lastError, Target)
      BY <3>1, <3>2 DEF Serves
    <3> QED BY <1>19, <2>1, <2>2, <3>3
  <2>3. CASE Broken(TRUE)
    BY <1>0, <1>1, <2>1, <2>3, BrokenServed
  <2> QED BY <1>22, <2>2, <2>3 DEF AfterDrop
<1>23. CASE AfterDisarm
  <2>1. suspended' = suspended /\ step = "disarm" /\ UNCHANGED <<moved, desired>>
    BY <1>2, <1>23 DEF AfterDisarm
  <2>2. op \in {"suspend", "teardown"} \cup Restores /\ (op = "suspend" => suspended)
        /\ (suspended /\ op \in Restores => FALSE)
    BY <1>0, <2>1 DEF Shape, Restores
  <2>3. PICK failed \in BOOLEAN :
          /\ degraded' = (degraded \/ failed)
          /\ failed \/ Succeeds
          /\ CASE op \notin Restores /\ failed -> step' = "observe" /\ UNCHANGED plan
               [] op = "teardown" /\ ~failed -> step' = "stop" /\ UNCHANGED plan
               [] OTHER -> Over
    BY <1>0, <1>23 DEF AfterDisarm
  <2>4. CASE op \in Restores
    <3>1. Over /\ degraded
      BY <2>1, <2>3, <2>4 DEF Marks, Restores
    <3>2. degraded' = TRUE
      BY <2>3, <3>1
    <3> QED BY <1>0, <1>1, <2>1, <2>2, <2>4, <3>1, <3>2, OverServed DEF Restores
  <2>5. CASE op = "teardown"
    <3>1. step' \in {"observe", "stop"} /\ UNCHANGED plan
      BY <2>3, <2>5 DEF Restores
    <3> QED BY <2>1, <2>5, <3>1 DEF Served, Marks, Committed, plan, Applies, Restores
  <2>6. CASE op = "suspend" /\ failed
    <3>1. step' = "observe" /\ UNCHANGED plan /\ degraded' = TRUE
      BY <2>3, <2>6 DEF Restores
    <3> QED BY <2>1, <2>6, <3>1 DEF Served, Marks, Committed, plan, Applies, Restores
  <2>7. CASE op = "suspend" /\ ~failed
    <3>1. Over /\ Succeeds
      BY <2>3, <2>7 DEF Restores
    <3>2. Quiet /\ driving = None
      BY <1>0, <1>4, <2>1, <3>1 DEF Succeeds, Answered, Told, Releases
    <3>3. Quiet /\ Serves(driving, lastError, NoRequest)
      BY <3>2 DEF Serves, NoRequest
    <3> QED BY <1>0, <1>1, <2>1, <2>2, <2>7, <3>1, <3>3, OverServed
  <2> QED BY <2>2, <2>4, <2>5, <2>6, <2>7
<1>24. CASE Stop \/ Join
  <2>1. op = "teardown" /\ op' \in {"teardown", "gone"} /\ step' \in {"join", "none"}
        /\ (op' = "gone" => step' = "none")
    BY <1>0, <1>24 DEF Stop, Join, Shape, Same, plan
  <2> QED BY <2>1 DEF Served, Marks, Committed, Applies, Restores
<1> QED
  BY <1>5, <1>6, <1>7, <1>8, <1>9, <1>10, <1>11, <1>12, <1>13, <1>14, <1>15, <1>16, <1>17,
     <1>18, <1>20, <1>21, <1>22, <1>23, <1>24 DEF Continue

LEMMA ServedBegins ==
  ASSUME FanTypeOK, CallInv, Served, Marks, Begin \/ Send
  PROVE  Served' /\ Marks'
<1>0. Calling /\ Shape /\ queue \in Seq(Commands) /\ Len(queue) \in Nat
  BY LenProperties DEF CallInv, FanTypeOK, OwnerTypeOK
<1>1. CASE Begin
  <2>1. /\ UNCHANGED <<driving, lastError, job, queue, desired, degraded, moved>>
        /\ (Quiet' <=> Quiet)
    BY <1>1 DEF Begin, Apply, ReleaseFans, Observe, Suspend, Resume, Teardown, Start, ownerVars,
       controller, snapshot, thread, channel, persisted, Quiet
  <2>2. CASE Apply
    BY <2>1, <2>2 DEF Apply, Free, Start, Served, Marks, Committed, Applies, Restores
  <2>3. CASE ReleaseFans
    BY <2>1, <2>3 DEF ReleaseFans, Free, Start, Served, Marks, Committed, Applies, Restores
  <2>4. CASE Observe
    BY <2>1, <2>4 DEF Observe, Free, Start, Served, Marks, Committed, Applies, Restores
  <2>5. CASE Suspend \/ Teardown
    BY <2>1, <2>5 DEF Suspend, Teardown, Start, Served, Marks, Committed, Applies, Restores
  <2>6. CASE Resume
    <3>1. op = "idle" /\ suspended
      BY <2>6 DEF Resume
    <3>2. CASE desired = NoRequest
      BY <2>1, <2>6, <3>1, <3>2 DEF Resume, Start, Served, Marks, Committed, Applies, Restores
    <3>3. CASE desired # NoRequest
      BY <2>1, <2>6, <3>1, <3>3 DEF Resume, Start, Served, Marks, Committed, Applies, Restores
    <3> QED BY <3>2, <3>3
  <2> QED BY <1>1, <2>2, <2>3, <2>4, <2>5, <2>6 DEF Begin
<1>2. CASE Send
  <2>1. CommandOf \in Commands
    BY <1>2, TargetTypes DEF FanTypeOK, Send, Calls, CommandOf, Commands, Command
  <2>2. /\ Len(queue') = Len(queue) + 1 /\ queue'[Len(queue')] = CommandOf
        /\ \A i \in 1..Len(queue) : queue'[i] = queue[i]
    BY <1>0, <1>2, <2>1, AppendProperties DEF Send
  <2>3. /\ UNCHANGED <<driving, lastError, job, persisted, suspended, plan, step, moved>>
        /\ step \in Calls
    BY <1>2 DEF Send, controller, snapshot, thread
  <2>4. step \in {"policy", "sync", "observe"} /\ Quiet => Quiet'
    <3> SUFFICES ASSUME step \in {"policy", "sync", "observe"}, Quiet,
                        NEW i \in 1..Len(queue')
                 PROVE  queue'[i].kind \in {"SetPolicy", "Snapshot"}
      BY <2>3 DEF Quiet
    <3>1. CASE i = Len(queue')
      BY <2>2, <3>1, CommandKinds
    <3>2. CASE i # Len(queue')
      BY <1>0, <2>2, <3>2 DEF Quiet
    <3> QED BY <3>1, <3>2
  <2>5. Target' = Target /\ (Committed' <=> Committed)
    BY <2>3 DEF Target, plan, Committed
  <2>6. Committed => step \in {"policy", "sync", "observe"}
    BY <1>0, <2>3 DEF Committed, Shape, Calls, Restores, Applies
  <2>7. op # "idle" /\ step \notin {"settle", "save"}
    BY <1>0, <2>3 DEF Shape, Calls
  <2> QED BY <2>3, <2>4, <2>5, <2>6, <2>7 DEF Served, Marks, persisted, plan
<1> QED BY <1>1, <1>2

(* What late calls left cannot undo what the backend has been told. *)
FollowInv == Installs /\ PolicySent /\ Installed /\ Served /\ Marks

LEMMA FollowInvHolds ==
  ASSUME Room, FanTypeOK, CallInv, FollowInv, [FanNext]_vars
  PROVE  FollowInv'
<1>1. CASE ThreadStep
  <2>2. Marks => Marks'
    BY <1>1 DEF ThreadStep, BackendUnchanged, persisted, plan, Marks
  <2> QED BY <1>1, <2>2, InstallsServed, InstalledServed, ServedServed DEF FollowInv
<1>2. CASE Begin \/ Continue
  <2>2. Installed'
    <3>1. ~answer'.sent
      BY <1>2, NothingTold DEF CallInv
    <3> QED BY <3>1 DEF Installed
  <2> SUFFICES ASSUME Installs, PolicySent, Installed, Served, Marks
               PROVE  Installs' /\ PolicySent' /\ Served' /\ Marks'
    BY <2>2 DEF FollowInv
  <2>3. Installs' /\ PolicySent'
    BY <1>2, InstallsSent, PolicySentSent
  <2>4. Served' /\ Marks'
    BY <1>2, ServedSent, ServedBegins
  <2> QED BY <2>3, <2>4
<1>3. CASE UNCHANGED vars
  <2> USE <1>3 DEF vars, ownerVars, hardware, controller, snapshot, owner, thread, channel,
                   persisted, plan, bounds
  <2>1. TargetPolicy' = TargetPolicy /\ Target' = Target
    BY DEF TargetPolicy, Target
  <2>2. (Installs => Installs') /\ (Marks => Marks')
    BY DEF Installs, InstallUsesItsPolicy, Marks
  <2>3. (PolicySent => PolicySent') /\ (Installed => Installed')
    BY <2>1 DEF PolicySent, Installed, Driven
  <2>4. (Committed' <=> Committed) /\ (Quiet' <=> Quiet)
    BY DEF Committed, Quiet
  <2>5. Served => Served'
    BY <2>1, <2>4 DEF Served
  <2> QED BY <2>2, <2>3, <2>5 DEF FollowInv
<1> QED BY <1>1, <1>2, <1>3 DEF FanNext

LEMMA FollowInvStarts == FanInit => FollowInv
<1> SUFFICES ASSUME FanInit PROVE FollowInv
  OBVIOUS
<1>1. Len(queue) = 0
  BY EmptySeq DEF FanInit, OwnerInit
<1>2. Installs /\ PolicySent /\ Installed /\ Marks
  BY <1>1 DEF FanInit, OwnerInit, Installs, InstallUsesItsPolicy, PolicySent, Installed, NoAnswer,
     Marks
<1>3. Served
  BY <1>1 DEF FanInit, OwnerInit, Served, Committed, Quiet, Serves, NoRequest, Applies, Restores
<1> QED BY <1>2, <1>3 DEF FollowInv

(* Owner::set_policy, Backend::apply: an install runs under the policy of  *)
(* the request that asks for it, and a daemon that reports no degradation  *)
(* has its fans where the committed request wants them, whatever late      *)
(* calls left behind. The channel has six places at least.                 *)
THEOREM FansAreFollowed == ASSUME Capacity >= 6 PROVE FanSpec => []FansFollowRequests
<1>0. Room
  BY DEF Room
<1> DEFINE Inv == CallInv /\ FollowInv
<1>1. FanInit => Inv
  BY CallInvStarts, FollowInvStarts
<1>2. FanTypeOK /\ Inv /\ [FanNext]_vars => Inv'
  BY <1>0, CallInvHolds, FollowInvHolds
<1>3. FanTypeOK /\ Inv => FansFollowRequests
  <2> SUFFICES ASSUME FanTypeOK, CallInv, FollowInv PROVE FansFollowRequests
    OBVIOUS
  <2>1. InstallUsesItsPolicy
    BY DEF FollowInv, Installs
  <2>2. UndegradedIsApplied
    BY DEF FollowInv, Served, Committed, Serves, CallInv, OwnerInv, UndegradedIsApplied, NoRequest
  <2> QED BY <2>1, <2>2 DEF FansFollowRequests
<1> QED BY <1>1, <1>2, <1>3, FanTypesCorrect, PTL DEF FanSpec
=============================================================================
