---------------------------- MODULE FanBackend -----------------------------
(***************************************************************************)
(* What the daemon's backend does with the fans (backend.rs, apply.rs),    *)
(* composed with the thread that owns the EC (DirectOwner). The backend    *)
(* runs one operation at a time, each a chain of calls to that thread and  *)
(* of writes of its own, with a rollback when a link fails. A call waits   *)
(* for its reply for a bounded time only: the command it leaves behind     *)
(* stays in the channel and runs later.                                    *)
(*                                                                         *)
(* Every other setting of a request (platform profile, power limits,       *)
(* undervolt, the state file) is a step that succeeds or fails.            *)
(***************************************************************************)
EXTENDS DirectOwner

CONSTANTS
  Requests,     \* the requests a client may make: a fan mode and a policy
  MaxOps,       \* bound of the model: operations that change something
  MaxLate       \* bound of the model: calls whose time runs out

(* Direct and firmware run a curve in the EC owner or in the firmware;     *)
(* stock asks for no curve of its own.                                     *)
ASSUME BackendAssumption ==
  /\ Policies # {}
  /\ Requests \subseteq [mode : {"direct", "firmware", "stock"}, policy : Policies]
  /\ MaxOps \in Nat /\ MaxLate \in Nat

VARIABLES
  desired,      \* persisted.desired
  degraded,     \* persisted.state.degraded
  noted,        \* hardware.direct_release_failure is set
  suspended,    \* the system sleeps
  op,           \* the operation in hand
  stage,        \* "try" the request, "undo" it, or what is left after that
  step,         \* the call or the write it has come to
  goal, prior,  \* the request being applied, the one committed before it
  moved,        \* the firmware transition in hand went through
  ops, late

persisted == <<desired, degraded, noted>>
plan      == <<op, stage, goal, prior>>
bounds    == <<ops, late>>
vars == <<ownerVars, persisted, suspended, plan, step, moved, bounds>>

NoRequest == [mode |-> "none", policy |-> None]

(* The daemon restores the request it finds in the state file when it      *)
(* boots, and the committed one when it resumes.                           *)
Restores == {"boot", "restore"}
Applies == {"apply"} \cup Restores
Operations ==
  Applies \cup {"idle", "release", "observe", "suspend", "teardown", "gone"}
Stages == {"none", "try", "undo", "reject", "safe"}
Writes == {"check", "power", "write", "settle", "save", "stop", "join"}
Calls ==
  {"policy", "hold", "unhold", "switch", "resume", "sync", "install", "abandon",
   "drop", "observe", "disarm"}

----------------------------------------------------------------------------
(* DirectRuntime::call                                                     *)

(* The request whose fans are being set, and its policy. *)
Target == IF stage = "try" THEN goal ELSE prior
AnyPolicy == CHOOSE p \in Policies : TRUE
TargetPolicy == IF Target = NoRequest THEN AnyPolicy ELSE Target.policy

CommandOf ==
  CASE step = "policy" -> [kind |-> "SetPolicy", policy |-> TargetPolicy]
    [] step = "install" -> [kind |-> "InstallPrime", policy |-> TargetPolicy]
    [] step = "hold" -> [kind |-> "Hold"]
    [] step \in {"unhold", "resume"} -> [kind |-> "Resume"]
    [] step \in {"switch", "abandon", "drop", "disarm"} -> [kind |-> "Release"]
    [] step \in {"sync", "observe"} -> [kind |-> "Snapshot"]

Send ==
  /\ step \in Calls /\ ~waiting /\ Len(queue) < Capacity
  /\ queue' = Append(queue, CommandOf) /\ waiting' = TRUE
  /\ UNCHANGED <<hardware, controller, snapshot, owner, thread, answer, stopping>>
  /\ UNCHANGED <<persisted, suspended, plan, step, moved, bounds>>

(* The call is over: answered, late, or refused because the channel stayed *)
(* full. Only the first has a reply to read.                               *)
Answered == waiting /\ answer.sent /\ UNCHANGED late
TimedOut == waiting /\ ~answer.sent /\ late < MaxLate /\ late' = late + 1
Refused  == ~waiting /\ Len(queue) = Capacity /\ UNCHANGED late

Succeeds == Answered /\ answer.ok
Fails == TimedOut \/ Refused \/ (Answered /\ ~answer.ok)

Returns(called) ==
  /\ step = called
  /\ waiting' = FALSE /\ answer' = NoAnswer
  /\ UNCHANGED <<hardware, controller, snapshot, owner, thread, queue, stopping>>
  /\ UNCHANGED <<ops, suspended>>

Works(written) == step = written /\ UNCHANGED <<ownerVars, suspended, bounds>>
Breaks(written) ==
  /\ step = written /\ MayFail
  /\ UNCHANGED <<ec, controller, snapshot, owner, thread, channel, suspended, bounds>>

----------------------------------------------------------------------------
(* Where an operation goes next.                                           *)

To(next) == step' = next
Same == UNCHANGED <<persisted, plan, moved>>
Stage(next) == stage' = next /\ UNCHANGED <<op, goal, prior>>

(* A resume ends with an observation. *)
Over ==
  /\ IF op = "restore"
     THEN op' = "observe" /\ step' = "observe"
     ELSE op' = "idle" /\ step' = "none"
  /\ stage' = "none" /\ goal' = NoRequest /\ prior' = NoRequest

(* restore_desired gives the EC back when its apply fails. *)
ApplyFailed(worse) ==
  /\ degraded' = (worse \/ op \in Restores) /\ UNCHANGED desired
  /\ IF op \in Restores THEN To("disarm") /\ UNCHANGED plan ELSE Over

FansOf(r) ==
  CASE r.mode = "direct" -> "install" [] r.mode = "firmware" -> "hold" [] OTHER -> "drop"

(* One link of an apply, its rollback, or a release of the fans broke. *)
Broken(failed) ==
  CASE op \in Applies /\ stage = "try" ->
         /\ To("policy") /\ Stage("undo")
         /\ degraded' = (degraded \/ failed) /\ noted' = FALSE /\ UNCHANGED desired
    [] op \in Applies /\ stage = "undo" ->
         /\ To("observe") /\ Stage("undo")
         /\ degraded' = TRUE /\ noted' = failed /\ UNCHANGED desired
    [] op = "release" /\ stage = "try" ->
         /\ To("policy")
         /\ Stage("safe") \/ (prior # NoRequest /\ prior.mode # "stock" /\ Stage("undo"))
         /\ noted' = failed /\ UNCHANGED <<desired, degraded>>
    [] op = "release" /\ stage = "undo" ->
         /\ To("policy") /\ Stage("safe")
         /\ noted' = failed /\ UNCHANGED <<desired, degraded>>
    [] OTHER -> Over /\ degraded' = TRUE /\ noted' = failed /\ UNCHANGED desired

(* ... or the fans are set. *)
FansSet ==
  IF op = "release" /\ stage = "undo" THEN Over /\ UNCHANGED persisted
  ELSE To("settle") /\ UNCHANGED <<persisted, plan>>

----------------------------------------------------------------------------
(* The operations start.                                                   *)

Free == op = "idle" /\ ~suspended /\ step = "none"

Start(o, s, st) ==
  /\ op' = o /\ stage' = s /\ step' = st
  /\ UNCHANGED <<ownerVars, persisted, moved, late>>

Counted == ops < MaxOps /\ ops' = ops + 1

Apply ==
  /\ Free /\ Counted
  /\ goal' \in Requests /\ prior' = desired
  /\ Start("apply", "try", "policy") /\ UNCHANGED suspended

ReleaseFans ==
  /\ Free /\ Counted
  /\ goal' = NoRequest /\ prior' = desired
  /\ Start("release", "try", "power") /\ UNCHANGED suspended

Observe ==
  /\ Free /\ goal' = NoRequest /\ prior' = NoRequest
  /\ Start("observe", "none", "observe") /\ UNCHANGED <<ops, suspended>>

Suspend ==
  /\ Free /\ Counted /\ goal' = NoRequest /\ prior' = NoRequest
  /\ suspended' = TRUE
  /\ Start("suspend", "none", "disarm")

Resume ==
  /\ op = "idle" /\ suspended /\ suspended' = FALSE
  /\ goal' = desired /\ prior' = desired
  /\ IF desired = NoRequest
     THEN Start("observe", "none", "observe")
     ELSE Start("restore", "try", "check")
  /\ UNCHANGED ops

Teardown ==
  /\ op = "idle" /\ goal' = NoRequest /\ prior' = NoRequest
  /\ Start("teardown", "none", "disarm") /\ UNCHANGED <<ops, suspended>>

----------------------------------------------------------------------------
(* apply and apply_request                                                 *)

(* A request that was committed is validated again before it is restored.  *)
Check == Works("check") /\ To("policy") /\ Same

CheckFails ==
  /\ Breaks("check") /\ ApplyFailed(degraded) /\ UNCHANGED <<noted, moved>>

AfterPolicy ==
  /\ Returns("policy") /\ UNCHANGED <<noted, moved>>
  /\ \/ /\ Succeeds \/ (Fails /\ stage = "undo" /\ op # "release")
        /\ CASE stage = "reject" -> ApplyFailed(degraded)
             [] op = "release" /\ stage = "safe" ->
                  To("write") /\ UNCHANGED <<plan, desired, degraded>>
             [] stage = "undo" /\ prior = NoRequest ->
                  To("observe") /\ degraded' = TRUE /\ UNCHANGED <<plan, desired>>
             [] OTHER -> To("power") /\ UNCHANGED <<plan, desired, degraded>>
     \/ /\ Fails
        /\ CASE stage = "reject" -> ApplyFailed(degraded)
             [] stage = "try" ->
                  Stage("reject") /\ To("policy") /\ UNCHANGED <<desired, degraded>>
             [] op = "release" -> Over /\ degraded' = TRUE /\ UNCHANGED desired
             [] OTHER -> FALSE

(* ppd_set, tdp_set, current_pl1: whatever comes before the fans. *)
Power == Works("power") /\ To(FansOf(Target)) /\ Same
PowerFails == Breaks("power") /\ Broken(noted) /\ UNCHANGED moved

(* ... and after them. apply then takes the request for its own. *)
Settle ==
  /\ Works("settle") /\ UNCHANGED moved
  /\ CASE op = "release" -> To("save") /\ UNCHANGED <<plan, persisted>>
       [] op # "release" /\ stage = "try" ->
            /\ desired' = goal /\ degraded' = noted /\ noted' = FALSE
            /\ To("observe") /\ UNCHANGED plan
       [] OTHER -> To("observe") /\ UNCHANGED <<plan, persisted>>

BugSettleFails == Breaks("settle") /\ ApplyFailed(degraded) /\ UNCHANGED <<noted, moved>>
SettleFails == Breaks("settle") /\ Broken(noted) /\ UNCHANGED moved

Save ==
  /\ Works("save") /\ Over /\ UNCHANGED <<noted, moved>>
  /\ IF op = "release"
     THEN desired' = (IF desired = NoRequest THEN NoRequest ELSE [desired EXCEPT !.mode = "stock"])
          /\ UNCHANGED degraded
     ELSE UNCHANGED <<desired, degraded>>

SaveFails ==
  /\ Breaks("save") /\ UNCHANGED moved
  /\ IF op = "release" THEN Broken(noted)
     ELSE /\ desired' = prior /\ degraded' = TRUE /\ UNCHANGED noted
          /\ Stage("undo") /\ To("policy")

(* observe: a failed release is reported whoever saw it, an error of the   *)
(* owner only while direct control is what is wanted.                      *)
AfterObserve ==
  /\ Returns("observe") /\ UNCHANGED moved
  /\ LET wantsDirect == desired # NoRequest /\ desired.mode = "direct"
         After(worse) ==
           /\ noted' = FALSE
           /\ CASE op \in Applies /\ stage = "try" ->
                     /\ degraded' = (degraded \/ worse) /\ UNCHANGED desired
                     /\ To("save") /\ UNCHANGED plan
                [] op \in Applies /\ stage = "undo" -> ApplyFailed(degraded \/ worse)
                [] op = "teardown" ->
                     /\ degraded' = (degraded \/ worse) /\ UNCHANGED <<desired, plan>>
                     /\ To("stop")
                [] op = "boot" /\ stage = "none" /\ desired # NoRequest ->
                     /\ degraded' = (degraded \/ worse) /\ UNCHANGED <<desired, op>>
                     /\ goal' = desired /\ prior' = desired /\ stage' = "try" /\ To("check")
                [] OTHER -> Over /\ degraded' = (degraded \/ worse) /\ UNCHANGED desired
     IN \/ Succeeds /\ After(noted \/ answer.failure \/ (answer.error /\ wantsDirect))
        \/ Fails /\ After(TRUE)

----------------------------------------------------------------------------
(* firmware_fans_set: fence the owner, write the firmware's curves, then   *)
(* release the EC, or let the owner go on.                                 *)

BugAfterHold ==
  /\ Returns("hold") /\ UNCHANGED <<persisted, plan>>
  /\ \/ Succeeds /\ To("write") /\ UNCHANGED moved
     \/ Fails /\ To("sync") /\ moved' = FALSE

AfterHold ==
  /\ Returns("hold") /\ UNCHANGED <<persisted, plan>>
  /\ \/ Succeeds /\ To("write") /\ UNCHANGED moved
     \/ Fails /\ To("unhold") /\ moved' = FALSE

AfterUnhold ==
  /\ Returns("unhold") /\ Same /\ To("sync")
  /\ Succeeds \/ Fails

Write == Works("write") /\ To("switch") /\ Same

WriteFails ==
  /\ Breaks("write")
  /\ IF stage = "safe" THEN Broken(noted) /\ UNCHANGED moved
     ELSE To("resume") /\ moved' = FALSE /\ UNCHANGED <<persisted, plan>>

AfterSwitch ==
  /\ Returns("switch")
  /\ IF stage = "safe"
     THEN /\ UNCHANGED moved
          /\ \/ Succeeds /\ Broken(noted)
             \/ Fails /\ Broken(TRUE)
     ELSE /\ To("sync") /\ UNCHANGED <<persisted, plan>>
          /\ \/ Succeeds /\ moved' = TRUE
             \/ Fails /\ moved' = FALSE

AfterResume ==
  /\ Returns("resume") /\ Same /\ To("sync")
  /\ Succeeds \/ Fails

AfterSync ==
  /\ Returns("sync")
  /\ LET On(seen) ==
           /\ moved' = FALSE
           /\ IF ~moved THEN Broken(noted \/ seen)
              ELSE /\ noted' = (noted \/ seen) /\ UNCHANGED <<desired, degraded>>
                   /\ IF op = "release" THEN Over ELSE To("settle") /\ UNCHANGED plan
     IN \/ Succeeds /\ On(answer.failure)
        \/ Fails /\ On(FALSE)

----------------------------------------------------------------------------
(* direct_fans_set and release_direct                                      *)

AfterInstall ==
  /\ Returns("install") /\ UNCHANGED moved
  /\ \/ Succeeds /\ FansSet
     \/ Fails /\ To("abandon") /\ UNCHANGED <<persisted, plan>>

AfterAbandon ==
  /\ Returns("abandon") /\ UNCHANGED moved
  /\ \/ Succeeds /\ Broken(noted)
     \/ Fails /\ Broken(TRUE)

AfterDrop ==
  /\ Returns("drop") /\ UNCHANGED moved
  /\ \/ Succeeds /\ FansSet
     \/ Fails /\ Broken(TRUE)

(* Backend::shutdown, on a suspend or at the end, and what restore_desired *)
(* does after it failed.                                                   *)
AfterDisarm ==
  /\ Returns("disarm") /\ UNCHANGED <<moved, desired>>
  /\ LET On(failed) ==
           /\ degraded' = (degraded \/ failed) /\ noted' = FALSE
           /\ CASE op \notin Restores /\ failed -> To("observe") /\ UNCHANGED plan
                [] op = "teardown" /\ ~failed -> To("stop") /\ UNCHANGED plan
                [] OTHER -> Over
     IN \/ Succeeds /\ On(noted)
        \/ Fails /\ On(TRUE)

----------------------------------------------------------------------------
(* Drop for DirectRuntime: ask the owner to stop, wait for it.             *)

BugStop ==
  /\ step = "stop" /\ To("join") /\ Same
  /\ UNCHANGED <<ownerVars, suspended, bounds>>

Stop ==
  /\ step = "stop" /\ stopping' = TRUE
  /\ To("join") /\ Same
  /\ UNCHANGED <<hardware, controller, snapshot, owner, thread, queue, waiting, answer>>
  /\ UNCHANGED <<suspended, bounds>>

Join ==
  /\ step = "join" /\ at = "gone"
  /\ op' = "gone" /\ To("none") /\ UNCHANGED <<stage, goal, prior, persisted, moved>>
  /\ UNCHANGED <<ownerVars, suspended, bounds>>

----------------------------------------------------------------------------
(* Backend::start, the EC released and probed: it observes, then restores  *)
(* what the state file says.                                               *)
FanInit ==
  /\ OwnerInit
  /\ desired \in Requests \cup {NoRequest}
  /\ degraded \in BOOLEAN /\ noted = FALSE
  /\ op = "boot" /\ stage = "none" /\ step = "observe"
  /\ goal = NoRequest /\ prior = NoRequest
  /\ suspended = FALSE /\ moved = FALSE
  /\ ops = 0 /\ late = 0

Begin == Apply \/ ReleaseFans \/ Observe \/ Suspend \/ Resume \/ Teardown

Continue ==
  \/ Send \/ Check \/ CheckFails \/ AfterPolicy \/ Power \/ PowerFails
  \/ Settle \/ SettleFails \/ Save \/ SaveFails \/ AfterObserve
  \/ AfterHold \/ AfterUnhold \/ Write \/ WriteFails \/ AfterSwitch
  \/ AfterResume \/ AfterSync \/ AfterInstall \/ AfterAbandon \/ AfterDrop
  \/ AfterDisarm \/ Stop \/ Join

BackendUnchanged == UNCHANGED <<persisted, suspended, plan, step, moved, bounds>>
ThreadStep == OwnerStep /\ BackendUnchanged

FanNext == Begin \/ Continue \/ ThreadStep

FanSpec == FanInit /\ [][FanNext]_vars

(* Both threads run. The owner's loop looks at the clock before it looks   *)
(* at the channel and sets the next tick after the present one, so neither *)
(* ticks nor commands keep the other from its turn.                        *)
FanFairSpec ==
  /\ FanSpec
  /\ WF_vars(Continue) /\ WF_vars(ThreadStep)
  /\ SF_vars(StartTick /\ BackendUnchanged)
  /\ SF_vars(TakeCommand /\ BackendUnchanged)

----------------------------------------------------------------------------
(* Properties                                                              *)

(* Released fans leave a request of the committed policy and no curve. *)
Committable == Requests \cup [mode : {"stock"}, policy : Policies] \cup {NoRequest}

PlanTypeOK ==
  /\ desired \in Committable /\ goal \in Committable /\ prior \in Committable
  /\ degraded \in BOOLEAN /\ noted \in BOOLEAN /\ suspended \in BOOLEAN /\ moved \in BOOLEAN
  /\ op \in Operations /\ stage \in Stages /\ step \in Calls \cup Writes \cup {"none"}
  /\ ops \in 0..MaxOps /\ late \in 0..MaxLate

(* Every variable keeps to its values; what is in the channel fits it. *)
FanTypeOK == OwnerTypeOK /\ PlanTypeOK

(* Between two steps of its work the owner never leaves the EC in direct   *)
(* mode with nobody driving it: it has curves, or a release it will retry. *)
(* When it is gone only a release that failed can have left the EC so, and *)
(* Owner.released, which skips a release, is never set over a direct EC.   *)
NoOrphanDirectMode ==
  /\ at = "loop" /\ ec = "direct" => driving # None \/ (pending /\ failure)
  /\ at = "gone" /\ ec = "direct" => pending /\ failure
  /\ released /\ ~pending => ec = "auto" /\ driving = None

(* firmware_transition: while the firmware's curves are written, the owner *)
(* neither samples nor writes a duty, whatever was late before.            *)
FirmwareWriteIsFenced ==
  step = "write" /\ stage # "safe" =>
    /\ queue = <<>>
    /\ at \notin {"enable", "sense", "duty", "auto"}
    /\ held \/ driving = None

(* hold_for_firmware: a Hold, even one that runs long after its caller     *)
(* gave up, never stops the ticks for good: outside the transition that    *)
(* asked for it, a command behind it lifts it, or a pending release does.  *)
Lifts(c) == c.kind \in {"Resume", "Release", "InstallPrime"}
InTransition == step \in {"hold", "unhold", "write", "switch", "resume"}
HoldIsLifted ==
  held /\ ~InTransition =>
    \/ pending \/ job \in {"install", "release", "final"} \/ stopping
    \/ \E i \in 1..Len(queue) : Lifts(queue[i])

(* set_fan_policy, restore_committed_fan_policy: an install runs under the *)
(* policy of the request that asks for it, never under one that was        *)
(* rejected or rolled back meanwhile.                                      *)
InstallUsesItsPolicy == at = "enable" => policy = wanted

(* A daemon that reports no degradation has its fans where the committed   *)
(* request wants them: driven with its policy (or lost to an error the     *)
(* next observation reports), else given back (or about to be).            *)
UndegradedIsApplied ==
  op = "idle" /\ ~suspended /\ ~degraded /\ at = "loop" =>
    IF desired # NoRequest /\ desired.mode = "direct"
    THEN driving = desired.policy \/ (driving = None /\ lastError)
    ELSE driving = None /\ (ec = "direct" => pending)

(* The EC owner runs what the backend wants of it, while a request is      *)
(* carried out and after it (Owner::set_policy, Backend::apply).           *)
FansFollowRequests == InstallUsesItsPolicy /\ UndegradedIsApplied

(* A release of the EC that failed is retried until it succeeds. *)
FailedReleaseIsRetried == pending ~> (~pending \/ at = "gone")

(* Every operation of the backend comes to its end, the last one too,      *)
(* which waits for the owner without a bound.                              *)
OperationsEnd == op # "idle" ~> op \in {"idle", "gone"}
=============================================================================
