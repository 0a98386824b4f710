---------------------------- MODULE DirectOwner ----------------------------
(***************************************************************************)
(* The thread that owns the embedded controller while the fans run from a  *)
(* curve: Owner in direct_runtime.rs with the Controller of service.rs in  *)
(* it. Commands reach it through a bounded channel; between two commands   *)
(* it ticks. Every access to the EC or the sensor is a step of its own,    *)
(* and every one of them may fail: a failed mailbox write may or may not   *)
(* have reached the EC.                                                    *)
(*                                                                         *)
(* Temperatures, curves and duties are abstracted away: a tick that the    *)
(* EC accepts leaves the same state. What an install carries is the policy *)
(* (hysteresis and averaging) its request asks for. An operator named      *)
(* Bug... is a mistaken form of the one it precedes; no specification uses *)
(* it.                                                                     *)
(***************************************************************************)
EXTENDS Naturals, Sequences

CONSTANTS
  Policies,     \* fan policies a request may ask for
  Capacity,     \* COMMAND_CAPACITY
  MaxErrors,    \* MAX_CONSECUTIVE_EC_ERRORS
  MaxFaults     \* bound of the model: operations that fail

ASSUME OwnerAssumption ==
  /\ Capacity \in Nat \ {0} /\ MaxErrors \in Nat \ {0} /\ MaxFaults \in Nat

None == "none"
ASSUME NoneIsNoPolicy == None \notin Policies

VARIABLES
  ec,           \* the EC's GlobalMode register
  driving,      \* the policy Controller.curves were installed with, or None
  errors,       \* consecutive_ec_errors
  unreleased,   \* Controller.release_failure
  policy,       \* Owner.policy
  held, enabled, lastError, failure,   \* Owner.snapshot, failure its release_failure
  pending,      \* Owner.release_pending
  released,     \* Owner.released
  at, job,      \* where the thread is, and what for
  wanted,       \* the policy of the install in hand, as its request has it
  stopping,     \* shutdown_requested
  queue,        \* the channel of commands
  waiting,      \* the caller has sent its command and waits for the reply
  answer,       \* the reply, once sent
  faults

hardware   == <<ec, faults>>
controller == <<driving, errors, unreleased>>
snapshot   == <<held, enabled, lastError, failure>>
owner      == <<policy, pending, released>>
thread     == <<at, job, wanted>>
channel    == <<queue, waiting, answer, stopping>>
ownerVars  == <<hardware, controller, snapshot, owner, thread, channel>>

Command(kind) == [kind : {kind}, policy : Policies]
Commands ==
  Command("SetPolicy") \cup Command("InstallPrime")
    \cup [kind : {"Hold", "Resume", "Release", "Snapshot"}]

Answers == [sent : {TRUE}, ok : BOOLEAN, error : BOOLEAN, failure : BOOLEAN]
NoAnswer == [sent |-> FALSE, ok |-> FALSE, error |-> FALSE, failure |-> FALSE]

Places == {"loop", "sense", "duty", "enable", "auto", "release", "gone"}
Jobs == {"none", "tick", "install", "release", "final"}

(* A caller that gave up on an earlier command is past it: only the last   *)
(* command sent can still be waited for.                                   *)
Reply(ok) ==
  answer' = IF waiting /\ queue' = <<>>
            THEN [sent |-> TRUE, ok |-> ok, error |-> lastError', failure |-> failure']
            ELSE answer

MayFail == faults < MaxFaults /\ faults' = faults + 1

OwnerInit ==
  /\ ec = "auto" /\ driving = None /\ errors = 0 /\ unreleased = FALSE
  /\ policy \in Policies
  /\ held = FALSE /\ enabled = FALSE /\ lastError = FALSE /\ failure = FALSE
  /\ pending = FALSE /\ released = TRUE
  /\ at = "loop" /\ job = "none" /\ wanted = None
  /\ stopping = FALSE /\ queue = <<>> /\ waiting = FALSE /\ answer = NoAnswer
  /\ faults = 0

----------------------------------------------------------------------------
(* The loop: the shutdown flag, then the tick, then a command.             *)

Idle == at = "loop" /\ ~stopping

(* tick: a release that failed goes before everything else. *)
BugTickWhileHeld == pending \/ driving # None
BugTickNeverRetries == ~held /\ driving # None

TickDue == pending \/ (~held /\ driving # None)

StartTick ==
  /\ Idle /\ TickDue
  /\ at' = IF pending THEN "release" ELSE "sense"
  /\ job' = "tick"
  /\ UNCHANGED <<hardware, controller, snapshot, owner, wanted, channel>>

Take(kind) ==
  /\ Idle /\ queue # <<>> /\ Head(queue).kind = kind
  /\ queue' = Tail(queue)
  /\ UNCHANGED <<waiting, stopping>>

TakePolicy ==
  /\ Take("SetPolicy")
  /\ policy' = Head(queue).policy
  /\ UNCHANGED <<hardware, controller, snapshot, pending, released, thread>>
  /\ Reply(TRUE)

BugTakeInstall ==
  /\ Take("InstallPrime")
  /\ at' = "enable" /\ job' = "install" /\ wanted' = Head(queue).policy
  /\ UNCHANGED <<hardware, controller, snapshot, owner, answer>>

(* install_and_prime: an enable that fails may still have reached the EC,  *)
(* so nothing is released from here on.                                    *)
TakeInstall ==
  /\ Take("InstallPrime")
  /\ released' = FALSE
  /\ at' = "enable" /\ job' = "install" /\ wanted' = Head(queue).policy
  /\ UNCHANGED <<hardware, controller, snapshot, policy, pending, answer>>

TakeHold ==
  /\ Take("Hold")
  /\ held' = (held \/ driving # None)
  /\ UNCHANGED <<hardware, controller, enabled, lastError, failure, owner, thread>>
  /\ Reply(TRUE)

TakeResume ==
  /\ Take("Resume")
  /\ IF pending
     THEN UNCHANGED <<held, enabled>>
     ELSE held' = FALSE /\ enabled' = (driving # None)
  /\ UNCHANGED <<hardware, controller, lastError, failure, owner, thread>>
  /\ Reply(~pending)

TakeRelease ==
  /\ Take("Release")
  /\ at' = "release" /\ job' = "release"
  /\ UNCHANGED <<hardware, controller, snapshot, owner, wanted, answer>>

TakeSnapshot ==
  /\ Take("Snapshot")
  /\ UNCHANGED <<hardware, controller, snapshot, owner, thread>>
  /\ Reply(TRUE)

TakeCommand ==
  TakePolicy \/ TakeInstall \/ TakeHold \/ TakeResume \/ TakeRelease \/ TakeSnapshot

(* The loop ends: commands still queued are never run. *)
StopOwner ==
  /\ at = "loop" /\ stopping
  /\ at' = "release" /\ job' = "final"
  /\ UNCHANGED <<hardware, controller, snapshot, owner, wanted, channel>>

----------------------------------------------------------------------------
(* Controller: enable, the sensor, the duties, and giving the EC back.     *)

Enabled ==
  /\ at = "enable"
  /\ ec' = "direct" /\ driving' = policy
  /\ errors' = 0 /\ unreleased' = FALSE
  /\ held' = FALSE /\ pending' = FALSE
  /\ at' = "sense"
  /\ UNCHANGED <<faults, enabled, lastError, failure, policy, released, job, wanted, channel>>

(* note_ec_error, up to the release it may ask for. *)
CountError == errors' = errors + 1

(* A failed operation of an install goes on to fail_and_release; one of a  *)
(* tick is noted, and sync_release_failure takes the failure the           *)
(* controller kept of its own release, if there is one.                    *)
TickFailed(kept) ==
  /\ lastError' = TRUE /\ unreleased' = FALSE
  /\ failure' = (failure \/ kept)
  /\ pending' = (pending \/ kept)
  /\ LET gaveBack == driving' = None /\ ~pending'
     IN released' = (released \/ gaveBack) /\ enabled' = (enabled /\ ~gaveBack)
  /\ at' = "loop" /\ job' = "none"
  /\ UNCHANGED <<held, policy, wanted>>

InstallFailed(kept) ==
  /\ unreleased' = kept
  /\ at' = "release"
  /\ UNCHANGED <<snapshot, owner, job, wanted>>

OperationFailed(kept) == IF job = "tick" THEN TickFailed(kept) ELSE InstallFailed(kept)

EnableFails ==
  /\ at = "enable" /\ MayFail
  /\ ec' \in {ec, "direct"}
  /\ CountError
  /\ at' = IF errors' >= MaxErrors THEN "auto" ELSE "release"
  /\ UNCHANGED <<driving, unreleased, snapshot, owner, job, wanted, channel>>

Sensed ==
  /\ at = "sense"
  /\ at' = "duty"
  /\ UNCHANGED <<hardware, controller, snapshot, owner, job, wanted, channel>>

SensorFails ==
  /\ at = "sense" /\ MayFail
  /\ at' = "auto"
  /\ UNCHANGED <<ec, controller, snapshot, owner, job, wanted, channel>>

DutySet ==
  /\ at = "duty"
  /\ errors' = 0
  /\ enabled' = TRUE /\ lastError' = FALSE
  /\ failure' = (failure /\ job # "install")
  /\ at' = "loop" /\ job' = "none" /\ wanted' = None
  /\ UNCHANGED <<hardware, driving, unreleased, held, owner, queue, waiting, stopping>>
  /\ IF job = "install" THEN Reply(TRUE) ELSE UNCHANGED answer

DutyFails ==
  /\ at = "duty" /\ MayFail
  /\ CountError
  /\ UNCHANGED <<ec, driving, channel>>
  /\ IF errors' >= MaxErrors
     THEN at' = "auto" /\ UNCHANGED <<unreleased, snapshot, owner, job, wanted>>
     ELSE OperationFailed(unreleased)

(* Controller::release: the curves go whether or not the EC takes it. *)
GiveBack ==
  /\ ec' = "auto" /\ driving' = None /\ errors' = 0
  /\ UNCHANGED faults

GiveBackFails ==
  /\ MayFail
  /\ ec' \in {ec, "auto"} /\ driving' = None
  /\ UNCHANGED errors

(* ... for the controller's own reasons: sensor_failed, or note_ec_error   *)
(* after MaxErrors failures in a row.                                      *)
AutoRelease ==
  /\ at = "auto"
  /\ \/ GiveBack /\ OperationFailed(FALSE)
     \/ GiveBackFails /\ OperationFailed(TRUE)
  /\ UNCHANGED channel

----------------------------------------------------------------------------
(* Owner::release, on a command, to retry, after a failed install, at the  *)
(* end. It answers the caller when a command asked for it.                 *)

Finish(ok) ==
  /\ at' = IF job = "final" THEN "gone" ELSE "loop"
  /\ job' = "none" /\ wanted' = None
  /\ UNCHANGED <<queue, waiting, stopping>>
  /\ CASE job = "release" -> Reply(ok)
       [] job = "install" -> Reply(FALSE)
       [] OTHER -> UNCHANGED answer

ReleaseSkipped ==
  /\ at = "release" /\ released /\ ~pending
  /\ UNCHANGED <<hardware, controller, snapshot, owner>>
  /\ Finish(TRUE)

MustRelease == at = "release" /\ (~released \/ pending)

Released ==
  /\ MustRelease /\ GiveBack
  /\ released' = TRUE /\ pending' = FALSE /\ unreleased' = FALSE
  /\ enabled' = FALSE /\ held' = FALSE /\ failure' = FALSE
  /\ UNCHANGED <<lastError, policy>>
  /\ Finish(TRUE)

ReleaseFails ==
  /\ MustRelease /\ GiveBackFails
  /\ pending' = TRUE /\ failure' = TRUE /\ unreleased' = TRUE
  /\ UNCHANGED <<released, enabled, held, lastError, policy>>
  /\ Finish(FALSE)

OwnerStep ==
  \/ StartTick \/ TakeCommand \/ StopOwner
  \/ Enabled \/ EnableFails \/ Sensed \/ SensorFails \/ DutySet \/ DutyFails
  \/ AutoRelease \/ ReleaseSkipped \/ Released \/ ReleaseFails

OwnerTypeOK ==
  /\ ec \in {"auto", "direct"} /\ driving \in Policies \cup {None}
  /\ faults \in 0..MaxFaults /\ errors \in 0..faults /\ unreleased \in BOOLEAN
  /\ policy \in Policies
  /\ held \in BOOLEAN /\ enabled \in BOOLEAN /\ lastError \in BOOLEAN /\ failure \in BOOLEAN
  /\ pending \in BOOLEAN /\ released \in BOOLEAN
  /\ at \in Places /\ job \in Jobs /\ wanted \in Policies \cup {None}
  /\ queue \in Seq(Commands) /\ Len(queue) <= Capacity
  /\ waiting \in BOOLEAN /\ answer \in Answers \cup {NoAnswer} /\ stopping \in BOOLEAN
=============================================================================
