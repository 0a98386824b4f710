# Formal model of z13helper

z13helper controls fans, power limits, keyboard light and game controllers of
an ASUS ROG Flow Z13. A privileged daemon, `z13helperd`, owns the hardware; a
GTK application, a command line tool and a Gamescope overlay talk to it over a
Unix socket. This directory holds TLA+ modules of the daemon and of the parts of
the GUI that carry state, TLC instances of them, and proofs checked by TLAPS. Paths below are relative to
`src/` at the root of this tree.

    cd tla
    tlc -workers 2 -config MC_Executor.cfg MC_Executor     # and the other .cfg
    tlapm ExecutorProofs.tla                               # and the other proofs

`PROJECT.json` lists the runs, for every property a mutation of the model that
breaks it, the lines of code each definition stands for, the hazards and the
theorems.

## Inventory

| Component | State it keeps | Operations | What is hard | What makes it correct |
|---|---|---|---|---|
| **Backend executor** (`crates/z13helperd/src/executor.rs`) | admission mode and count, a bounded channel, outcomes by request key, pending events | submit, begin/complete immediate, barriers, drain, shutdown; the owner thread's loop | four locks and a channel, none held across another's use but one; panics; a start that times out | requests run one at a time, at most once, on open hardware; nothing overtakes a barrier; an outcome is true and final |
| **Client threads** (`main.rs` `handle_client`) | one connection, its key, its reply channel | read, check the lifecycle, submit, relay, give up, query | they check the lifecycle and submit later; they give up while the command still runs | a refusal means it never runs |
| **Socket pump** (`main.rs` `main`, `resume.rs`, `wake.rs`) | Lifecycle, latest logind intent, wake pipe | maintenance, sleep signals, events, capture, waiting, leaving | signals that land while a barrier is in flight; lost wake-ups; SIGTERM at any time | the daemon follows logind's last word and leaves with the hardware released |
| **Controller capture** (`main.rs` `CaptureCoordinator`, `input.rs`) | phase, request number, retry instant; the thread's devices and grabs | lease, drive, serve, scan, report | late and stale reports, hot-plug, failing ioctls | never Steam and never a game is left without its controller once capture ends; a wanted capture is reached |
| **Steam suppression** (`steam.rs`, `hidraw.rs`) | the BPF map and the blocker's memory of it | block, unblock, retry | partial failure of a multi-entry update | no process is blocked and forgotten |
| **Direct fan control** (`direct_runtime.rs`, `service.rs`, `ec.rs`, `curve.rs`, `sensors.rs`) | owner thread with a queue of 8, policy, held flag, error count | set, hold, resume, release, tick | a call that timed out still runs; release must be retried | the embedded controller is never left in direct mode unattended |
| **Backend transactions** (`backend.rs`, core `apply.rs`) | desired and observed hardware state, degraded flag | Apply, ReleaseFans, battery, overdrive, lighting, factory query, observe, restore, hot-plug | every step can fail, and so can its rollback | memory, hardware and file are copies of one state, or the daemon says it is degraded; high power only behind fans |
| **Power limits** (`sysfs.rs`) | none | set and verify a table of limits | the BIOS lands its own updates late, and may cap a limit | a limit reported as set stays set |
| **State store** (`state.rs`) | one file | load, save, preserve | failure after publication; foreign or corrupt files | old or new state, never a mixture; nothing precious is overwritten |
| **Configuration file** (core `config.rs`) | one file and its backup | load, save, preserve | crash between write, rename and sync | the last save that was reported is what the next start finds |
| **Wire protocol, client** (core `protocol.rs`, client `client.rs`) | one exchange | request, query, subscribe | connection ends after the request was written | the client repeats only what did not run |
| **Profile application** (GUI `profile_coordinator.rs`, `app.rs`, `power.rs`, `worker.rs`, core `debounce.rs`) | pending and in-flight profile, power source, jobs | select, edit, remove, restore, complete, re-apply | completions out of order, lost answers, daemon restart | the last selection wins, in the daemon and in config.json |
| **Profile editor** (GUI `fans_window.rs`, `curve_editor.rs`, `sync.rs`, core `profile.rs`) | widgets, and the profile they edit | edit, load, restore, add, remove | handlers within handlers; rows that do not list what is set; a restore that ends late | edits target what is shown; nothing but direct mode without curves makes a profile that is refused |
| **Overlay** (GUI `gamescope.rs`, `hud.rs`, `controller.rs`, `subscribe.rs`) | windows, X11 owner, capture lease, notifications | show, hide, open, close, lease, notify | threads that see only the newest snapshot | input goes to one shown window; the lease follows visibility |
| **Curve arithmetic** (core and daemon `curve.rs`, `sensors.rs`, `service.rs`) | a window of samples, a direction, a duty | edit, lock, average, hold, ramp | boundaries, repeated temperatures, late ticks | a protected fan is fast when it is hot |
| Keyboard light reports, layout, CLI, logging | presentation | | | not modelled |

Interactions: client threads, the pump and the owner thread share the executor;
the owner alone calls the backend, which calls the fan owner thread. The pump
drives capture through a datagram socket and gets reports by a channel. Every
producer wakes the pump through one self-pipe. In the GUI one GTK thread owns
all state; one worker thread talks to the daemon, one owns the X11 connection,
one the capture lease and one the notifications, each behind a channel.

## Modules

**SerialBackend** is what the executor promises: requests are accepted, then, in
the order in which they were (`ahead` says whom each waits for), run one at a
time on open hardware or dropped, and the hardware opens and closes between runs.

**Executor** is `executor.rs` with the client threads of `main.rs`. An action is
one critical section, or a stretch of code between two that other threads can
observe: `submit` holds the admission mutex over check, `try_send` and rollback,
so `Submit` is one step, but the registration of the key before it and its
withdrawal after it are steps of their own; the owner receives, releases the
slot, marks the command started, executes, publishes effects, records the
outcome and replies in separate steps. A connection makes one request, so a
connection, its thread, its peer and its command are one identity; `fate` and
`hungUp` are history and environment. Deadlines are nondeterministic. The
payload of commands and responses is abstract: `ExecuteCommand(effect)` may or
may not invalidate subscribers. A panic can strike wherever backend code runs:
at the start (where it looks like a start that fails), in an operation, and in
the release after the last sender is gone.
`SerialSpec` states that the executor implements SerialBackend: `Phase` says how
far a request is, and `Precedes` what it has to wait for, which is whatever is
before it in the channel or was received and not yet started.

**Daemon** extends Executor with the pump, the Lifecycle, the resume watcher and
the signal handlers. It takes every executor action at the thread that takes it
in the program, so a behaviour of the daemon is a behaviour of the executor; this
is a checked property and a theorem. A barrier that `next_barrier` returned is
submitted in a later step (`StartBarrier`), because the two are under different
locks. `wake` is the self-pipe, which `wait_for_work` drains before the sources
are read again; SIGTERM sets the flag and writes the pipe in two steps.

**Capture** is the capture coordinator, the input thread and the BPF blocker.
`drive_capture` is three kinds of steps (request, status, Steam retry) between
which the input thread runs. The coordinator's methods are functions on a
record. Instants are flags: `overdue` for an acknowledgement's deadline,
`waiting` for `retry_at` in the future, `steamDue`, `lease`. The input thread
serves the last request of its socket, scans, drops dead devices and reports,
suppressing repeats. A dead device keeps its grabbed mark until its file is
read, as in the code. `attached`, `PlugController` and `UnplugController` are the kernel; which
processes are Steam's is chosen anew at each block. The number of a request the
socket refused is skipped in the code and reused here, which nobody can observe.
The daemon's lifecycle is the Boolean `active`.

**DirectOwner** is the thread that owns the embedded controller: `Owner` of
`direct_runtime.rs` with the `Controller` of `service.rs` in it. It has no
specification of its own; its step is `OwnerStep`. The thread is a place `at`
and a job: every mailbox write and every sensor reading is a step, and each may
fail, a failed write with or without effect on the EC (`ec.rs` retries a
transaction three times and cannot know). `driving` is the policy the curves
were installed with and stands for `Controller.curves`; temperatures, curves,
averaging and duties are in FanControl, so a tick the EC accepts changes nothing
here.
The thread looks at the shutdown flag, then at the clock, then at the channel.

**FanBackend** is what the backend does with the fans, around DirectOwner: an
operation (`boot`, `apply`, `restore`, `release`, `observe`, `suspend`,
`teardown`) is a chain of calls to the owner and of writes of its own, `step`
being the link it has come to, `stage` whether it is trying the request, undoing
it, or installing a safe fallback. `Target` is the request whose fans are being
set. A call sends (`Send`) if the channel has room and is answered, times out or
is refused; a timed-out command stays in the channel. All that is not fans
(profile, power limits, undervolt, firmware writes, the state file) is a step
that works or fails (Transactions looks inside). A failed restore gives the EC back; a resume ends with an
observation; teardown records a failed release, asks the owner to stop and joins
it. The module is not composed with Executor: there the backend is one action,
and `op = "idle"` here is its owner thread between two operations.

**Transactions** is the rest of `Backend`. The hardware (`hw`), the daemon's
memory (`kept`) and `state.json` (`file`) are three copies, and each write to one
of them is a step that works, fails without effect or fails with it. `First` is
the choice of `apply_request` between lowering power before the fans move and
raising it after; `Goes`, `Ends`, `Target` say where a request, its rollback and
its fallback go. An auxiliary setting is a record `aux` (from, new, back);
`AuxWrite`, `Commit`, `Compensate`, `Repair` and `Note` are the two halves of
`apply_and_commit_auxiliary` and `commit_auxiliary` and what they do when they
fail. Boot and resume run the restores in the code's order, observing where it
does; `Stops` is a crash or a reboot between any two steps, `Forgets` what the
hardware loses by it. Fans are one step here, and power one number.

**PowerLimits** is `Sysfs::set_tdp`. `updates` counts down to the landing of the
BIOS's own update of each limit; `TimePasses` is one sleep of the thread, and an
update may land at any step before it is due. The thread polls once per unit
(250 ms) where the code polls every 25 ms: it looks less often, so it accepts
whatever the code accepts, and more.

**FanControl** has the curves as data: `EnforceCurve`, `HighPowerCurve` and
`DutyAt` are translated as recursive functions over points, the averaging window
as a sequence of aged samples, hysteresis and ramp on whole millidegrees and PWM
steps. Two state machines use them: the editor (`EditCurve`) and the controller
(`Control`: an installation, then ticks whose readings, lateness and EC writes
are free). Both fans are modelled, each with its curve and its duty: a tick serves
them in turn, and the first write that fails ends it, so the second fan may be
passed over with a duty that is known and old (`Behind`). A sample's age only grows towards the front of the window, so dropping
from the front keeps what is younger than the averaging time, as in the code.

**Profiles** is the GTK thread with the coordinator, the delayed commit of edits,
the worker and its client, and the debounced power source. Each GTK handler is
an action on the record `gui`, as each runs to its end on one thread; the worker
takes jobs in order, and an exchange is answered, refused or lost, in which case
the daemon may still run it later (`late`). Two histories weaken what is claimed:
`trust` says how much the last answer told of what the daemon runs, `displaced`
that a commit of the active profile was replaced and nothing was applied since.

**Overlay** is the Gamescope overlay: the windows of the GTK thread, the mailbox
that hands snapshots to the X11 owner and keeps hidden edges that a newer one
would hide, the owner's requests one by one, the capture worker with its lease,
and the notification owner with its bounded wait. What the owner still has to send
is a set of states due to windows (`due`), in three ranks for the three passes of
`apply_snapshot` and by window id within a rank (`Precedes`); `half` says that the
first of a state's two requests is sent.

**ProfileEditor** is the profile editor: `widgets` against `kept`, the profiles.
A handler and those it sets off are one action (GTK runs them nested), its
result what the last of them writes; `Loaded` is a load under SyncGuard, with
the one handler that runs all the same. `picked` (what was last chosen) and
`overtaken` (a restore ended behind an editor that had been elsewhere) are
history. Only the latest restore is followed.

**ConfigFile** is `config.json` with its backup and its preserved copy.
`directories` is what the three names held after each rename since the directory
was last synced: the first is there for sure, the last is what programs see, and
a crash leaves any one of them. Data that was not synced may be torn.

**MC_Fans**, **MC_Backend** and **MC_Desktop** put parts that share no state in one run: a
behaviour moves one part and leaves the others at their start.

An operator called `Bug...` is a mutation of the operator that follows it and is
used by no specification.

## Runs

| Run | Instance | Shows |
|---|---|---|
| `executor` | 2 connections, 2 keys (symmetric), capacity 4 with reserve 2, 1 retained outcome, 1 lifecycle event | barriers, store, outcomes and the refinement of SerialBackend |
| `executor_live` | 2 connections with a key each, capacity 3 | accepted commands settle; shutdown ends with hardware released |
| `daemon` | 1 connection, capacity 3, 2 sleep signals, channel of 1 | lifecycle against admission; no wake signal stranded; refinement of Executor |
| `daemon_live` | no connections, 3 sleep signals, channel of 2 | logind's last word is followed; nothing depends on the poll's time-out |
| `fans` | Four parts. Backend: 2 policies, 4 requests (direct under either, firmware, stock), channel of 8, 2 operations besides restores and observations, 3 failures, 3 late calls. Editor: any of the 3 stock CPU curves for the first fan and one for the second, 2 edits of points 1, 4, 6, 8 of the first or point 1 of the second. Controller: the same curves, locked or not, 2 tunings, 6 ticks 0.5 or 1 s apart, 5 kinds of reading, either fan's write failing. Limits: 3 levels against a range of 2, caps, updates in flight for 5 units, held for 6, 1 fault | direct mode is owned, firmware writes fenced, holds lifted, fans follow the requests or the daemon is degraded; a protected fan is fast; verified limits hold |
| `fans_live` | 1 policy, 3 requests, channel of 1 (so calls are refused too), 1 operation, 2 failures, 2 late calls | failed releases are retried; every operation ends |
| `backend` | Transactions: 4 requests (quiet, high power under direct fans, high power unprotected, power left alone), 2 battery limits, 1 lighting, 2 operations, 2 failures, 1 crash or reboot; any state file. Capture: 2 controllers (symmetric), 2 processes, 2 leases or suspends, 1 plug event, 2 faults, socket of 2 | power after fans, undegraded means true, transactions atomic, file agrees, precious files kept; the coordinator is never stale, always answered, forgets no PID |
| `capture_live` | Capture as above with 1 controller and 1 process | ends released when unwanted, captured when wanted |
| `battery_restore` | one battery limit, one reboot, no failure | a *violation*: the stored limit does not survive (below) |
| `desktop` | Four parts. Profiles: 2 built-in and 1 custom, 3 handlers or power observations, 1 fault. Overlay: main, fans, one dialog and a HUD, 4 showings or hidings, 3 windows in a snapshot. Editor: 2 built-in profiles and a custom one, sliders at 5, 60, 80 and 120 W, 4 strokes. File: 2 changes, 2 failed steps, 2 crashes or restarts, somebody else's write | the settled daemon runs the selection; threads follow the overlay; edits are sound; the configuration survives |
| `editor_restore` | the editor part alone | a *violation*: after a late restore the editor shows what was there before (below) |
| `protection_toggle` | Profiles alone, 4 handlers, no fault | a *violation*: an override of the fan protection that was taken back stays in the daemon (below) |

Why the bounds are enough: the executor's interesting cases are a full count
with work, a barrier and a shutdown queued (capacity 4 holds two of each kind),
an owner between receive and release, two submissions of one key (two
connections), and an eviction (one retained outcome, two completions). The real
sizes differ only in how much work fits, and the theorems hold for all of them.
The pump needs a signal during a suspend, and another during the resume: three
signals. Capture needs a request overtaken by another (two leases or a lease
and a suspend), a device lost or found in between, and a failure during the
recovery from a failure (two faults).

The fans need a failure, a failure of its rollback and a failed release of the EC
(three failures, which is also how many EC errors in a row make the controller
give up), a request that replaces or releases another (two operations), and
commands left in the channel by a call, by its rollback and by what comes next
(three late calls). More late calls with fewer failures were tried beyond the
run (nine with one failure), with the same result.

Transactions need a failure of a step and one of its rollback, and a stop while
the file and the memory differ; two operations are a transaction and one that
meets its remains. Profiles need a selection, a change of it while the first is
in flight, and an edit, removal or power source in between: three handlers, and
one lost answer. The toggle of the protection takes four: on, applied, off, and an
edit of another profile. The editor's deepest case (edit, restore, away and back) is four
strokes. Heat is due an answer after the averaging time and one second: one tick,
or three at the slower tuning. Six show heat after cold after heat, and two
failures of the first fan with the second waiting behind it. The channel of eight
is not filled in `fans`; `HoldsAreLifted` and `FansAreFollowed` are proved for any
number of late calls. The verified limits are proved for all bounds.

Deadlock is checked in every run but those where the program legitimately
stops: see `CHECK_DEADLOCK` in the .cfg files; a finished service, a panicked
owner and a start that failed have no next step.

## Fairness

Weak fairness of the owner thread, the main thread, the pump, the input thread
and client threads that wait for nobody: they are operating system threads that
keep running. The pump's poll time-out is *not* fair: the daemon's liveness is
shown on the wake pipe alone. Nothing obliges clients to connect or hang up,
logind to speak, SIGTERM to arrive or a panic to happen. In Capture, retry
timers elapse and scans come round; nothing makes a lease end or an answer late.
Hardware calls are assumed to return.

In FanBackend both threads run (weak fairness), and the owner's ticks and its
taking of commands are each strongly fair: the loop looks at the clock before
the channel, and after a tick sets the next one after the present, so neither
keeps the other from its turn. A call is bounded by its own time-out, and the
final join only by the owner's progress.

## Proofs

For all values of the constants allowed by the assumptions (`SizesAssumption`:
at least two reserved slots and some room besides; `NamesAssumption`: distinct
names; `CaptureAssumption`; `OwnerAssumption`, `BackendAssumption`;
`PowerLimitsAssumption`: the limits are held at least as long as the BIOS takes;
`TransactionsAssumption`, `ConfigFileAssumption`, `ProfileEditorAssumption`;
`FanControlAssumption`: stored curves are valid, edits are of their points and by
whole degrees and duties, deadbands, averaging times and gaps are natural numbers;
`ProfilesAssumption`: `None` is no profile's id; `OverlayAssumption`: windows have
ids of their own and a snapshot has room for one).
The proofs bound nothing: the caps on events, failures and operations are
constants like the others. The types of the executor, of the fans and of the
transactions are proved and not run. The invariants below were checked by TLC on
the runs' instances before they were proved.

*ExecutorProofs.* The claims about barriers are not inductive. `IInv` adds what
relates the count to the channel and the mode: `Counted` (the count is the
length of the channel, plus one between receive and release), `Bounded` (work
fills at most the unreserved slots), `Cut` (barriers are last in the channel),
`HandCut` and `ModeCut` (what the owner holds and what mode goes with it),
`OpenForWork` (while work is admitted, queued or in hand, the hardware is open),
and the type, key and owner-hand invariants they need. From it:
`TypeCorrect`, `ReserveSuffices`, `OpenWhileWorking`, `BarriersCutTheQueue`.

*StoreProofs.* What becomes of requests. `StoreInv`, over `IInv`, follows both
sides of one: `Story` says of a connection, by the place of its thread and its
command, what has happened to it and what it was told; `Carried` that an entry of
the store has at most one connection behind it, whose place fits the entry;
`Ordered` that the order of completions lists the settled keys once and no more
of them than are retained, so that an eviction takes the oldest settled key and
no other. From it the store agrees with the threads (`StoreAlwaysAgrees`), a
refused request never runs (`RefusalsAreTrue`), outcomes are true and final
(`OutcomesAreTrue`, `OutcomesAreFinal`), and each step of the executor is a step
of SerialBackend or none (`ExecutorIsSerial`): a command moves from accepted to
running to done, one at a time and on open hardware, and leaves the queue only
when nothing accepted before it is left there (`Precedes`).

*DaemonProofs.* Every daemon step is an executor step or leaves the executor
alone; hence `DaemonImplementsExecutor`, and the executor's theorems hold in the
daemon (`DaemonGate`, `DaemonKeepsItsWord`). No fairness is involved. The pump's
own claims need `PumpInv`: while the daemon serves, the owner's mode, the
lifecycle the clients see, the barrier the pump holds or awaits and the
notifications on their way all fit one another, and at most one barrier has not
been heard of. From it `OpenMeansAdmitting` (an open lifecycle is never seen over
a closed gate once the owner has settled), `NobodyIsStranded`, and
`TwoNoticesSuffice`: no lifecycle notification is dropped from a queue of at least
two (`MAX_LIFECYCLE_EVENTS` is 8; with room for one it is false).

*CaptureProofs.* `SteamInv`: the blocker's memory equals the map, and the
coordinator blocks only in phase Captured while desired. Preservation under
`StartDrive` needs that a request is only issued while unblocked. From it
`NoPidForgotten` and `SteamOnlyInCapture`. `ReportInv` numbers the traffic with
the input thread: requests in the socket are in order and newer than what the
thread has served (`Unserved`), reports say what the thread held at their number
(`Truthful`), and what the coordinator takes for current is the newest report or
one is coming (`Heard`). From it `CapturedIsTrue` and `AnswerIsComing`.

*FanProofs.* `FanTypesCorrect` for any policies, requests, capacity and bounds.
`NoOrphanDirectMode` speaks of the owner between two steps of its work and is not
inductive. `OwnerInv` adds the middle: `released` is only up over an EC in
automatic mode with no release due and no work on it begun, so it is down before
an enable is tried; duties are only written while there are curves; a pending
release is a recorded failure. The backend never touches these variables, so
`DirectModeIsOwned` rests on the owner's steps alone, whatever the backend sends.

The other three tie the backend to the owner by `CallInv`: a call that is waited
for is the last command of the channel, or the owner is at work on it, or it is
answered and nothing is queued. An answered Hold therefore found the channel empty
behind it, which is `FirmwareWritesAreFenced`, without further premise.
The firmware write of a compensation that could not undo a release (stage `safe`,
backend.rs:1152) takes no hold in the code and is left out of it.
`HoldsAreLifted` and `FansAreFollowed` are proved for a channel of six places or
more, however many calls time out and run late over the daemon's life, with what
lifts a hold (`Holds`), what lies behind an install (`Installs`) and what the owner
serves (`Served`). `Depth` bounds the channel at every step of an operation: the
policy an apply sets first must be answered, which means that the channel is empty
behind it, and what late calls of the apply and of its rollback leave after it is
at most five commands.
`COMMAND_CAPACITY` is 8. A premise of the kind is needed: both properties are
false of a channel that late commands can fill, as TLC shows with one place.

*TransactionsProofs.* None of the properties is inductive, as each speaks of the
end of an operation. `Types` and `Place` say of which operation a step can be;
`Progress` what the steps of `apply_request` have set when the next is taken, so
that the fans fit the power before it is raised (`PowerFollowsFans`); `Loadable`
that a store that may write has a file that may be replaced (`PreciousIsKept`);
`Owned` and `Degrades` what a transaction has taken over and which steps only a
failure leads to, `InSync` and `Unsaved` that file and memory agree but where an
operation is on its way to a save (`FileAgrees`); `Written` that what is
committed was written and what is taken back was written back
(`ChangesAreAtomic`); and `MatchInv` that the hardware is what is kept of it
wherever no operation is between two states of it, through every rollback,
fallback and restore (`UndegradedIsTrue`).

*ControlProofs.* `LimitsStayVerified` is a race of two clocks: an update the
armoury started lands within `BiosLatency`, and the thread watches the limits
for `Hold`, which is no shorter. `HoldInv` adds to the types that while the
thread holds the limits every update on its way is due before the hold ends
(`DueInTime`), that at the hold's end they agree (`HeldToTheEnd`), and that after
it nothing is on its way (`NoneOnItsWay`). Each sleep brings both clocks one unit
nearer, and a landing during the hold is seen by the reading after it.

`ProtectedFansStayFast` needs the arithmetic first. A recursion along the eight
points is a `CHOOSE`, so each is shown to have a solution by going from point to
point (`ChainUp`, `ChainDown`), and its elements are followed the same way: what
the editor, the vertical shift and the protection make of a valid curve is valid
(`EnforcedIsSound`, `ShiftedIsSound`, `LockedIsSound`), the duty rises with the
temperature (`DutyAtRises`), and that of a protected curve is at least 80 % from
80 °C and full from 90 °C (`LockedAnswers`). Sums of a window are compared by the
first place where a claim about them would fail. Then the invariant, `FanInv`: the
samples that are younger than the heat are hot (`WindowIsHot`), so once the heat
is older than the averaging time the mean is over the limit by the deadband, the
temperature in use is at the limit, and the target at the locked duty; and the
duty has since climbed 255 steps a second towards it, or is there (`DutyIsRising`).
A failed write keeps the time that has passed for the next ramp, which is what
lets the duty catch up (`ClimbKeepsUp`). Of two fans one may wait behind the
other's failing write: it is then behind by the time since both were served
(`Behind`), and `FailuresCount` bounds that by two ticks, since the third failure
releases both.

*DesktopProofs.* Four parts of the GUI, each under its own specification
(`MC_Desktop` runs them side by side). `FileIsKept`: `FileInv` follows a save
through its steps: what is renamed into place was synced (`Whole`), every
directory a crash may leave holds the promised configuration or a later one and
so does the save on its way (`Keeping`), and a file that somebody else wrote is
copied before it is replaced (`Preserves`). `EditorKeepsProfilesSound`:
`EditorInv` adds to `EditsAreSound` the types and that the limits' sliders are
open when the profile has limits of its own; what the sliders do to one another
is `RaisedIsOrdered` and `PushedIsOrdered`. Once a restore has overtaken an
editor that had been elsewhere nothing but the types is left, which is the
second finding below. What is proved of a profile is what save and the daemon
refuse it for: direct mode without curves, which one stroke on a checkbox makes,
and nothing else.

`SelectionIsSettled` is about the end of everything that is under way, and says
nothing while a request, an answer or a commit is outstanding. `ProfilesInv` says
what will then have made it true. At most one apply is under way, in the queue or
among the answers, and it is the one the coordinator waits for (`OneApply`); it is
of the active profile as it is now, or of one whose commit is due (`ApplyFits`), or
it is stale and another will follow it (`Stale`). Where nothing is awaited the
daemon runs the active profile as far as it is known, or a commit is due, or the
answer of a restore or of a reading of the daemon's state is on its way that will
bring the next apply (`Followed`). A restore waiting in the queue is of the active
profile or has the apply of the active one behind it (`RestoresFirst`), which is
why a selection in between cannot lose against it. The file follows the same way
(`Stored`, `SaveDue`). The handlers end in one of two ways: they carry what is due
(`Carries`), or they start or order an apply, which settles whatever was before
(`ReapplySettles`).

`ThreadsAreFollowed` has three parts, of which `LeaseIsFollowed` and
`MessagesAreTaken` are also stated by themselves.
`OverlayInv` says what is still on its way to each: the last visibility in the
capture worker's channel is that of the overlay, and once the channel is empty
the worker has it, or holds a dismissal back that is true (`Informed`); what it
asked for the daemon does, unless a request or the lease was lost (`Leased`); a
message not yet taken has a wake-up coming or finds its owner awake (`Awoken`).
The third part is the X11 owner's. `WindowsFit` keeps the GTK thread's list in
order (each window once, none that is destroyed, the current one open), so that a
snapshot is a picture with one input window (`SnapshotIsPicture`). `OwnerFits`
follows a picture to the X server: a window shown in the owner's picture and not
in the newest is among the hidden edges (`MailboxFits`); what is due leads to the
owner's picture, the last due state of a window being the one it has there
(`LeadsTo`); a window to which nothing is due has what the picture says
(`HasWhatIsShown`); and one that has the input but is not to keep it is due to
lose it in one of the first two passes (`GivesUpFirst`). Input is only given in
the third, when nobody else is left who has it. Lost requests are no exception to
the one-window claims: a connection that failed carries none of the later ones.

*Only model-checked.* All liveness, and with it `ENABLED`; and the mutants: a
proof of the model as it is says nothing of how it could be wrong, which each
property's mutant does. Every invariant a passing run checks is also stated by a
theorem.

## What the work has shown

Three runs find the code at odds with what its documents say:

* `battery_restore`. ARCHITECTURE.md has the stored battery limit restored at
  startup and resume and calls it the normal slider value. Both paths observe
  the hardware first, and an observation takes a valid limit it reads for the
  stored one: where the machine comes up with another limit than it was left
  with, the user's is lost.
* `editor_restore`. A comment of `fans_window.rs` (line 107) wants edits to target
  what the window shows. A restore of the factory defaults that ends after the
  user has gone to another profile and come back replaces the profile without
  loading it: whether the answer is shown depends on the editing epoch, which
  both switches move, and whether it replaces the profile only on its edits. The
  next move of a limit writes the three old sliders back; a choice in the PPD row
  may even leave them out of order with the limits on, which `save` refuses.
  `EditsAreSound` holds where this has not happened (`overtaken`).
* `protection_toggle`. README.md (line 129) has the fans locked at 80 W and above
  unless the override is confirmed. Taking the override back schedules the commit
  of the active profile; an edit of another profile within 200 ms replaces it
  (`schedule_apply`), and applies nothing, since that profile is not the active
  one. The window shows the protection as enabled, config.json has it so, and the
  daemon works without it until the next apply. `SettledIsSelected` states this
  one exception: an override that may be older than the configuration's.

Observations without a run of their own:

* The silence of `request_needed` for a wanted capture in phase ReleasePending
  or Partial (main.rs, `request_needed`) is right only because the control
  socket takes at least two datagrams: with room for one, a release refused just
  after a capture was requested, followed by a change of mind, leaves the
  controllers grabbed and the coordinator in Partial, with no further report to
  come. `CaptureAssumption` states the need; Linux's default queue holds more.
* The lifecycle event queue drops its oldest notification when it is full, and
  the pump never reads the admission mode that the comment there calls
  authoritative. `NoNotificationDropped` shows that the case does not arise,
  since one barrier is in flight at a time and each is drained before the next.
* `HoldIsLifted` depends on `COMMAND_CAPACITY`. A Hold that timed out is undone by
  a Resume sent behind it; were that refused because the channel is full of
  earlier late commands, the owner would stay held with nobody to lift it. With
  eight places this does not happen: the first SetPolicy of an operation must be
  answered, which means that the channel is empty, and the last Resume of the
  operation, in its rollback, is at most the sixth command after it. With four
  places and five late calls TLC finds the owner held for good; `HoldsAreLifted`
  is the proof for six and more.
* After a failed release at teardown the owner is gone and the EC may stay in
  direct mode. `NoOrphanDirectMode` shows that this is the only way, and that the
  failure is then recorded; the next start of the daemon releases the EC first.
* Curves: `enforce_curve` cannot keep temperatures apart where several points
  have been pushed to 110 degrees, and `high_power_curve` may lower duties below
  80 degrees where authored points had to be pulled under the lock. Neither lets
  a protected fan be slower than the lock.
* In a tick a failing write of the first fan keeps the second from its write, and
  the second's old duty still counts as known. `HeatIsAnswered` gives such a fan
  two ticks more, which the third failure in a row ends by releasing both.
* Direct EC control ticked without "Apply custom fan curve" makes a profile that
  `Profile::validate` refuses, so `config.json` is not saved until one of the two
  changes; the daemon refuses to apply it too, unless its power brings protected
  curves (`Unfinished` in ProfileEditor, `EditsAreSound`). A row that does not list the profile's
  PPD profile goes on showing the previous one (`Row`); edits do not read it.
* The daemon's status names a profile by a label that is the same for any two
  custom ones, so after a lost answer the GUI can mistake one for the other
  (`Label`, `trust`). The model takes a request that ran to settle those sent
  before it and lost.
* An apply restarted on a power source not yet confirmed remembers the old
  profile for the new source; a switch of the panel's overdrive in that state,
  if the source bounces back, keeps the policy of the other source.
* A snapshot takes the first `MAX_WINDOWS` of the windows in the order of their
  first showing, popups last. Beyond that the current window may be left out, and
  nothing has the input; with 32 places and a handful of dialogs this does not
  arise, and `InputFollowsTheOverlay` leaves it out of its last claim.
* A sleep signal that logind sends while the resume watcher reconnects (resume.rs)
  is lost, and a daemon that missed a wake signal stays suspended until the next.
  The model has only forwarded signals, and no property speaks of this.
* `state.json` need not have the battery limit or the overdrive that the daemon
  holds: an observation takes the hardware's without saving. `DurableAgrees`
  compares the power request, the one-time charge and the light.
* A successful apply clears `degraded` also where another setting raised it.
* Loading a `config.json` that is not JSON keeps a copy of it and then, by the
  save of the defaults, rotates it over the last good `.bak` as well.

## Not modelled, and the plan

Of the daemon: subscriptions and their broadcast, accepting and counting
connections, translating controller events, finding the Steam family in /proc
and cutting it at 64, the EC mailbox below one transaction, a start-up of the fan
owner that fails or stalls (the daemon then exits without a backend; the
executor's side of it is modelled), status and telemetry, framing and versions
of the wire protocol. Of the GUI: layout, drawing and wording, the sliders of
direct tuning and of the temperature limit (each writes one field), names,
telemetry, the keyboard page, the subscription's reconnects.

The parts of MC_Fans, MC_Backend and MC_Desktop are not composed with each other or with the
executor: where one calls another the model has the callee's outcomes as a free
choice (the daemon in Profiles, the fans in Transactions, the power limits in
FanBackend), and a property of both at once is not stated.

Next would be: subscriptions composed with Daemon and Profiles;
Transactions over FanBackend as a refinement of its one-step fans.

The command line client and logging are left out: they hold no state another
component depends on.
