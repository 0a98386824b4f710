------------------------------ MODULE Capture ------------------------------
(***************************************************************************)
(* Exclusive controller capture: the CaptureCoordinator that the pump      *)
(* drives (main.rs), the input thread that owns the controllers and their  *)
(* EVIOCGRAB (input.rs), and the BPF map that keeps Steam from reading     *)
(* hidraw meanwhile (steam.rs, hidraw.rs).                                 *)
(*                                                                         *)
(* The two threads share a datagram socket of requests and a channel of    *)
(* statuses. Time is a set of flags other actions raise: an instant in the *)
(* future is a flag still down. An operator named Bug... is a mistaken     *)
(* form of the one it precedes; no specification uses it.                  *)
(***************************************************************************)
EXTENDS Integers, FiniteSets, Sequences

CONSTANTS
  Devices,          \* event nodes a controller may have
  Pids,             \* processes the Steam family may hold
  QueueLimit,       \* datagrams the control socket holds (net.unix.max_dgram_qlen)
  MaxFlips,         \* bound of the model: leases granted and suspends
  MaxPlugs,         \* bound of the model: controllers plugged in or out
  MaxCaptureFaults  \* bound of the model: failed system calls and late answers

ASSUME CaptureAssumption ==
  /\ IsFiniteSet(Devices) /\ IsFiniteSet(Pids)
  /\ QueueLimit \in Nat \ {0, 1}
  /\ MaxFlips \in Nat /\ MaxPlugs \in Nat /\ MaxCaptureFaults \in Nat

VARIABLES
  lease,        \* controller_capture_deadline lies in the future
  active,       \* the daemon's lifecycle is Active
  terminate,    \* the flag the signal handler sets
  pumpAt,       \* where the pump is in drive_capture
  leaving,      \* the pump has left its loop
  coord,        \* the CaptureCoordinator
  sent,         \* requests sent, the last one's sequence
  queue,        \* requests in the control socket
  statuses,     \* the channel of CaptureStatus
  steamDue,     \* next_steam_retry has passed
  blocker,      \* SteamBlocker.hidraw: "unset", "ready" or "unavailable"
  believed,     \* HidrawBlocker.blocked
  kernel,       \* the PIDs really in the BPF map
  attached,     \* event nodes that exist
  open,         \* the input thread's devices
  dead,         \* ... those whose file has lost its device
  held,         \* ... those marked grabbed
  capturing, captureSequence, reported,   \* locals of controller_loop
  ready,        \* dead devices the poll in hand has seen, not yet read
  inputAlive,   \* the input thread is running
  flips, plugs, captureFaults

pump   == <<pumpAt, leaving, coord, sent, steamDue>>
steam  == <<blocker, believed, kernel>>
grabs  == <<open, dead, held>>
input  == <<capturing, captureSequence, reported, ready, inputAlive>>
demand == <<lease, active, terminate, flips>>
captureVars == <<demand, pump, queue, statuses, steam, attached, grabs, input, plugs, captureFaults>>

Phases == {"Released", "Enabling", "Captured", "Partial", "ReleasePending", "Releasing"}

(* A coordinator's `overdue` stands for a phase's deadline having passed,  *)
(* its `waiting` for retry_at lying in the future, and its sequence is 0   *)
(* in phase Released, which has none.                                      *)
Coordinators ==
  [desired : BOOLEAN, phase : Phases, sequence : Nat,
   overdue : BOOLEAN, waiting : BOOLEAN, blocked : BOOLEAN]

Statuses == [sequence : Nat, requested : BOOLEAN,
             grabbed : 0..Cardinality(Devices), total : 0..Cardinality(Devices)]

NoStatus == [sequence |-> 0, requested |-> FALSE, grabbed |-> -1, total |-> -1]

WholeCapture(s) == s.requested /\ s.total > 0 /\ s.grabbed = s.total
WholeRelease(s) == ~s.requested /\ s.grabbed = 0

NewCoordinator ==
  [desired |-> FALSE, phase |-> "Released", sequence |-> 0,
   overdue |-> FALSE, waiting |-> FALSE, blocked |-> FALSE]

CaptureInit ==
  /\ lease = FALSE /\ active = TRUE /\ terminate = FALSE
  /\ pumpAt = "top" /\ leaving = FALSE /\ steamDue = TRUE
  /\ coord = NewCoordinator /\ sent = 0
  /\ queue = << >> /\ statuses = << >>
  /\ blocker = "unset" /\ believed = {} /\ kernel = {}
  /\ attached \in SUBSET Devices
  /\ open = {} /\ dead = {} /\ held = {}
  /\ capturing = FALSE /\ captureSequence = 0 /\ reported = NoStatus
  /\ ready = {} /\ inputAlive = TRUE
  /\ flips = 0 /\ plugs = 0 /\ captureFaults = 0

-----------------------------------------------------------------------------
(* The coordinator's methods, as functions of its state. A change of       *)
(* `blocked` is the BpfAction the method returns.                          *)

SetDesired(c, desired) ==
  IF c.desired = desired THEN c
  ELSE [c EXCEPT !.desired = desired, !.waiting = FALSE, !.blocked = desired /\ @]

(* request_needed: the request to issue now, if any. *)
NeededRequest(c) ==
  IF c.waiting THEN {}
  ELSE IF c.desired /\ c.phase = "Released" THEN {TRUE}
  ELSE IF ~c.desired /\ c.phase \notin {"Released", "Releasing"} THEN {FALSE}
  ELSE {}

(* expire: what an overdue acknowledgement makes of the coordinator, and   *)
(* the request that follows.                                               *)
Expiring(c) == c.overdue /\ c.phase \in {"Enabling", "Releasing"}

AfterExpiry(c) ==
  IF Expiring(c) /\ c.phase = "Releasing"
  THEN [c EXCEPT !.phase = "ReleasePending", !.overdue = FALSE, !.waiting = FALSE]
  ELSE c

RequestSent(c, enabled, sequence) ==
  [c EXCEPT !.phase = IF enabled THEN "Enabling" ELSE "Releasing",
            !.sequence = sequence, !.overdue = FALSE, !.waiting = FALSE]

RequestFailed(c, enabled) ==
  IF ~enabled /\ c.phase # "Released"
  THEN [c EXCEPT !.waiting = TRUE, !.phase = "ReleasePending", !.overdue = FALSE]
  ELSE [c EXCEPT !.waiting = TRUE]

BugReceived(c, s) ==
  IF c.phase = "Released" \/ c.sequence # s.sequence THEN c
  ELSE IF c.desired /\ WholeCapture(s)
  THEN [c EXCEPT !.phase = "Captured", !.overdue = FALSE, !.blocked = TRUE]
  ELSE IF WholeRelease(s)
  THEN [c EXCEPT !.phase = "Released", !.sequence = 0, !.overdue = FALSE,
                 !.waiting = FALSE, !.blocked = FALSE]
  ELSE [c EXCEPT !.phase = "Partial", !.overdue = FALSE, !.waiting = ~c.desired]

BugReceivedAny(c, s) ==
  IF c.phase = "Released" THEN c
  ELSE IF c.desired /\ WholeCapture(s)
  THEN [c EXCEPT !.phase = "Captured", !.overdue = FALSE, !.blocked = TRUE]
  ELSE IF WholeRelease(s)
  THEN [c EXCEPT !.phase = "Released", !.sequence = 0, !.overdue = FALSE,
                 !.waiting = FALSE, !.blocked = FALSE]
  ELSE [c EXCEPT !.phase = "Partial", !.overdue = FALSE,
                 !.waiting = ~c.desired, !.blocked = FALSE]

(* status: a report of the request the coordinator is in; others are stale. *)
Received(c, s) ==
  IF c.phase = "Released" \/ c.sequence # s.sequence THEN c
  ELSE IF c.desired /\ WholeCapture(s)
  THEN [c EXCEPT !.phase = "Captured", !.overdue = FALSE, !.blocked = TRUE]
  ELSE IF WholeRelease(s)
  THEN [c EXCEPT !.phase = "Released", !.sequence = 0, !.overdue = FALSE,
                 !.waiting = FALSE, !.blocked = FALSE]
  ELSE [c EXCEPT !.phase = "Partial", !.overdue = FALSE,
                 !.waiting = ~c.desired, !.blocked = FALSE]

BugBpfRetry(c) == IF c.desired /\ c.blocked THEN "Block" ELSE "None"

(* bpf_retry: refresh the block, or clear what a failed unblock left. *)
BpfRetry(c) ==
  IF c.desired /\ c.blocked THEN "Block"
  ELSE IF ~c.blocked /\ blocker = "ready" /\ believed # {} THEN "Unblock"
  ELSE "None"

BpfChange(c, d) ==
  IF c.blocked = d.blocked THEN "None" ELSE IF d.blocked THEN "Block" ELSE "Unblock"

-----------------------------------------------------------------------------
(* The BPF map. *)

Fault == captureFaults < MaxCaptureFaults /\ captureFaults' = captureFaults + 1

BugSyncBlockedPids(target) ==
  \/ \E inserted \in (SUBSET (target \ believed)) \ {target \ believed} :
       \E stuck \in SUBSET inserted :
         Fault /\ believed' = believed /\ kernel' = kernel \cup stuck
  \/ \E stuck \in SUBSET (believed \ target) :
       /\ IF stuck = {} THEN UNCHANGED captureFaults ELSE Fault
       /\ believed' = target \cup stuck
       /\ kernel' = (kernel \cup target) \ (believed \ (target \cup stuck))

(* sync_blocked_pids: a failed insertion undoes those before it, as far as *)
(* it can; removals are best effort. What stays in the map is kept.        *)
SyncBlockedPids(target) ==
  \/ \E inserted \in (SUBSET (target \ believed)) \ {target \ believed} :
       \E stuck \in SUBSET inserted :
         Fault /\ believed' = believed \cup stuck /\ kernel' = kernel \cup stuck
  \/ \E stuck \in SUBSET (believed \ target) :
       /\ IF stuck = {} THEN UNCHANGED captureFaults ELSE Fault
       /\ believed' = target \cup stuck
       /\ kernel' = (kernel \cup target) \ (believed \ (target \cup stuck))

(* SteamBlocker.block sets the blocker up on first use and keeps a failure; *)
(* the Steam family is whatever /proc shows at that moment.                *)
BlockSteam ==
  /\ blocker' \in IF blocker = "unset" THEN {"ready", "unavailable"} ELSE {blocker}
  /\ IF blocker' = "ready" THEN \E family \in SUBSET Pids : SyncBlockedPids(family)
     ELSE UNCHANGED <<believed, kernel, captureFaults>>

UnblockSteam ==
  /\ IF blocker = "ready" THEN SyncBlockedPids({}) ELSE UNCHANGED <<believed, kernel, captureFaults>>
  /\ UNCHANGED blocker

ApplyBpf(action) ==
  \/ action = "None" /\ UNCHANGED <<steam, captureFaults>>
  \/ action = "Block" /\ BlockSteam
  \/ action = "Unblock" /\ UnblockSteam

-----------------------------------------------------------------------------
(* drive_capture, in three steps: the request, the statuses one by one,    *)
(* and the periodic look at the BPF map.                                   *)

(* The socket refuses a datagram when it is full or the input thread has   *)
(* closed its end. The number a refused request would have had is skipped  *)
(* in the program; nobody sees it, and the model uses it for the next. One *)
(* call of drive_capture issues at most one request.                       *)
Issue(c, enabled) ==
  IF inputAlive /\ Len(queue) < QueueLimit
  THEN /\ sent' = sent + 1
       /\ queue' = Append(queue, [sequence |-> sent + 1, enabled |-> enabled])
       /\ coord' = RequestSent(c, enabled, sent + 1)
  ELSE coord' = RequestFailed(c, enabled) /\ UNCHANGED <<sent, queue>>

StartDrive(desired) ==
  LET wanted == SetDesired(coord, desired)
      c      == AfterExpiry(wanted)
  IN /\ pumpAt' = "receiving"
     /\ IF Expiring(wanted)
        THEN Issue(c, FALSE) /\ ApplyBpf(BpfChange(coord, wanted))
        ELSE IF NeededRequest(c) = {}
        THEN coord' = c /\ ApplyBpf(BpfChange(coord, wanted)) /\ UNCHANGED <<sent, queue>>
        ELSE \E enabled \in NeededRequest(c) :
               /\ Issue(c, enabled)
               /\ ApplyBpf(IF enabled THEN BpfChange(coord, wanted) ELSE "Unblock")

DriveCapture ==
  /\ pumpAt = "top"
  /\ StartDrive(active /\ lease)
  /\ UNCHANGED <<demand, leaving, steamDue, statuses, attached, grabs, input, plugs>>

(* PrepareForSleep revokes the lease and drives the release at once. *)
SuspendReleases ==
  /\ pumpAt = "top" /\ active /\ flips < MaxFlips
  /\ active' = FALSE /\ lease' = FALSE /\ flips' = flips + 1
  /\ StartDrive(FALSE)
  /\ UNCHANGED <<terminate, leaving, steamDue, statuses, attached, grabs, input, plugs>>

(* The loop's head looks at terminate; one more drive may already be under *)
(* way when it is set.                                                     *)
Leave ==
  /\ pumpAt \in {"top", "leaving"} /\ terminate
  /\ leaving' = TRUE /\ active' = FALSE
  /\ StartDrive(FALSE)
  /\ UNCHANGED <<lease, terminate, flips, steamDue, statuses, attached, grabs, input, plugs>>

ReceiveStatus ==
  /\ pumpAt = "receiving" /\ statuses # << >>
  /\ coord' = Received(coord, Head(statuses))
  /\ statuses' = Tail(statuses)
  /\ ApplyBpf(BpfChange(coord, coord'))
  /\ steamDue' = (steamDue /\ ~coord'.blocked)
  /\ UNCHANGED <<demand, pumpAt, leaving, sent, queue, attached, grabs, input, plugs>>

RetrySteam ==
  /\ pumpAt = "receiving" /\ statuses = << >>
  /\ pumpAt' = IF leaving THEN "joining" ELSE IF terminate THEN "leaving" ELSE "top"
  /\ LET action == IF steamDue THEN BpfRetry(coord) ELSE "None"
     IN ApplyBpf(action) /\ steamDue' = (steamDue /\ action = "None")
  /\ UNCHANGED <<demand, leaving, coord, sent, queue, statuses, attached, grabs, input, plugs>>

(* stop() joins the input thread; the last unblock and the drop of the     *)
(* blocker detach the BPF program, whatever its map still holds.           *)
Exit ==
  /\ pumpAt = "joining" /\ ~inputAlive
  /\ pumpAt' = "exited" /\ kernel' = {} /\ believed' = {}
  /\ UNCHANGED <<demand, leaving, coord, sent, queue, statuses, steamDue, blocker,
                 attached, grabs, input, plugs, captureFaults>>

Pump == DriveCapture \/ Leave \/ ReceiveStatus \/ RetrySteam \/ Exit

-----------------------------------------------------------------------------
(* The input thread. *)

(* report_status, of the devices left: sent unless it repeats the last. *)
Report(grabbed, opened, sequence, requested) ==
  LET current == [sequence |-> sequence, requested |-> requested,
                  grabbed |-> Cardinality(grabbed), total |-> Cardinality(opened)]
  IN IF current = reported
     THEN UNCHANGED <<reported, statuses>>
     ELSE reported' = current /\ statuses' = Append(statuses, current)

(* reconcile_grabs over the devices opened. EVIOCGRAB fails on a file      *)
(* whose device is gone, and on any other as a fault.                      *)
ReconcileGrabs(opened, requested) ==
  LET wrong == IF requested THEN opened \ held ELSE held
  IN \E failed \in SUBSET wrong :
       /\ wrong \cap dead \subseteq failed
       /\ IF failed \subseteq dead THEN UNCHANGED captureFaults ELSE Fault
       /\ held' = IF requested THEN opened \ failed ELSE failed

BugScanGrabs(opened) == UNCHANGED <<held, captureFaults>>

(* The scan grabs what it found, and retries what a request could not do. *)
ScanGrabs(opened) == ReconcileGrabs(opened, capturing)

(* The periodic scan opens the event nodes it does not know by path.       *)
Scan ==
  /\ inputAlive /\ ready = {}
  /\ open' = open \cup attached
  /\ ScanGrabs(open')
  /\ Report(held', open', captureSequence, capturing)
  /\ UNCHANGED <<demand, pump, queue, steam, attached, dead, capturing, captureSequence,
                 ready, inputAlive, plugs>>

BugTakeRequest == Head(queue)

(* receive_capture_command drains the socket and keeps the last request. *)
TakeRequest == queue[Len(queue)]

(* The poll that wakes for a request also tells which devices are gone:    *)
(* they are read, and dropped, before the next one.                        *)
ServeRequest ==
  /\ inputAlive /\ ready = {} /\ queue # << >>
  /\ captureSequence' = TakeRequest.sequence /\ capturing' = TakeRequest.enabled
  /\ queue' = << >> /\ ready' = dead
  /\ ReconcileGrabs(open, capturing')
  /\ Report(held', open, captureSequence', capturing')
  /\ UNCHANGED <<demand, pump, steam, attached, open, dead, inputAlive, plugs>>

(* Reading a device that is gone fails, and closes it. *)
DropDevices ==
  /\ inputAlive
  /\ \E lost \in (SUBSET dead) \ {{}} :
       /\ ready \subseteq lost
       /\ open' = open \ lost /\ dead' = dead \ lost /\ held' = held \ lost
  /\ Report(held', open', captureSequence, capturing)
  /\ ready' = {}
  /\ UNCHANGED <<demand, pump, queue, steam, attached, capturing, captureSequence,
                 inputAlive, plugs, captureFaults>>

(* On terminate the thread ungrabs and closes everything it has. *)
InputExits ==
  /\ inputAlive /\ terminate /\ ready = {}
  /\ inputAlive' = FALSE /\ queue' = << >> /\ ready' = {}
  /\ open' = {} /\ dead' = {} /\ held' = {}
  /\ UNCHANGED <<demand, pump, statuses, steam, attached, capturing, captureSequence,
                 reported, plugs, captureFaults>>

Input == Scan \/ ServeRequest \/ DropDevices \/ InputExits

-----------------------------------------------------------------------------
(* Clients, logind, the hardware and the clock. *)

(* An overlay's ControllerCapture(true) grants or renews the lease, even   *)
(* one that saw the daemon active and commits once it no longer is...      *)
GrantLease ==
  /\ ~lease /\ flips < MaxFlips
  /\ lease' = TRUE /\ flips' = flips + 1
  /\ UNCHANGED <<active, terminate, pump, queue, statuses, steam, attached, grabs, input,
                 plugs, captureFaults>>

(* ... which is given back, or runs out. *)
EndLease ==
  /\ lease /\ lease' = FALSE
  /\ UNCHANGED <<active, terminate, flips, pump, queue, statuses, steam, attached, grabs,
                 input, plugs, captureFaults>>

ResumeDaemon ==
  /\ pumpAt = "top" /\ ~active
  /\ active' = TRUE
  /\ UNCHANGED <<lease, terminate, flips, pump, queue, statuses, steam, attached, grabs,
                 input, plugs, captureFaults>>

Terminate ==
  /\ ~terminate /\ terminate' = TRUE
  /\ UNCHANGED <<lease, active, flips, pump, queue, statuses, steam, attached, grabs,
                 input, plugs, captureFaults>>

UnplugController(d) ==
  /\ d \in attached /\ plugs < MaxPlugs
  /\ attached' = attached \ {d} /\ dead' = dead \cup ({d} \cap open)
  /\ plugs' = plugs + 1
  /\ UNCHANGED <<demand, pump, queue, statuses, steam, open, held, input, captureFaults>>

PlugController(d) ==
  /\ d \notin attached /\ plugs < MaxPlugs
  /\ attached' = attached \cup {d} /\ plugs' = plugs + 1
  /\ UNCHANGED <<demand, pump, queue, statuses, steam, grabs, input, captureFaults>>

AckOverdue ==
  /\ coord.phase \in {"Enabling", "Releasing"} /\ ~coord.overdue /\ Fault
  /\ coord' = [coord EXCEPT !.overdue = TRUE]
  /\ UNCHANGED <<demand, pumpAt, leaving, sent, steamDue, queue, statuses, steam, attached,
                 grabs, input, plugs>>

RetryElapses ==
  /\ coord.waiting /\ coord' = [coord EXCEPT !.waiting = FALSE]
  /\ UNCHANGED <<demand, pumpAt, leaving, sent, steamDue, queue, statuses, steam, attached,
                 grabs, input, plugs, captureFaults>>

SteamElapses ==
  /\ ~steamDue /\ steamDue' = TRUE
  /\ UNCHANGED <<demand, pumpAt, leaving, coord, sent, queue, statuses, steam, attached,
                 grabs, input, plugs, captureFaults>>

Hardware == \E d \in Devices : PlugController(d) \/ UnplugController(d)

Clock == AckOverdue \/ RetryElapses \/ SteamElapses

Finished == pumpAt = "exited" /\ UNCHANGED captureVars

CaptureNext ==
  \/ Pump \/ SuspendReleases \/ Input \/ Hardware \/ Clock
  \/ GrantLease \/ EndLease \/ ResumeDaemon \/ Terminate \/ Finished

CaptureSpec == CaptureInit /\ [][CaptureNext]_captureVars

(* Both threads keep running, a scan comes round every two seconds, and    *)
(* time passes. Nothing makes a lease end or a request late.               *)
CaptureFairness ==
  /\ WF_captureVars(DriveCapture \/ Leave)
  /\ WF_captureVars(ReceiveStatus \/ RetrySteam) /\ WF_captureVars(Exit)
  /\ WF_captureVars(Scan) /\ WF_captureVars(ServeRequest)
  /\ WF_captureVars(DropDevices) /\ WF_captureVars(InputExits)
  /\ WF_captureVars(RetryElapses) /\ WF_captureVars(SteamElapses)

CaptureFairSpec == CaptureSpec /\ CaptureFairness

-----------------------------------------------------------------------------
(* Properties. *)

(* Steam is kept from its controllers only while capture is wanted and the *)
(* coordinator has every controller: the moment a report, a lapsed lease   *)
(* or a suspend says otherwise, the block is withdrawn (status,            *)
(* release_bpf).                                                           *)
SteamBlockedOnlyWhileCaptured ==
  coord.blocked => coord.desired /\ coord.phase = "Captured"

(* What the coordinator believes is never older than the reports waiting   *)
(* for it: with none waiting, Captured means that the input thread is      *)
(* serving that very request and holds each of at least one device. A      *)
(* stale report, a device the scan finds and cannot grab, or a status      *)
(* suppressed as a repeat would break it.                                  *)
CaptureIsCurrent ==
  (coord.phase = "Captured" /\ statuses = << >> /\ inputAlive) =>
    /\ capturing /\ captureSequence = coord.sequence
    /\ open # {} /\ held = open

(* Whoever waits is answered: in a phase that waits for the input thread,  *)
(* the request is still in its socket or its report is on the way. This is *)
(* why request_needed may leave (desired, ReleasePending) without one.     *)
AckComing ==
  (coord.phase \in {"Enabling", "Releasing", "ReleasePending"} /\ inputAlive) =>
    \/ \E i \in DOMAIN queue : queue[i].sequence = coord.sequence
    \/ \E i \in DOMAIN statuses : statuses[i].sequence = coord.sequence

(* A PID in the BPF map is one the blocker remembers, so that a later call *)
(* removes it, whichever of the map's updates failed (sync_blocked_pids).  *)
NoForgottenPid == kernel \subseteq believed

(* However the lease ended -- given back, run out because the overlay      *)
(* crashed, or revoked by a suspend -- and whatever failed or was late,    *)
(* every controller is given back to the games and Steam is unblocked.     *)
ReleasesWhenUnwanted ==
  <>[](~(lease /\ active)) => <>[](held = {} /\ kernel = {})

(* While an overlay keeps its lease and a controller is plugged in, the    *)
(* daemon ends up with all of them, in spite of late answers, refused      *)
(* grabs and a release it was still waiting for.                           *)
CapturesWhenWanted ==
  <>[](lease /\ active /\ ~terminate /\ attached # {}) =>
    <>[](coord.phase = "Captured" /\ attached = held)
=============================================================================
