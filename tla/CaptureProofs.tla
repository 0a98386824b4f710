--------------------------- MODULE CaptureProofs ----------------------------
(***************************************************************************)
(* Controller capture, for any number of controllers and processes, any    *)
(* interleaving and any number of failures. Steam's side: what the blocker *)
(* remembers is what the BPF map holds, and the coordinator blocks Steam   *)
(* only in phase Captured. The input thread's side: requests and reports   *)
(* are numbered so that a coordinator that waits has its answer coming,    *)
(* and one that has heard everything knows what the thread holds.          *)
(***************************************************************************)
EXTENDS Capture, FiniteSetTheorems, SequenceTheorems, TLAPS

(* The invariant. The blocker's memory is exact, which is more than that   *)
(* it forgets no PID; the coordinator's shape is needed for its updates.   *)
Remembered == kernel = believed

Shaped == coord \in Coordinators /\ sent \in Nat

SteamInv == Shaped /\ Remembered /\ SteamBlockedOnlyWhileCaptured

(* However the updates of the map fail, the memory follows it. *)
LEMMA SyncRemembers ==
  ASSUME Remembered, NEW target, SyncBlockedPids(target)
  PROVE  Remembered'
<1>1. CASE \E inserted \in (SUBSET (target \ believed)) \ {target \ believed} :
             \E stuck \in SUBSET inserted :
               Fault /\ believed' = believed \cup stuck /\ kernel' = kernel \cup stuck
  BY <1>1 DEF Remembered
<1>2. CASE \E stuck \in SUBSET (believed \ target) :
             /\ IF stuck = {} THEN UNCHANGED captureFaults ELSE Fault
             /\ believed' = target \cup stuck
             /\ kernel' = (kernel \cup target) \ (believed \ (target \cup stuck))
  <2>1. PICK stuck \in SUBSET (believed \ target) :
          /\ believed' = target \cup stuck
          /\ kernel' = (kernel \cup target) \ (believed \ (target \cup stuck))
    BY <1>2
  <2> QED BY <2>1 DEF Remembered
<1> QED BY <1>1, <1>2 DEF SyncBlockedPids

LEMMA ApplyRemembers ==
  ASSUME Remembered, NEW action, ApplyBpf(action)
  PROVE  Remembered'
<1>1. CASE UNCHANGED <<steam, captureFaults>>
  BY <1>1 DEF steam, Remembered
<1>2. CASE BlockSteam
  <2>1. CASE blocker' = "ready"
    <3>1. PICK family \in SUBSET Pids : SyncBlockedPids(family)
      BY <1>2, <2>1 DEF BlockSteam
    <3> QED BY <3>1, SyncRemembers
  <2>2. CASE blocker' # "ready"
    BY <1>2, <2>2 DEF BlockSteam, Remembered
  <2> QED BY <2>1, <2>2
<1>3. CASE UnblockSteam
  BY <1>3, SyncRemembers DEF UnblockSteam, Remembered
<1> QED BY <1>1, <1>2, <1>3 DEF ApplyBpf

(* The methods of the coordinator keep its shape and the claim. *)
Sound(c) == c \in Coordinators /\ (c.blocked => c.desired /\ c.phase = "Captured")

LEMMA DesireSound ==
  ASSUME NEW c, Sound(c), NEW desired \in BOOLEAN
  PROVE  /\ AfterExpiry(SetDesired(c, desired)) \in Coordinators
         /\ AfterExpiry(SetDesired(c, desired)).blocked =>
              /\ AfterExpiry(SetDesired(c, desired)).desired
              /\ AfterExpiry(SetDesired(c, desired)).phase = "Captured"
         /\ AfterExpiry(SetDesired(c, desired)).phase # "Released" <=> c.phase # "Released"
BY DEF Sound, SetDesired, AfterExpiry, Expiring, Coordinators, Phases

LEMMA IssueSound ==
  ASSUME NEW c, Sound(c), ~c.blocked, sent \in Nat, NEW enabled \in BOOLEAN,
         Issue(c, enabled)
  PROVE  Sound(coord') /\ sent' \in Nat
<1>1. CASE inputAlive /\ Len(queue) < QueueLimit
  <2>1. sent' = sent + 1 /\ coord' = RequestSent(c, enabled, sent + 1)
    BY <1>1 DEF Issue
  <2>2. sent + 1 \in Nat
    OBVIOUS
  <2>3. RequestSent(c, enabled, sent + 1) \in Coordinators
    BY <2>2 DEF RequestSent, Sound, Coordinators, Phases
  <2>4. ~RequestSent(c, enabled, sent + 1).blocked
    BY DEF RequestSent, Sound, Coordinators, Phases
  <2> QED BY <2>1, <2>2, <2>3, <2>4 DEF Sound
<1>2. CASE ~(inputAlive /\ Len(queue) < QueueLimit)
  <2>1. sent' = sent /\ coord' = RequestFailed(c, enabled)
    BY <1>2 DEF Issue
  <2>2. RequestFailed(c, enabled) \in Coordinators
    BY DEF RequestFailed, Sound, Coordinators, Phases
  <2>3. ~RequestFailed(c, enabled).blocked
    BY DEF RequestFailed, Sound, Coordinators, Phases
  <2> QED BY <2>1, <2>2, <2>3 DEF Sound
<1> QED BY <1>1, <1>2

LEMMA ReceivedSound ==
  ASSUME NEW c, Sound(c), NEW s
  PROVE  Sound(Received(c, s))
BY DEF Sound, Received, Coordinators, Phases

(* A drive begins with the request: it is issued only while unblocked. *)
LEMMA StartDriveStep ==
  ASSUME SteamInv, NEW desired \in BOOLEAN, StartDrive(desired)
  PROVE  SteamInv'
<1> DEFINE wanted == SetDesired(coord, desired)
           c      == AfterExpiry(wanted)
<1>1. Sound(coord) /\ sent \in Nat
  BY DEF SteamInv, Shaped, Sound, SteamBlockedOnlyWhileCaptured
<1>2. Sound(c)
  BY <1>1, DesireSound DEF Sound
<1>3. Expiring(wanted) => ~c.blocked
  BY <1>1 DEF Sound, Expiring, SetDesired, AfterExpiry, Coordinators, Phases
<1>4. ASSUME NEW enabled \in NeededRequest(c) PROVE enabled \in BOOLEAN /\ ~c.blocked
  BY <1>2, <1>4 DEF NeededRequest, Sound
<1>5. Remembered'
  BY ApplyRemembers DEF StartDrive, SteamInv
<1>6. Sound(coord') /\ sent' \in Nat
  <2>1. CASE Expiring(wanted)
    BY <1>1, <1>2, <1>3, <2>1, IssueSound DEF StartDrive
  <2>2. CASE ~Expiring(wanted) /\ NeededRequest(c) = {}
    BY <1>1, <1>2, <2>2 DEF StartDrive
  <2>3. CASE ~Expiring(wanted) /\ NeededRequest(c) # {}
    <3>1. PICK enabled \in NeededRequest(c) : Issue(c, enabled)
      BY <2>3 DEF StartDrive
    <3> QED BY <1>1, <1>2, <1>4, <3>1, IssueSound
  <2> QED BY <2>1, <2>2, <2>3
<1> QED BY <1>5, <1>6 DEF SteamInv, Shaped, Sound, SteamBlockedOnlyWhileCaptured

-----------------------------------------------------------------------------
LEMMA PumpStep ==
  ASSUME SteamInv, Pump \/ SuspendReleases, lease \in BOOLEAN, active \in BOOLEAN
  PROVE  SteamInv'
<1>1. CASE DriveCapture
  BY <1>1, StartDriveStep DEF DriveCapture
<1>2. CASE SuspendReleases
  BY <1>2, StartDriveStep DEF SuspendReleases
<1>3. CASE Leave
  BY <1>3, StartDriveStep DEF Leave
<1>4. CASE ReceiveStatus
  <2>1. Sound(coord')
    BY <1>4, ReceivedSound
    DEF ReceiveStatus, SteamInv, Shaped, Sound, SteamBlockedOnlyWhileCaptured
  <2>2. Remembered'
    BY <1>4, ApplyRemembers DEF ReceiveStatus, SteamInv
  <2> QED BY <1>4, <2>1, <2>2
      DEF ReceiveStatus, SteamInv, Shaped, Sound, SteamBlockedOnlyWhileCaptured
<1>5. CASE RetrySteam
  <2>1. Remembered'
    BY <1>5, ApplyRemembers DEF RetrySteam, SteamInv
  <2> QED BY <1>5, <2>1 DEF RetrySteam, SteamInv, Shaped, SteamBlockedOnlyWhileCaptured
<1>6. CASE Exit
  BY <1>6 DEF Exit, SteamInv, Shaped, Remembered, SteamBlockedOnlyWhileCaptured
<1> QED BY <1>1, <1>2, <1>3, <1>4, <1>5, <1>6 DEF Pump

(* Every other step leaves the coordinator and the map alone, but for the  *)
(* flags the clock raises.                                                 *)
LEMMA OtherStep ==
  ASSUME SteamInv,
         \/ Input \/ Hardware \/ Clock \/ GrantLease \/ EndLease \/ ResumeDaemon
         \/ Terminate \/ Finished \/ UNCHANGED captureVars
  PROVE  SteamInv'
<1>1. CASE Clock
  BY <1>1 DEF Clock, AckOverdue, RetryElapses, SteamElapses, steam, SteamInv, Shaped,
     Remembered, SteamBlockedOnlyWhileCaptured, Coordinators, Phases
<1>2. CASE Input
  BY <1>2 DEF Input, Scan, ServeRequest, DropDevices, InputExits, pump, steam, SteamInv,
     Shaped, Remembered, SteamBlockedOnlyWhileCaptured
<1>3. CASE Hardware
  BY <1>3 DEF Hardware, PlugController, UnplugController, pump, steam, SteamInv, Shaped, Remembered,
     SteamBlockedOnlyWhileCaptured
<1>4. CASE GrantLease \/ EndLease \/ ResumeDaemon \/ Terminate
  BY <1>4 DEF GrantLease, EndLease, ResumeDaemon, Terminate, pump, steam, SteamInv, Shaped,
     Remembered, SteamBlockedOnlyWhileCaptured
<1>5. CASE Finished \/ UNCHANGED captureVars
  BY <1>5 DEF Finished, captureVars, pump, steam, SteamInv, Shaped, Remembered,
     SteamBlockedOnlyWhileCaptured
<1> QED BY <1>1, <1>2, <1>3, <1>4, <1>5

(* The wishes the pump reads are Booleans. *)
Wishes == lease \in BOOLEAN /\ active \in BOOLEAN

LEMMA WishStep ==
  ASSUME Wishes, [CaptureNext]_captureVars
  PROVE  Wishes'
BY DEF Wishes, CaptureNext, Pump, DriveCapture, SuspendReleases, Leave, ReceiveStatus,
   RetrySteam, Exit, Input, Scan, ServeRequest, DropDevices, InputExits, Hardware, PlugController,
   UnplugController, Clock, AckOverdue, RetryElapses, SteamElapses, GrantLease, EndLease, ResumeDaemon,
   Terminate, Finished, captureVars, demand

LEMMA SteamInvariance == CaptureSpec => [](SteamInv /\ Wishes)
<1>1. CaptureInit => SteamInv /\ Wishes
  <2>1. NewCoordinator \in Coordinators /\ ~NewCoordinator.blocked
    BY DEF NewCoordinator, Coordinators, Phases
  <2> SUFFICES ASSUME CaptureInit PROVE SteamInv /\ Wishes
    OBVIOUS
  <2>2. coord = NewCoordinator /\ sent = 0 /\ kernel = believed
    BY DEF CaptureInit
  <2>3. Wishes
    BY DEF CaptureInit, Wishes
  <2> QED BY <2>1, <2>2, <2>3 DEF SteamInv, Shaped, Remembered, SteamBlockedOnlyWhileCaptured
<1>2. SteamInv /\ Wishes /\ [CaptureNext]_captureVars => (SteamInv /\ Wishes)'
  <2> SUFFICES ASSUME SteamInv, Wishes, [CaptureNext]_captureVars
               PROVE  SteamInv' /\ Wishes'
    OBVIOUS
  <2>1. Wishes'
    BY WishStep
  <2>2. CASE Pump \/ SuspendReleases
    BY <2>1, <2>2, PumpStep DEF Wishes
  <2>3. CASE ~(Pump \/ SuspendReleases)
    BY <2>1, <2>3, OtherStep DEF CaptureNext
  <2> QED BY <2>1, <2>2, <2>3
<1> QED BY <1>1, <1>2, PTL DEF CaptureSpec

(* No process stays in the BPF map without the blocker knowing that it has *)
(* to remove it.                                                           *)
THEOREM NoPidForgotten == CaptureSpec => []NoForgottenPid
<1>1. SteamInv => NoForgottenPid
  BY DEF SteamInv, Remembered, NoForgottenPid
<1> QED BY <1>1, SteamInvariance, PTL

(* Steam is never kept from its controllers outside a whole capture that   *)
(* is still wanted.                                                        *)
THEOREM SteamOnlyInCapture == CaptureSpec => []SteamBlockedOnlyWhileCaptured
<1>1. SteamInv => SteamBlockedOnlyWhileCaptured
  BY DEF SteamInv
<1> QED BY <1>1, SteamInvariance, PTL

-----------------------------------------------------------------------------
(* Requests and reports. *)

Requests == [sequence : Nat, enabled : BOOLEAN]

Reports == [sequence : Nat, requested : BOOLEAN, grabbed : Nat, total : Nat]

(* What the input thread would report now. *)
Current == [sequence |-> captureSequence, requested |-> capturing,
            grabbed |-> Cardinality(held), total |-> Cardinality(open)]

InputTypes ==
  /\ attached \subseteq Devices /\ open \subseteq Devices /\ held \subseteq open
  /\ capturing \in BOOLEAN /\ captureSequence \in Nat /\ inputAlive \in BOOLEAN
  /\ queue \in Seq(Requests) /\ statuses \in Seq(Reports)

(* The requests in the socket are those the input thread has not served,   *)
(* the last of them the last one sent.                                     *)
Unserved ==
  inputAlive => IF queue = << >> THEN captureSequence = sent
                ELSE captureSequence < sent /\ queue[Len(queue)].sequence = sent

(* What was last reported is what there is, and last in the channel.       *)
Truthful ==
  /\ inputAlive => reported = Current \/ (reported = NoStatus /\ captureSequence = 0)
  /\ inputAlive /\ statuses # << >> => statuses[Len(statuses)] = reported
  /\ \A i \in 1 .. Len(statuses) : statuses[i].sequence <= captureSequence

Awaiting == coord.phase \in {"Enabling", "Releasing", "ReleasePending"}

(* The coordinator is in the last request it sent. It waits for an answer   *)
(* that is on its way; answered, it has heard everything but what is in    *)
(* the channel.                                                            *)
Heard ==
  /\ coord.phase # "Released" => coord.sequence = sent /\ sent > 0
  /\ inputAlive /\ Awaiting /\ queue = << >> =>
       \E i \in 1 .. Len(statuses) : statuses[i].sequence = sent
  /\ inputAlive /\ coord.phase \in {"Captured", "Partial"} => queue = << >>
  /\ inputAlive /\ coord.phase = "Captured" /\ statuses = << >> => WholeCapture(reported)

ReportInv == Shaped /\ InputTypes /\ Unserved /\ Truthful /\ Heard

(* A set and a subset of it that counts the same are one: a report that as  *)
(* many controllers are grabbed as there are means all of them.            *)
LEMMA CountsTell ==
  ASSUME NEW all \in SUBSET Devices, NEW some \in SUBSET all
  PROVE  /\ Cardinality(all) \in Nat /\ Cardinality(some) \in Nat
         /\ Cardinality(all) > 0 => all # {}
         /\ Cardinality(some) = Cardinality(all) => some = all
<1>1. IsFiniteSet(all) /\ IsFiniteSet(some)
  BY CaptureAssumption, FS_Subset
<1> QED BY <1>1, FS_CardinalityType, FS_EmptySet, FS_Subset

LEMMA WholeMeansAll ==
  ASSUME InputTypes, WholeCapture(Current)
  PROVE  capturing /\ open # {} /\ held = open
BY CountsTell DEF InputTypes, WholeCapture, Current

(* report_status leaves the last report equal to what there is, and last in *)
(* the channel; one it suppresses was already there.                       *)
LEMMA ReportEffect ==
  ASSUME statuses \in Seq(Reports), Current' \in Reports,
         Report(held', open', captureSequence', capturing')
  PROVE  /\ reported' = Current' /\ statuses' \in Seq(Reports)
         /\ \/ UNCHANGED <<reported, statuses>>
            \/ /\ Len(statuses') = Len(statuses) + 1 /\ Len(statuses) \in Nat
               /\ statuses'[Len(statuses) + 1] = Current'
               /\ \A i \in 1 .. Len(statuses) : statuses'[i] = statuses[i]
<1>1. IF Current' = reported THEN UNCHANGED <<reported, statuses>>
      ELSE reported' = Current' /\ statuses' = Append(statuses, Current')
  BY DEF Report, Current
<1>2. CASE Current' = reported
  BY <1>1, <1>2
<1>3. CASE Current' # reported
  BY <1>1, <1>3, AppendProperties, LenProperties
<1> QED BY <1>2, <1>3

(* What a drive does to the coordinator: it sends a request and waits for   *)
(* that one; or leaves things as they are; or, unable to send, waits to    *)
(* release with a request still in the socket.                             *)
LEMMA DriveOutcome ==
  ASSUME coord \in Coordinators, NEW desired \in BOOLEAN, StartDrive(desired)
  PROVE  \/ /\ sent' = sent + 1 /\ coord'.phase \in {"Enabling", "Releasing"}
            /\ coord'.sequence = sent + 1
            /\ \E enabled \in BOOLEAN :
                 queue' = Append(queue, [sequence |-> sent + 1, enabled |-> enabled])
         \/ /\ UNCHANGED <<sent, queue>>
            /\ coord'.phase = coord.phase /\ coord'.sequence = coord.sequence
         \/ /\ UNCHANGED <<sent, queue>> /\ coord.phase # "Released"
            /\ coord'.phase = "ReleasePending" /\ coord'.sequence = coord.sequence
            /\ inputAlive => ~(Len(queue) < QueueLimit)
<1> DEFINE wanted == SetDesired(coord, desired)
           c      == AfterExpiry(wanted)
<1>1. /\ wanted \in Coordinators /\ wanted.phase = coord.phase /\ wanted.sequence = coord.sequence
  BY DEF SetDesired, Coordinators, Phases
<1>2. /\ c \in Coordinators /\ c.sequence = coord.sequence
      /\ c.phase = "Released" <=> coord.phase = "Released"
      /\ ~Expiring(wanted) => c = wanted
      /\ Expiring(wanted) => c.phase # "Released"
  BY <1>1 DEF AfterExpiry, Expiring, Coordinators, Phases
<1> HIDE DEF c, wanted
<1>3. \/ Issue(c, FALSE) /\ c.phase # "Released"
      \/ Issue(c, TRUE) /\ c.phase = "Released"
      \/ coord' = c /\ c.phase = coord.phase /\ UNCHANGED <<sent, queue>>
  <2>1. CASE Expiring(wanted)
    BY <1>2, <2>1 DEF StartDrive, wanted, c
  <2>2. CASE ~Expiring(wanted) /\ NeededRequest(c) = {}
    BY <1>1, <1>2, <2>2 DEF StartDrive, wanted, c
  <2>3. CASE ~Expiring(wanted) /\ NeededRequest(c) # {}
    <3>1. PICK enabled \in NeededRequest(c) : Issue(c, enabled)
      BY <2>3 DEF StartDrive, wanted, c
    <3>2. \/ enabled = TRUE /\ c.phase = "Released"
          \/ enabled = FALSE /\ c.phase # "Released"
      BY <3>1 DEF NeededRequest
    <3> QED BY <3>1, <3>2
  <2> QED BY <2>1, <2>2, <2>3
<1>4. ASSUME NEW enabled \in BOOLEAN, Issue(c, enabled), enabled <=> c.phase = "Released"
      PROVE  \/ /\ sent' = sent + 1 /\ coord'.phase \in {"Enabling", "Releasing"}
                /\ coord'.sequence = sent + 1
                /\ queue' = Append(queue, [sequence |-> sent + 1, enabled |-> enabled])
             \/ /\ UNCHANGED <<sent, queue>>
                /\ coord'.phase = coord.phase /\ coord'.sequence = coord.sequence
             \/ /\ UNCHANGED <<sent, queue>> /\ coord.phase # "Released"
                /\ coord'.phase = "ReleasePending" /\ coord'.sequence = coord.sequence
                /\ inputAlive => ~(Len(queue) < QueueLimit)
  <2>1. CASE inputAlive /\ Len(queue) < QueueLimit
    BY <1>2, <1>4, <2>1 DEF Issue, RequestSent, Coordinators
  <2>2. CASE ~(inputAlive /\ Len(queue) < QueueLimit)
    BY <1>2, <1>4, <2>2 DEF Issue, RequestFailed, Coordinators
  <2> QED BY <2>1, <2>2
<1>5. CASE Issue(c, FALSE) /\ c.phase # "Released"
  BY <1>4, <1>5
<1>6. CASE Issue(c, TRUE) /\ c.phase = "Released"
  BY <1>4, <1>6
<1> QED BY <1>2, <1>3, <1>5, <1>6

(* A drive keeps the requests and the reports in step. *)
LEMMA DriveReports ==
  ASSUME ReportInv, Shaped', NEW desired \in BOOLEAN, StartDrive(desired),
         UNCHANGED <<statuses, attached, grabs, input>>
  PROVE  ReportInv'
<1>1. /\ coord \in Coordinators /\ sent \in Nat /\ queue \in Seq(Requests) /\ captureSequence \in Nat
      /\ UNCHANGED <<statuses, attached, open, held, capturing, captureSequence, reported, inputAlive>>
  BY DEF ReportInv, Shaped, InputTypes, grabs, input
<1>2. Truthful' /\ UNCHANGED Current
  BY <1>1 DEF ReportInv, Truthful, Current
<1>3. CASE \E enabled \in BOOLEAN :
             /\ sent' = sent + 1 /\ coord'.phase \in {"Enabling", "Releasing"}
             /\ coord'.sequence = sent + 1
             /\ queue' = Append(queue, [sequence |-> sent + 1, enabled |-> enabled])
  <2>1. PICK enabled \in BOOLEAN :
          /\ sent' = sent + 1 /\ coord'.phase \in {"Enabling", "Releasing"}
          /\ coord'.sequence = sent + 1
          /\ queue' = Append(queue, [sequence |-> sent + 1, enabled |-> enabled])
    BY <1>3
  <2>2. [sequence |-> sent + 1, enabled |-> enabled] \in Requests
    BY <1>1 DEF Requests
  <2>3. /\ queue' \in Seq(Requests) /\ Len(queue') = Len(queue) + 1 /\ Len(queue) \in Nat
        /\ queue'[Len(queue')].sequence = sent + 1
    BY <1>1, <2>1, <2>2, AppendProperties, LenProperties
  <2>4. queue' # << >>
    BY <2>3, EmptySeq
  <2>5. inputAlive => captureSequence < sent + 1
    BY <1>1 DEF ReportInv, Unserved
  <2>6. InputTypes' /\ Unserved'
    BY <1>1, <2>1, <2>3, <2>4, <2>5 DEF ReportInv, InputTypes, Unserved
  <2>7. Heard'
    BY <1>1, <2>1, <2>4 DEF Heard, Awaiting
  <2> QED BY <1>2, <2>6, <2>7 DEF ReportInv
<1>4. CASE /\ UNCHANGED <<sent, queue>>
           /\ coord'.phase = coord.phase /\ coord'.sequence = coord.sequence
  BY <1>1, <1>2, <1>4 DEF ReportInv, InputTypes, Unserved, Heard, Awaiting
<1>5. CASE /\ UNCHANGED <<sent, queue>> /\ coord.phase # "Released"
           /\ coord'.phase = "ReleasePending" /\ coord'.sequence = coord.sequence
           /\ inputAlive => ~(Len(queue) < QueueLimit)
  <2>1. inputAlive => queue # << >>
    BY <1>5, EmptySeq, CaptureAssumption
  <2> QED BY <1>1, <1>2, <1>5, <2>1 DEF ReportInv, InputTypes, Unserved, Heard, Awaiting
<1> QED BY <1>1, <1>3, <1>4, <1>5, DriveOutcome

(* The pump hears the oldest report. *)
LEMMA ReceiveReports ==
  ASSUME ReportInv, Shaped', ReceiveStatus
  PROVE  ReportInv'
<1> DEFINE n == Len(statuses)
           s == Head(statuses)
<1>1. /\ coord \in Coordinators /\ sent \in Nat /\ captureSequence \in Nat
      /\ UNCHANGED <<sent, queue, attached, open, held, capturing, captureSequence, reported, inputAlive>>
      /\ coord' = Received(coord, s)
  BY DEF ReceiveStatus, ReportInv, Shaped, InputTypes, grabs, input
<1>2. /\ n \in Nat \ {0} /\ s = statuses[1] /\ s \in Reports /\ 1 \in 1 .. n
      /\ statuses' \in Seq(Reports) /\ Len(statuses') = n - 1
      /\ \A i \in 1 .. n - 1 : statuses'[i] = statuses[i + 1]
      /\ statuses' = << >> => n = 1
  <2>1. statuses \in Seq(Reports) /\ statuses # << >> /\ statuses' = Tail(statuses)
    BY DEF ReceiveStatus, ReportInv, InputTypes
  <2>2. n \in Nat \ {0}
    BY <2>1, EmptySeq, LenProperties
  <2>3. /\ s = statuses[1] /\ s \in Reports
        /\ statuses' \in Seq(Reports) /\ Len(statuses') = n - 1
        /\ \A i \in 1 .. n - 1 : statuses'[i] = statuses[i + 1]
    BY <2>1, HeadTailProperties
  <2>4. statuses' = << >> => n = 1
    BY <2>2, <2>3, EmptySeq
  <2> QED BY <2>2, <2>3, <2>4
<1>3. InputTypes' /\ Unserved' /\ UNCHANGED Current
  BY <1>1, <1>2 DEF ReportInv, InputTypes, Unserved, Current
<1>4. Truthful'
  <2>1. inputAlive => statuses[n] = reported
    BY <1>2, EmptySeq DEF ReportInv, Truthful
  <2>2. statuses' # << >> => n > 1 /\ statuses'[Len(statuses')] = statuses[n]
    BY <1>2, EmptySeq
  <2>3. \A i \in 1 .. n - 1 : statuses'[i].sequence <= captureSequence
    BY <1>2 DEF ReportInv, Truthful
  <2> QED BY <1>1, <1>2, <1>3, <2>1, <2>2, <2>3 DEF ReportInv, Truthful
<1>5. s.sequence <= captureSequence /\ s.sequence \in Nat
  BY <1>2 DEF ReportInv, Truthful, Reports
<1>6. CASE coord.phase = "Released" \/ coord.sequence # s.sequence
  <2>1. coord' = coord
    BY <1>1, <1>6 DEF Received
  <2>2. ASSUME NEW i \in 1 .. n, statuses[i].sequence = sent, coord.phase # "Released"
        PROVE  \E j \in 1 .. Len(statuses') : statuses'[j].sequence = sent
    <3>1. i # 1
      BY <1>2, <1>6, <2>2 DEF ReportInv, Heard
    <3>2. i - 1 \in 1 .. Len(statuses') /\ statuses'[i - 1] = statuses[i]
      BY <1>2, <3>1
    <3> QED BY <2>2, <3>2
  <2>3. ~(inputAlive /\ coord.phase = "Captured" /\ statuses' = << >>)
    <3> SUFFICES ASSUME inputAlive, coord.phase = "Captured", statuses' = << >>
                 PROVE  FALSE
      OBVIOUS
    <3>1. captureSequence = sent /\ sent > 0 /\ coord.sequence = sent
      BY DEF ReportInv, Heard, Unserved
    <3>2. s = reported /\ reported = Current
      <4>1. statuses # << >> /\ n = 1
        BY <1>2, EmptySeq
      <4> QED BY <1>2, <3>1, <4>1 DEF ReportInv, Truthful
    <3> QED BY <1>6, <3>1, <3>2 DEF Current
  <2>4. Heard'
    BY <1>1, <2>1, <2>2, <2>3 DEF ReportInv, Heard, Awaiting
  <2> QED BY <1>3, <1>4, <2>4 DEF ReportInv
<1>7. CASE coord.phase # "Released" /\ coord.sequence = s.sequence
  <2>1. /\ coord'.phase \in {"Captured", "Released", "Partial"}
        /\ coord'.phase = "Captured" => WholeCapture(s)
        /\ coord'.phase # "Released" => coord'.sequence = coord.sequence
    BY <1>1, <1>7 DEF Received, Coordinators
  <2>2. coord.sequence = sent /\ sent > 0
    BY <1>7 DEF ReportInv, Heard
  <2>3. inputAlive => queue = << >>
    BY <1>1, <1>5, <1>7, <2>2 DEF ReportInv, Unserved
  <2>4. inputAlive /\ statuses' = << >> => s = reported
    BY <1>2, EmptySeq DEF ReportInv, Truthful
  <2>5. Heard'
    BY <1>1, <2>1, <2>2, <2>3, <2>4 DEF Heard, Awaiting
  <2> QED BY <1>3, <1>4, <2>5 DEF ReportInv
<1> QED BY <1>6, <1>7

(* A report under the request already served adds to what was said ... *)
LEMMA SameRequest ==
  ASSUME ReportInv, Shaped', inputAlive,
         open' \subseteq Devices, held' \subseteq open',
         UNCHANGED <<coord, sent, queue, attached, capturing, captureSequence, inputAlive>>,
         Report(held', open', captureSequence', capturing')
  PROVE  ReportInv'
<1> DEFINE n == Len(statuses)
<1>1. statuses \in Seq(Reports) /\ n \in Nat /\ captureSequence \in Nat /\ Current' \in Reports
  <2>1. statuses \in Seq(Reports) /\ captureSequence \in Nat /\ capturing \in BOOLEAN
    BY DEF ReportInv, InputTypes
  <2>2. Current' \in Reports
    BY <2>1, CountsTell DEF Current, Reports
  <2> QED BY <2>1, <2>2, LenProperties
<1>2. /\ reported' = Current' /\ statuses' \in Seq(Reports)
      /\ \/ UNCHANGED <<reported, statuses>>
         \/ /\ Len(statuses') = n + 1 /\ statuses'[n + 1] = Current'
            /\ \A i \in 1 .. n : statuses'[i] = statuses[i]
  BY <1>1, ReportEffect
<1>3. InputTypes' /\ Unserved'
  BY <1>2 DEF ReportInv, InputTypes, Unserved
<1>4. CASE UNCHANGED <<reported, statuses>>
  BY <1>2, <1>3, <1>4 DEF ReportInv, Truthful, Heard, Awaiting
<1>5. CASE /\ Len(statuses') = n + 1 /\ statuses'[n + 1] = Current'
           /\ \A i \in 1 .. n : statuses'[i] = statuses[i]
  <2>1. Current'.sequence = captureSequence
    BY DEF Current
  <2>2. Truthful'
    <3>1. \A i \in 1 .. n : statuses'[i].sequence <= captureSequence
      BY <1>5 DEF ReportInv, Truthful
    <3>2. \A i \in 1 .. n + 1 : statuses'[i].sequence <= captureSequence
      BY <1>1, <1>5, <2>1, <3>1
    <3> QED BY <1>1, <1>2, <1>5, <3>2 DEF Truthful
  <2>3. statuses' # << >>
    BY <1>1, <1>2, <1>5, EmptySeq
  <2>4. (\E i \in 1 .. n : statuses[i].sequence = sent)
          => \E i \in 1 .. Len(statuses') : statuses'[i].sequence = sent
    BY <1>1, <1>5
  <2>5. Heard'
    BY <2>3, <2>4 DEF ReportInv, Heard, Awaiting
  <2> QED BY <1>3, <2>2, <2>5 DEF ReportInv
<1> QED BY <1>2, <1>4, <1>5

(* ... and the report of a request just served is never suppressed: the    *)
(* answer the coordinator waits for is on its way.                         *)
LEMMA NewRequest ==
  ASSUME ReportInv, Shaped', ServeRequest
  PROVE  ReportInv'
<1> DEFINE n == Len(statuses)
<1>1. /\ inputAlive /\ UNCHANGED <<coord, sent, attached, open, inputAlive>>
      /\ queue # << >> /\ queue' = << >> /\ queue \in Seq(Requests)
      /\ captureSequence' = TakeRequest.sequence /\ capturing' = TakeRequest.enabled
      /\ ReconcileGrabs(open, capturing') /\ Report(held', open', captureSequence', capturing')
      /\ statuses \in Seq(Reports) /\ open \subseteq Devices /\ held \subseteq open
      /\ sent \in Nat /\ captureSequence \in Nat
  BY DEF ServeRequest, ReportInv, InputTypes, Shaped, pump
<1>2. TakeRequest \in Requests /\ captureSequence' = sent /\ captureSequence < sent
  <2>1. Len(queue) \in Nat \ {0}
    BY <1>1, EmptySeq, LenProperties
  <2>2. TakeRequest \in Requests
    BY <1>1, <2>1, ElementOfSeq DEF TakeRequest
  <2> QED BY <1>1, <2>2 DEF TakeRequest, ReportInv, Unserved
<1>3. held' \subseteq open'
  BY <1>1 DEF ReconcileGrabs
<1>4. Current' \in Reports /\ Current'.sequence = sent
  <2>1. Current' \in Reports
    BY <1>1, <1>2, <1>3, CountsTell DEF Current, Reports, Requests
  <2> QED BY <1>2, <2>1 DEF Current
<1>5. reported # Current'
  BY <1>1, <1>2, <1>4 DEF ReportInv, Truthful, Current, NoStatus, Reports
<1>6. /\ reported' = Current' /\ statuses' \in Seq(Reports) /\ n \in Nat
      /\ Len(statuses') = n + 1 /\ statuses'[n + 1] = Current'
      /\ \A i \in 1 .. n : statuses'[i] = statuses[i]
  <2>1. /\ reported' = Current' /\ statuses' \in Seq(Reports)
        /\ \/ UNCHANGED <<reported, statuses>>
           \/ /\ Len(statuses') = n + 1 /\ n \in Nat
              /\ statuses'[n + 1] = Current'
              /\ \A i \in 1 .. n : statuses'[i] = statuses[i]
    BY <1>1, <1>4, ReportEffect
  <2> QED BY <1>5, <2>1
<1>7. InputTypes' /\ Unserved'
  BY <1>1, <1>2, <1>3, <1>6, EmptySeq DEF ReportInv, InputTypes, Unserved, Requests
<1>8. Truthful'
  <2>1. \A i \in 1 .. n : statuses'[i].sequence <= sent
    <3> SUFFICES ASSUME NEW i \in 1 .. n PROVE statuses'[i].sequence <= sent
      OBVIOUS
    <3>1. statuses[i] \in Reports /\ statuses[i].sequence <= captureSequence
      BY <1>1, ElementOfSeq DEF ReportInv, Truthful
    <3>2. statuses'[i] = statuses[i] /\ statuses[i].sequence \in Nat
      BY <1>6, <3>1 DEF Reports
    <3> QED BY <1>1, <1>2, <3>1, <3>2
  <2>2. \A i \in 1 .. n + 1 : statuses'[i].sequence <= sent
    BY <1>1, <1>4, <1>6, <2>1
  <2> QED BY <1>2, <1>6, <2>2 DEF Truthful
<1>9. Heard'
  <2>1. n + 1 \in 1 .. Len(statuses') /\ statuses'[n + 1].sequence = sent
    BY <1>4, <1>6
  <2>2. statuses' # << >>
    BY <1>6, EmptySeq
  <2> QED BY <1>1, <2>1, <2>2 DEF ReportInv, Heard
<1> QED BY <1>7, <1>8, <1>9 DEF ReportInv

(* Every step keeps requests and reports in step. *)
LEMMA ReportStep ==
  ASSUME ReportInv, Shaped', Wishes, [CaptureNext]_captureVars
  PROVE  ReportInv'
<1> USE DEF demand, pump, steam, grabs, input
<1>1. CASE DriveCapture \/ SuspendReleases \/ Leave
  <2>1. PICK desired \in BOOLEAN : StartDrive(desired)
    BY <1>1 DEF DriveCapture, SuspendReleases, Leave, Wishes
  <2>2. UNCHANGED <<statuses, attached, grabs, input>>
    BY <1>1 DEF DriveCapture, SuspendReleases, Leave
  <2> QED BY <2>1, <2>2, DriveReports
<1>2. CASE ReceiveStatus
  BY <1>2, ReceiveReports
<1>3. CASE Scan
  <2>1. /\ inputAlive /\ open' = open \cup attached
        /\ UNCHANGED <<coord, sent, queue, attached, capturing, captureSequence, inputAlive>>
        /\ ReconcileGrabs(open', capturing)
        /\ Report(held', open', captureSequence', capturing')
    BY <1>3 DEF Scan, ScanGrabs
  <2>2. open' \subseteq Devices /\ held' \subseteq open'
    BY <2>1 DEF ReconcileGrabs, ReportInv, InputTypes
  <2> QED BY <2>1, <2>2, SameRequest
<1>4. CASE ServeRequest
  BY <1>4, NewRequest
<1>5. CASE DropDevices
  <2>1. /\ inputAlive
        /\ UNCHANGED <<coord, sent, queue, attached, capturing, captureSequence, inputAlive>>
        /\ Report(held', open', captureSequence', capturing')
        /\ \E lost \in SUBSET dead : open' = open \ lost /\ held' = held \ lost
    BY <1>5 DEF DropDevices
  <2>2. open' \subseteq Devices /\ held' \subseteq open'
    BY <2>1 DEF ReportInv, InputTypes
  <2> QED BY <2>1, <2>2, SameRequest
<1>6. CASE InputExits
  <2>1. /\ ~inputAlive' /\ queue' = << >> /\ open' = {} /\ held' = {}
        /\ UNCHANGED <<coord, sent, statuses, attached, capturing, captureSequence>>
    BY <1>6 DEF InputExits
  <2>2. InputTypes'
    <3>1. queue' \in Seq(Requests)
      BY <2>1
    <3>2. open' \subseteq Devices /\ held' \subseteq open' /\ inputAlive' \in BOOLEAN
      BY <1>6, <2>1 DEF InputExits
    <3> QED BY <2>1, <3>1, <3>2 DEF ReportInv, InputTypes
  <2>3. Unserved' /\ Truthful' /\ Heard'
    BY <2>1 DEF ReportInv, Unserved, Truthful, Heard
  <2> QED BY <2>2, <2>3 DEF ReportInv
<1>7. ASSUME UNCHANGED <<sent, queue, statuses, open, held, capturing, captureSequence, reported,
                         inputAlive>>,
             coord'.phase = coord.phase, coord'.sequence = coord.sequence,
             attached' \subseteq Devices
      PROVE  ReportInv'
  BY <1>7 DEF ReportInv, InputTypes, Unserved, Truthful, Heard, Awaiting, Current
<1>8. CASE Hardware
  BY <1>7, <1>8 DEF Hardware, PlugController, UnplugController, ReportInv, InputTypes
<1>9. CASE Clock
  <2>1. coord \in Coordinators
    BY DEF ReportInv, Shaped
  <2> QED BY <1>7, <1>9, <2>1 DEF Clock, AckOverdue, RetryElapses, SteamElapses, ReportInv,
     InputTypes, Coordinators
<1>10. CASE \/ RetrySteam \/ Exit \/ GrantLease \/ EndLease \/ ResumeDaemon \/ Terminate \/ Finished
            \/ UNCHANGED captureVars
  BY <1>7, <1>10 DEF RetrySteam, Exit, GrantLease, EndLease, ResumeDaemon, Terminate, Finished,
     captureVars, ReportInv, InputTypes
<1> QED BY <1>1, <1>2, <1>3, <1>4, <1>5, <1>6, <1>8, <1>9, <1>10 DEF CaptureNext, Pump, Input

LEMMA ReportInvariance == CaptureSpec => []ReportInv
<1>1. CaptureInit => ReportInv
  <2> SUFFICES ASSUME CaptureInit PROVE ReportInv
    OBVIOUS
  <2>1. coord = NewCoordinator /\ NewCoordinator \in Coordinators /\ sent = 0
        /\ coord.phase = "Released"
    BY DEF CaptureInit, NewCoordinator, Coordinators, Phases
  <2>2. InputTypes
    BY EmptySeq DEF CaptureInit, InputTypes
  <2>3. Unserved /\ Truthful /\ Heard
    BY <2>1, EmptySeq DEF CaptureInit, Unserved, Truthful, Heard, Awaiting
  <2> QED BY <2>1, <2>2, <2>3 DEF ReportInv, Shaped
<1>2. ReportInv /\ Wishes /\ (SteamInv /\ Wishes)' /\ [CaptureNext]_captureVars => ReportInv'
  BY ReportStep DEF SteamInv
<1> QED BY <1>1, <1>2, SteamInvariance, PTL DEF CaptureSpec

(* Whatever is plugged in or out, fails or is late: a coordinator that      *)
(* believes in its capture, with no report left to hear, is right.         *)
THEOREM CapturedIsTrue == CaptureSpec => []CaptureIsCurrent
<1>1. ReportInv => CaptureIsCurrent
  <2> SUFFICES ASSUME ReportInv, coord.phase = "Captured", statuses = << >>, inputAlive
               PROVE  /\ capturing /\ captureSequence = coord.sequence
                      /\ open # {} /\ held = open
    BY DEF CaptureIsCurrent
  <2>1. captureSequence = sent /\ coord.sequence = sent /\ sent > 0 /\ WholeCapture(reported)
    BY DEF ReportInv, Heard, Unserved
  <2>2. reported = Current
    BY <2>1 DEF ReportInv, Truthful
  <2> QED BY <2>1, <2>2, WholeMeansAll DEF ReportInv
<1> QED BY <1>1, ReportInvariance, PTL

(* The coordinator never waits in vain for the input thread. *)
THEOREM AnswerIsComing == CaptureSpec => []AckComing
<1>1. ReportInv => AckComing
  <2> SUFFICES ASSUME ReportInv, Awaiting, inputAlive
               PROVE  \/ \E i \in DOMAIN queue : queue[i].sequence = coord.sequence
                      \/ \E i \in DOMAIN statuses : statuses[i].sequence = coord.sequence
    BY DEF AckComing, Awaiting
  <2>1. /\ coord.sequence = sent /\ queue \in Seq(Requests) /\ statuses \in Seq(Reports)
        /\ DOMAIN queue = 1 .. Len(queue) /\ DOMAIN statuses = 1 .. Len(statuses)
    BY LenProperties DEF ReportInv, Heard, InputTypes, Awaiting
  <2>2. CASE queue = << >>
    BY <2>1, <2>2 DEF ReportInv, Heard
  <2>3. CASE queue # << >>
    <3>1. Len(queue) \in DOMAIN queue
      BY <2>1, <2>3, EmptySeq, LenProperties
    <3> QED BY <2>1, <2>3, <3>1 DEF ReportInv, Unserved
  <2> QED BY <2>2, <2>3
<1> QED BY <1>1, ReportInvariance, PTL
=============================================================================
