---------------------------- MODULE DaemonProofs ----------------------------
(***************************************************************************)
(* The daemon is one use of the executor: whatever the pump, the resume    *)
(* watcher and the signal handlers do, they take only the steps that       *)
(* Executor allows. What ExecutorProofs and StoreProofs prove therefore    *)
(* holds in it.                                                            *)
(*                                                                         *)
(* The second part is about the pump. PumpInv says how the admission mode  *)
(* (the owner's and the gate's), the lifecycle (the clients'), the barrier *)
(* the pump is about to submit and the notifications between owner and     *)
(* pump fit together while the daemon serves, and that the notifications   *)
(* are heard in the order in which the barriers finished.                  *)
(***************************************************************************)
EXTENDS Daemon, StoreProofs

(* What the daemon's own threads do leaves the executor alone, or is one   *)
(* of its steps.                                                           *)
LEMMA PumpSteps ==
  ASSUME PumpRun \/ PumpMaintains \/ PumpTimesOut \/ MainProceeds
  PROVE  Main \/ UNCHANGED vars
<1>1. CASE PumpTop \/ PumpSkipsMaintenance \/ TakeSignal \/ SignalsDone \/ HandleEvent
           \/ EventsDone \/ PumpWakes \/ PumpTimesOut
  BY <1>1 DEF PumpTop, PumpSkipsMaintenance, TakeSignal, SignalsDone, HandleEvent,
     EventsDone, PumpWakes, PumpTimesOut
<1>2. CASE PumpDrains \/ StartBarrier \/ PumpLeaves \/ PumpMaintains \/ MainProceeds
  BY <1>2 DEF Main, PumpDrains, StartBarrier, PumpLeaves, PumpMaintains, MainProceeds
<1> QED BY <1>1, <1>2 DEF PumpRun

(* The same of the threads that serve clients. *)
LEMMA ThreadSteps ==
  ASSUME NEW c \in Clients,
         CheckLifecycle(c) \/ RejectInactive(c) \/ DispatchChecked(c)
           \/ CommitLease(c) \/ ClientProceeds(c)
  PROVE  Client(c) \/ UNCHANGED vars
<1>1. CASE CheckLifecycle(c)
  BY <1>1 DEF CheckLifecycle
<1>2. CASE RejectInactive(c) \/ DispatchChecked(c)
  BY <1>2 DEF RejectInactive, DispatchChecked, Client
<1>3. CASE CommitLease(c) \/ ClientProceeds(c)
  BY <1>3 DEF CommitLease, ClientProceeds, Client, ClientRun
<1> QED BY <1>1, <1>2, <1>3

(* Every step of the daemon is a step of the executor, or none of it. *)
LEMMA DaemonSteps == [DaemonNext]_allVars => [Next]_vars
<1> SUFFICES ASSUME [DaemonNext]_allVars PROVE Next \/ UNCHANGED vars
  OBVIOUS
<1>1. CASE UNCHANGED allVars
  BY <1>1 DEF allVars
<1>2. CASE ForwardSignal \/ NotifyPump \/ SignalFlag \/ SignalPipe
  BY <1>2 DEF ForwardSignal, NotifyPump, SignalFlag, SignalPipe
<1>3. CASE OwnerPublishes \/ OwnerProceeds
  BY <1>3 DEF OwnerPublishes, OwnerProceeds, Next, Owner, OwnerRun
<1>4. CASE PumpRun \/ PumpMaintains \/ PumpTimesOut \/ MainProceeds
  BY <1>4, PumpSteps DEF Next
<1>5. ASSUME NEW c \in Clients,
             CheckLifecycle(c) \/ RejectInactive(c) \/ DispatchChecked(c)
               \/ CommitLease(c) \/ ClientProceeds(c)
      PROVE  Next \/ UNCHANGED vars
  BY <1>5, ThreadSteps DEF Next
<1> QED BY <1>1, <1>2, <1>3, <1>4, <1>5 DEF DaemonNext

(* The daemon implements the executor. *)
THEOREM DaemonImplementsExecutor == DaemonSpec => Spec
<1>1. DaemonInit => Init
  BY DEF DaemonInit
<1> QED BY <1>1, DaemonSteps, PTL DEF DaemonSpec, Spec

(* In the daemon, then, logind's suspend and the shutdown of a SIGTERM are *)
(* never refused for lack of room, and no work reaches released hardware.  *)
THEOREM DaemonGate == DaemonSpec => [](BarriersAlwaysFit /\ WorkNeedsOpenBackend)
BY DaemonImplementsExecutor, ReserveSuffices, OpenWhileWorking, PTL

(* Nor is a client of the daemon told anything untrue about its request,   *)
(* whatever sleeps, wakes and ends around it.                              *)
THEOREM DaemonKeepsItsWord ==
  DaemonSpec => [](StoreAgrees /\ RefusedNeverRuns /\ OutcomesTellTheTruth)
BY DaemonImplementsExecutor, StoreAlwaysAgrees, RefusalsAreTrue, OutcomesAreTrue, PTL

-----------------------------------------------------------------------------
(* The pump, the executor's mode and the notifications between them. *)

(* A barrier on its way to the owner or in its hand, the mode not yet set. *)
InFlight(b) ==
  \/ \E i \in 1 .. Len(channel) : channel[i] = b
  \/ current = b /\ ownerAt \in {"received", "dispatch", "barrier"}

(* Notifications come without repetition, and nothing follows a Resumed:   *)
(* the lifecycle stays closed until it is handled, so no suspend starts.   *)
Tidy(s) == \A i, j \in 1 .. Len(s) : i < j => s[i] # s[j] /\ s[i] # "Resumed"

Has(s, e) == \E i \in 1 .. Len(s) : s[i] = e

Events == {"Suspended", "Resumed"}

Heard == ~Announced("Suspended") /\ ~Announced("Resumed")

PumpTypes ==
  /\ lifecycle \in {"Active", "Suspended", "ShuttingDown"}
  /\ pumpAt \in {"top", "maintain", "signals", "drain", "events", "wait", "leaving"}
  /\ barrier \in Barriers \cup {"none"}
  /\ awakeWanted \in BOOLEAN
  /\ batch \in Seq(Events \cup {"StateChanged"})
  /\ sleepSignals \in Seq(BOOLEAN)

(* Where the pump is tells what it still has to do. *)
PumpPlace ==
  /\ barrier # "none" => serviceAt = "up" /\ pumpAt \in {"signals", "events"}
  /\ batch # << >> => pumpAt = "events"
  /\ serviceAt = "starting" => lifecycle = "Active" /\ pumpAt = "top"
  /\ lifecycle = "ShuttingDown" => pumpAt = "leaving"
  /\ pumpAt = "leaving" => lifecycle = "ShuttingDown"

(* The notifications of finished barriers, from the owner's lips to the    *)
(* batch the pump is working through, are in the order they happened.      *)
Notices ==
  /\ Tidy(batch) /\ Tidy(lifecycleEvents)
  /\ Has(batch, "Resumed") => lifecycleEvents = << >> /\ ownerAt # "announce"
  /\ Has(batch, "Suspended") => ~Has(lifecycleEvents, "Suspended") /\ ~Finishing("Suspend")
  /\ Has(lifecycleEvents, "Resumed") => ownerAt # "announce"
  /\ Has(lifecycleEvents, "Suspended") => ~Finishing("Suspend")
  /\ InFlight("Suspend") => Heard
  /\ InFlight("Resume") => ~Announced("Resumed")

(* Until shutdown, the admission mode, the lifecycle, the barrier asked    *)
(* for and the notifications on their way fit together.                    *)
Serving == serviceAt \in {"starting", "up"} /\ ownerAt # "panicked"

Agreement ==
  /\ mode \in {"Active", "BarrierPending", "Suspended"}
  /\ senderOpen /\ ~InFlight("Shutdown")
  /\ ownerAt = "gone" => serviceAt = "starting"
  /\ (mode = "BarrierPending") <=> (InFlight("Suspend") \/ InFlight("Resume"))
  /\ Announced("Resumed") => mode = "Active"
  /\ lifecycle = "Active" => mode = "Active" /\ Heard
  /\ barrier # "none" => lifecycle = "Suspended"
  /\ barrier = "Suspend" => mode = "Active" /\ Heard
  /\ lifecycle = "Suspended" /\ barrier # "Suspend" /\ mode = "Active" => Announced("Resumed")
  /\ lifecycle = "Suspended" /\ barrier = "none" /\ mode = "Suspended" /\ awakeWanted => Announced("Suspended")

PumpInv ==
  /\ PumpTypes /\ PumpPlace
  /\ ownerAt # "panicked" => Notices
  /\ Serving => Agreement

(* Lists of notifications. *)
LEMMA HasAppend ==
  ASSUME NEW S, NEW s \in Seq(S), NEW e \in S, NEW x
  PROVE  Has(Append(s, e), x) <=> (Has(s, x) \/ x = e)
<1>1. /\ Len(s) \in Nat
      /\ Len(Append(s, e)) = Len(s) + 1
      /\ \A i \in 1 .. Len(s) : Append(s, e)[i] = s[i]
      /\ Append(s, e)[Len(s) + 1] = e
  BY AppendProperties, LenProperties
<1>2. ASSUME Has(s, x) PROVE Has(Append(s, e), x)
  BY <1>1, <1>2 DEF Has
<1>3. ASSUME x = e PROVE Has(Append(s, e), x)
  <2>1. Len(s) + 1 \in 1 .. Len(Append(s, e))
    BY <1>1
  <2> QED BY <1>1, <1>3, <2>1 DEF Has
<1>4. ASSUME Has(Append(s, e), x) PROVE Has(s, x) \/ x = e
  <2>1. PICK i \in 1 .. Len(s) + 1 : Append(s, e)[i] = x
    BY <1>1, <1>4 DEF Has
  <2> QED BY <1>1, <2>1 DEF Has
<1> QED BY <1>2, <1>3, <1>4

LEMMA HasTail ==
  ASSUME NEW S, NEW s \in Seq(S), s # << >>, NEW x
  PROVE  Has(s, x) <=> (Head(s) = x \/ Has(Tail(s), x))
<1>1. /\ Len(s) \in Nat \ {0} /\ Len(Tail(s)) = Len(s) - 1
      /\ \A i \in 1 .. Len(s) - 1 : Tail(s)[i] = s[i + 1]
      /\ Head(s) = s[1]
  BY HeadTailProperties, EmptySeq
<1>2. ASSUME Has(s, x) PROVE Head(s) = x \/ Has(Tail(s), x)
  <2>1. PICK i \in 1 .. Len(s) : s[i] = x
    BY <1>2 DEF Has
  <2>2. CASE i # 1
    <3>1. i - 1 \in 1 .. Len(Tail(s)) /\ Tail(s)[i - 1] = x
      BY <1>1, <2>1, <2>2
    <3> QED BY <3>1 DEF Has
  <2> QED BY <1>1, <2>1, <2>2
<1>3. ASSUME Head(s) = x \/ Has(Tail(s), x) PROVE Has(s, x)
  <2>1. CASE Head(s) = x
    BY <1>1, <2>1 DEF Has
  <2>2. CASE Has(Tail(s), x)
    <3>1. PICK i \in 1 .. Len(Tail(s)) : Tail(s)[i] = x
      BY <2>2 DEF Has
    <3>2. i + 1 \in 1 .. Len(s) /\ s[i + 1] = x
      BY <1>1, <3>1
    <3> QED BY <3>2 DEF Has
  <2> QED BY <1>3, <2>1, <2>2
<1> QED BY <1>2, <1>3

LEMMA HasNone ==
  ASSUME NEW x
  PROVE  ~Has(<< >>, x) /\ Tidy(<< >>)
BY EmptySeq DEF Has, Tidy

(* A suspended may follow anything but itself and a resumed. *)
LEMMA TidyAppend ==
  ASSUME NEW S, NEW s \in Seq(S), NEW e \in S, Tidy(s), ~Has(s, e), ~Has(s, "Resumed")
  PROVE  Tidy(Append(s, e))
<1>1. /\ Len(s) \in Nat
      /\ Len(Append(s, e)) = Len(s) + 1
      /\ \A i \in 1 .. Len(s) : Append(s, e)[i] = s[i]
      /\ Append(s, e)[Len(s) + 1] = e
  BY AppendProperties, LenProperties
<1> SUFFICES ASSUME NEW i \in 1 .. Len(s) + 1, NEW j \in 1 .. Len(s) + 1, i < j
             PROVE  Append(s, e)[i] # Append(s, e)[j] /\ Append(s, e)[i] # "Resumed"
  BY <1>1 DEF Tidy
<1>2. i \in 1 .. Len(s)
  BY <1>1
<1>3. CASE j = Len(s) + 1
  BY <1>1, <1>2, <1>3 DEF Has
<1>4. CASE j # Len(s) + 1
  BY <1>1, <1>2, <1>4 DEF Tidy
<1> QED BY <1>3, <1>4

(* What is heard first is not heard again, and nothing after a resumed. *)
LEMMA TidyTail ==
  ASSUME NEW S, NEW s \in Seq(S), s # << >>, Tidy(s)
  PROVE  /\ Tidy(Tail(s)) /\ ~Has(Tail(s), Head(s))
         /\ Head(s) = "Resumed" => Tail(s) = << >>
<1>1. /\ Len(s) \in Nat \ {0} /\ Len(Tail(s)) = Len(s) - 1 /\ Tail(s) \in Seq(S)
      /\ \A i \in 1 .. Len(s) - 1 : Tail(s)[i] = s[i + 1]
      /\ Head(s) = s[1]
  BY HeadTailProperties, EmptySeq
<1>2. Tidy(Tail(s))
  <2> SUFFICES ASSUME NEW i \in 1 .. Len(s) - 1, NEW j \in 1 .. Len(s) - 1, i < j
               PROVE  Tail(s)[i] # Tail(s)[j] /\ Tail(s)[i] # "Resumed"
    BY <1>1 DEF Tidy
  <2>1. i + 1 \in 1 .. Len(s) /\ j + 1 \in 1 .. Len(s) /\ i + 1 < j + 1
    BY <1>1
  <2> QED BY <1>1, <2>1 DEF Tidy
<1>3. ~Has(Tail(s), Head(s))
  <2> SUFFICES ASSUME NEW i \in 1 .. Len(s) - 1, s[i + 1] = s[1]
               PROVE  FALSE
    BY <1>1 DEF Has
  <2>1. 1 \in 1 .. Len(s) /\ i + 1 \in 1 .. Len(s) /\ 1 < i + 1
    BY <1>1
  <2> QED BY <2>1 DEF Tidy
<1>4. ASSUME s[1] = "Resumed" PROVE Tail(s) = << >>
  <2>1. CASE Len(s) = 1
    <3>1. Len(Tail(s)) = 0 /\ Tail(s) \in Seq(S)
      BY <1>1, <2>1
    <3> QED BY <3>1, EmptySeq
  <2>2. CASE Len(s) > 1
    <3>1. 1 \in 1 .. Len(s) /\ 2 \in 1 .. Len(s) /\ 1 < 2
      BY <1>1, <2>2
    <3> QED BY <1>4, <3>1 DEF Tidy
  <2> QED BY <1>1, <2>1, <2>2
<1> QED BY <1>1, <1>2, <1>3, <1>4

(* What the pump drains: the invalidation first, then the notifications. *)
LEMMA Drained ==
  ASSUME NEW s \in Seq(Events), Tidy(s), NEW b \in BOOLEAN
  PROVE  LET drained == (IF b THEN <<"StateChanged">> ELSE << >>) \o s
         IN  /\ drained \in Seq(Events \cup {"StateChanged"})
             /\ Tidy(drained)
             /\ \A e \in Events : Has(drained, e) <=> Has(s, e)
<1> DEFINE All     == Events \cup {"StateChanged"}
           first   == IF b THEN <<"StateChanged">> ELSE << >>
           drained == first \o s
<1>1. s \in Seq(All) /\ << >> \in Seq(All) /\ <<"StateChanged">> \in Seq(All)
  <2>1. s \in Seq(All)
    BY SeqMonotonic
  <2> QED BY <2>1
<1>2. CASE b
  <2>1. first = <<"StateChanged">> /\ Len(first) = 1 /\ first[1] = "StateChanged"
    BY <1>2
  <2>6. /\ drained \in Seq(All) /\ Len(drained) = Len(first) + Len(s)
        /\ \A i \in 1 .. Len(first) + Len(s) :
             drained[i] = IF i <= Len(first) THEN first[i] ELSE s[i - Len(first)]
    <3>1. first \in Seq(All)
      BY <1>1
    <3> HIDE DEF first
    <3> QED BY <1>1, <3>1, ConcatProperties
  <2>2. /\ Len(s) \in Nat /\ drained \in Seq(All)
        /\ Len(drained) = Len(s) + 1 /\ drained[1] = "StateChanged"
        /\ \A i \in 2 .. Len(s) + 1 : drained[i] = s[i - 1]
    <3>1. Len(s) \in Nat
      BY LenProperties
    <3> HIDE DEF first, drained
    <3> QED BY <2>1, <2>6, <3>1
  <2>3. \A i \in 1 .. Len(s) : s[i] \in Events /\ s[i] # "StateChanged"
    BY ElementOfSeq DEF Events
  <2>4. ASSUME NEW i \in 1 .. Len(drained), NEW j \in 1 .. Len(drained), i < j
        PROVE  drained[i] # drained[j] /\ drained[i] # "Resumed"
    <3>1. j - 1 \in 1 .. Len(s) /\ drained[j] = s[j - 1]
      BY <2>2, <2>4
    <3>2. CASE i = 1
      BY <2>2, <2>3, <3>1, <3>2
    <3>3. CASE i # 1
      <4>1. i - 1 \in 1 .. Len(s) /\ drained[i] = s[i - 1] /\ i - 1 < j - 1
        BY <2>2, <2>4, <3>3
      <4> QED BY <3>1, <4>1 DEF Tidy
    <3> QED BY <3>2, <3>3
  <2>5. ASSUME NEW e \in Events
        PROVE  Has(drained, e) <=> Has(s, e)
    <3>1. ASSUME Has(drained, e) PROVE Has(s, e)
      <4>1. PICK i \in 1 .. Len(drained) : drained[i] = e
        BY <3>1 DEF Has
      <4>2. i # 1
        BY <2>2, <4>1 DEF Events
      <4>3. i - 1 \in 1 .. Len(s) /\ s[i - 1] = e
        BY <2>2, <4>1, <4>2
      <4> QED BY <4>3 DEF Has
    <3>2. ASSUME Has(s, e) PROVE Has(drained, e)
      <4>1. PICK i \in 1 .. Len(s) : s[i] = e
        BY <3>2 DEF Has
      <4>2. i + 1 \in 1 .. Len(drained) /\ drained[i + 1] = e
        BY <2>2, <4>1
      <4> QED BY <4>2 DEF Has
    <3> QED BY <3>1, <3>2
  <2> QED BY <2>2, <2>4, <2>5 DEF Tidy
<1>3. CASE ~b
  BY <1>1, <1>3, ConcatEmptySeq
<1> QED BY <1>2, <1>3

-----------------------------------------------------------------------------
(* What each thread does to the pump's view of the executor. *)

(* What has been announced is in the batch, in the queue or about to be. *)
LEMMA AnnouncedIs ==
  /\ Announced("Suspended") <=> \/ Has(batch, "Suspended") \/ Has(lifecycleEvents, "Suspended")
                                \/ Finishing("Suspend")
  /\ Announced("Resumed") <=> \/ Has(batch, "Resumed") \/ Has(lifecycleEvents, "Resumed")
                              \/ Finishing("Resume")
BY DEF Announced, Has

LEMMA AnnouncedWillBe ==
  /\ Announced("Suspended")' <=> \/ Has(batch', "Suspended") \/ Has(lifecycleEvents', "Suspended")
                                 \/ Finishing("Suspend")'
  /\ Announced("Resumed")' <=> \/ Has(batch', "Resumed") \/ Has(lifecycleEvents', "Resumed")
                               \/ Finishing("Resume")'
BY DEF Announced, Has

(* A step after which the pump sees what it saw. *)
LEMMA ViewKept ==
  ASSUME PumpInv, UNCHANGED <<lifecycle, pump, sleepSignals, lifecycleEvents, serviceAt>>,
         ownerAt' # "panicked" =>
           /\ ownerAt # "panicked" /\ (ownerAt' = "announce" => ownerAt = "announce")
           /\ \A b \in Barriers : (InFlight(b)' => InFlight(b)) /\ (Finishing(b)' <=> Finishing(b)),
         Serving' =>
           /\ UNCHANGED <<mode, senderOpen>> /\ (ownerAt' = "gone" => ownerAt = "gone" \/ serviceAt = "starting")
           /\ \A b \in Lifecycle : InFlight(b)' <=> InFlight(b)
  PROVE  PumpInv'
<1> USE DEF pump
<1>1. PumpTypes' /\ PumpPlace'
  BY DEF PumpInv, PumpTypes, PumpPlace
<1>2. ASSUME ownerAt' # "panicked"
      PROVE  /\ Announced("Suspended")' <=> Announced("Suspended")
             /\ Announced("Resumed")' <=> Announced("Resumed")
  BY <1>2, AnnouncedIs, AnnouncedWillBe DEF Barriers
<1>3. ASSUME ownerAt' # "panicked" PROVE Notices'
  BY <1>2, <1>3 DEF PumpInv, Notices, Heard, Barriers
<1>4. ASSUME Serving' PROVE Agreement'
  BY <1>2, <1>4 DEF PumpInv, Agreement, Serving, Heard, Lifecycle, Barriers
<1> QED BY <1>1, <1>3, <1>4 DEF PumpInv

(* The barriers in flight, when an operation enters the channel ... *)
LEMMA FlightEnqueued ==
  ASSUME TypeOK, NEW op \in Operations, Enqueue(op), UNCHANGED <<ownerAt, current>>
  PROVE  \A b \in Lifecycle : InFlight(b)' <=> (InFlight(b) \/ b = op)
<1> DEFINE n == Len(channel)
<1>1. /\ n \in Nat /\ Len(channel') = n + 1 /\ channel'[n + 1] = op
      /\ \A i \in 1 .. n : channel'[i] = channel[i]
  BY AppendProperties, LenProperties DEF Enqueue, TypeOK
<1> SUFFICES ASSUME NEW b
             PROVE  InFlight(b)' <=> (InFlight(b) \/ b = op)
  OBVIOUS
<1>2. ASSUME InFlight(b) PROVE InFlight(b)'
  BY <1>1, <1>2 DEF InFlight
<1>3. ASSUME b = op PROVE InFlight(b)'
  <2>1. n + 1 \in 1 .. Len(channel') /\ channel'[n + 1] = b
    BY <1>1, <1>3
  <2> QED BY <2>1 DEF InFlight
<1>4. ASSUME InFlight(b)', b # op PROVE InFlight(b)
  BY <1>1, <1>4 DEF InFlight
<1> QED BY <1>2, <1>3, <1>4

(* ... and when the owner takes one out of it. *)
LEMMA FlightReceived ==
  ASSUME TypeOK, Receive
  PROVE  \A b \in Lifecycle : InFlight(b)' <=> InFlight(b)
<1> DEFINE n == Len(channel)
<1>1. /\ n \in Nat \ {0} /\ Len(channel') = n - 1 /\ current' = channel[1]
      /\ \A i \in 1 .. n - 1 : channel'[i] = channel[i + 1]
      /\ ownerAt = "idle" /\ ownerAt' = "received"
  BY HeadTailProperties, EmptySeq DEF TypeOK, Receive
<1> SUFFICES ASSUME NEW b
             PROVE  InFlight(b)' <=> InFlight(b)
  OBVIOUS
<1>2. ASSUME InFlight(b) PROVE InFlight(b)'
  <2>1. PICK i \in 1 .. n : channel[i] = b
    BY <1>1, <1>2 DEF InFlight
  <2>2. CASE i = 1
    BY <1>1, <2>1, <2>2 DEF InFlight
  <2>3. CASE i # 1
    <3>1. i - 1 \in 1 .. Len(channel') /\ channel'[i - 1] = b
      BY <1>1, <2>1, <2>3
    <3> QED BY <3>1 DEF InFlight
  <2> QED BY <2>2, <2>3
<1>3. ASSUME InFlight(b)' PROVE InFlight(b)
  <2>1. CASE current' = b
    <3>1. 1 \in 1 .. Len(channel) /\ channel[1] = b
      BY <1>1, <2>1
    <3> QED BY <3>1 DEF InFlight
  <2>2. CASE current' # b
    <3>1. PICK i \in 1 .. n - 1 : channel'[i] = b
      BY <1>1, <1>3, <2>2 DEF InFlight
    <3>2. i + 1 \in 1 .. n /\ channel[i + 1] = b
      BY <1>1, <3>1
    <3> QED BY <3>2 DEF InFlight
  <2> QED BY <2>1, <2>2
<1> QED BY <1>2, <1>3

(* Submitting work shows the pump nothing new. *)
LEMMA ViewOfWork ==
  ASSUME TypeOK, PumpInv, NEW op \in Work, Submit(op), serviceAt # "starting",
         UNCHANGED <<ownerAt, current, lifecycle, pump, sleepSignals, lifecycleEvents, serviceAt>>
  PROVE  PumpInv'
<1>1. op \in Operations /\ op \notin Lifecycle /\ UNCHANGED senderOpen
  BY OperationSets DEF Submit, Enqueue, Refuse, pipe
<1>2. \A b \in Lifecycle : InFlight(b)' <=> InFlight(b)
  <2>1. CASE Enqueue(op)
    BY <1>1, <2>1, FlightEnqueued
  <2>2. CASE Refuse(op)
    BY <2>2 DEF Refuse, pipe, InFlight
  <2> QED BY <2>1, <2>2 DEF Submit
<1>3. Serving' => UNCHANGED mode
  <2>1. CASE Enqueue(op)
    BY <1>1, <2>1 DEF Enqueue, ModeAfter, Lifecycle
  <2>2. CASE Refuse(op)
    BY <2>2 DEF Refuse, OwnerAlive, Serving, PumpInv, Agreement
  <2> QED BY <2>1, <2>2 DEF Submit
<1>4. \A b : Finishing(b)' <=> Finishing(b)
  BY DEF Finishing
<1> QED BY <1>1, <1>2, <1>3, <1>4, ViewKept DEF Lifecycle

(* Client threads never touch the events. *)
LEMMA ClientEvents ==
  ASSUME NEW c \in Clients, Client(c)
  PROVE  UNCHANGED lifecycleEvents
<1> USE DEF events
<1>1. CASE Reject(c) \/ GiveUp(c) \/ HangUp(c) \/ ClientRun(c)
  BY <1>1 DEF Reject, GiveUp, HangUp, ClientRun, SubmitCommand, WithdrawKey, CommitImmediate,
     CompleteImmediate, Relay
<1>2. CASE \E k \in Keys : RegisterCommand(c, k) \/ RegisterImmediate(c, k) \/ QueryOutcome(c, k)
  BY <1>2 DEF RegisterCommand, RegisterImmediate, ReserveKey, QueryOutcome
<1> QED BY <1>1, <1>2 DEF Client

(* A step of a client's thread. *)
LEMMA ThreadView ==
  ASSUME IInv, PumpInv, NEW c \in Clients,
         CheckLifecycle(c) \/ RejectInactive(c) \/ DispatchChecked(c)
           \/ CommitLease(c) \/ ClientProceeds(c)
  PROVE  PumpInv'
<1>1. UNCHANGED <<lifecycle, pump, sleepSignals>>
  BY DEF CheckLifecycle, RejectInactive, DispatchChecked, CommitLease, ClientProceeds,
     daemonVars, watcher
<1>2. CASE Client(c)
  <2>1. UNCHANGED <<serviceAt, ownerAt, current, senderOpen, lifecycleEvents>>
    BY <1>2, ClientFrame, ClientEvents
  <2>2. CASE UNCHANGED <<mode, queued, channel>>
    BY <1>1, <2>1, <2>2, ViewKept DEF InFlight, Finishing, Lifecycle
  <2>3. CASE at[c] = "registered" /\ Submit(c)
    <3>1. c \in Work /\ TypeOK /\ serviceAt # "starting"
      BY <2>3 DEF Work, IInv, NotStarted, Constructed
    <3> QED BY <1>1, <2>1, <2>3, <3>1, ViewOfWork
  <2> QED BY <1>2, <2>2, <2>3, ClientFrame
<1>3. CASE UNCHANGED vars
  BY <1>1, <1>3, ViewKept DEF vars, admission, pipe, ownerVars, events, InFlight, Finishing, Lifecycle
<1> QED BY <1>2, <1>3, ThreadSteps

(* The owner between barriers: nothing the pump could see, except that it   *)
(* may panic, fail to boot or find itself abandoned.                        *)
LEMMA OwnerViewQuiet ==
  ASSUME IInv, PumpInv, UNCHANGED <<lifecycle, pump, sleepSignals>>,
         Panic \/ (OwnerQuiet /\ ~FinishBarrier)
           \/ \E effect \in BOOLEAN : ExecuteCommand(effect) \/ Maintain(effect)
  PROVE  PumpInv'
<1>1. UNCHANGED <<lifecycle, pump, sleepSignals>>
  OBVIOUS
<1> USE DEF InFlight, Finishing, Serving, Lifecycle, Barriers, admission, pipe, events
<1>2. CASE Panic
  BY <1>1, <1>2, ViewKept DEF Panic
<1>3. CASE Boot
  <2>1. serviceAt # "up" /\ ownerAt = "booting"
    BY <1>3 DEF IInv, NotStarted, Constructed, Boot
  <2> QED BY <1>1, <1>3, <2>1, ViewKept DEF Boot
<1>4. CASE Receive
  <2>1. \A b \in Lifecycle : InFlight(b)' <=> InFlight(b)
    BY <1>4, FlightReceived DEF IInv
  <2>2. ownerAt = "idle" /\ ownerAt' = "received" /\ UNCHANGED <<mode, senderOpen, serviceAt, lifecycleEvents>>
    BY <1>4 DEF Receive
  <2>3. \A b \in Barriers : Finishing(b)' <=> Finishing(b)
    BY <2>2
  <2> HIDE DEF InFlight, Finishing
  <2> QED BY <1>1, <2>1, <2>2, <2>3, ViewKept
<1>5. CASE ReleaseSlot \/ MoveBackend
  BY <1>1, <1>5, ViewKept DEF ReleaseSlot, MoveBackend
<1>6. CASE DropDisconnected \/ DropExpired \/ StartCommand
  <2>1. current \in Clients /\ current \notin Lifecycle
    BY <1>6, OperationSets DEF IInv, TypeOK, DropDisconnected, DropExpired, StartCommand
  <2> QED BY <1>1, <1>6, <2>1, ViewKept DEF DropDisconnected, DropExpired, StartCommand
<1>7. CASE RecordCompletion \/ SendTerminal
  BY <1>1, <1>7, ViewKept DEF RecordCompletion, SendTerminal
<1>8. CASE \E effect \in BOOLEAN : ExecuteCommand(effect) \/ Maintain(effect)
  <2>1. CASE \E effect \in BOOLEAN : ExecuteCommand(effect)
    BY <1>1, <2>1, ViewKept DEF ExecuteCommand
  <2>2. CASE \E effect \in BOOLEAN : Maintain(effect)
    <3>1. current \notin Lifecycle /\ current' \notin Lifecycle
      BY <2>2, OperationSets DEF Maintain, Maintenance
    <3> QED BY <1>1, <2>2, <3>1, ViewKept DEF Maintain
  <2> QED BY <1>8, <2>1, <2>2
<1>9. CASE CloseDisconnected \/ StopDisconnected
  <2>1. ~Serving
    BY <1>9 DEF CloseDisconnected, StopDisconnected, IInv, Gate, ModeCut, PumpInv, Agreement
  <2> QED BY <1>1, <1>9, <2>1, ViewKept DEF CloseDisconnected, StopDisconnected
<1> QED BY <1>2, <1>3, <1>4, <1>5, <1>6, <1>7, <1>8, <1>9 DEF OwnerQuiet

(* A finished barrier: while the daemon serves it was alone, its mode is    *)
(* now that of the hardware, and the notification is on the owner's lips.   *)
LEMMA FinishView ==
  ASSUME IInv, PumpInv, FinishBarrier, UNCHANGED <<lifecycle, pump, sleepSignals>>
  PROVE  PumpInv'
<1>1. /\ UNCHANGED <<lifecycle, pump, sleepSignals, lifecycleEvents, serviceAt, senderOpen, channel>>
      /\ ownerAt = "barrier" /\ current \in Lifecycle /\ Unfinished
  BY DEF FinishBarrier, events, pipe, IInv, HandOK, Unfinished
<1>2. PumpTypes' /\ PumpPlace'
  BY <1>1 DEF PumpInv, PumpTypes, PumpPlace, pump
<1>3. /\ InFlight(current) /\ ownerAt' # "panicked"
      /\ \A b \in Lifecycle : InFlight(b)' => \E i \in 1 .. Len(channel) : channel[i] = b
  BY <1>1 DEF InFlight, FinishBarrier
<1>4. /\ channel = << >> \/ (current \in Barriers /\ channel = <<"Shutdown">>)
      /\ ~InFlight("Suspend")' /\ ~InFlight("Resume")'
  <2>1. channel = << >> \/ (current \in Barriers /\ channel = <<"Shutdown">>)
    BY <1>1 DEF IInv, Gate, HandCut
  <2>2. \A i \in 1 .. Len(channel) : channel[i] = "Shutdown"
    BY <2>1
  <2> QED BY <1>3, <2>1, <2>2 DEF Lifecycle, Barriers
<1>5. CASE current = "Shutdown"
  <2>1. ~Serving'
    BY <1>1, <1>3, <1>5 DEF PumpInv, Agreement, Serving
  <2>2. /\ Announced("Suspended")' => Announced("Suspended")
        /\ Announced("Resumed")' => Announced("Resumed")
        /\ ownerAt' = "gone" /\ ~Finishing("Suspend")'
    BY <1>1, <1>5, AnnouncedIs, AnnouncedWillBe DEF Finishing, FinishBarrier, pump
  <2>3. Notices'
    BY <1>1, <1>4, <2>2 DEF PumpInv, Notices, pump
  <2> QED BY <1>2, <2>1, <2>3 DEF PumpInv
<1>6. CASE current \in Barriers
  <2>1. /\ ownerAt' = "announce" /\ UNCHANGED current
        /\ Finishing(current)' /\ \A b \in Barriers \ {current} : ~Finishing(b)'
        /\ ~Finishing("Suspend") /\ ~Finishing("Resume")
        /\ Notices
    BY <1>1, <1>6 DEF FinishBarrier, Finishing, Barriers, PumpInv
  <2>2. Notices'
    <3>1. CASE current = "Suspend"
      BY <1>1, <1>3, <1>4, <2>1, <3>1, AnnouncedIs DEF Notices, Heard, pump
    <3>2. CASE current = "Resume"
      BY <1>1, <1>3, <1>4, <2>1, <3>2, AnnouncedIs DEF Notices, pump, Barriers
    <3> QED BY <1>6, <3>1, <3>2 DEF Barriers
  <2>3. ASSUME Serving' PROVE Agreement'
    <3>1. Serving /\ Agreement /\ mode = "BarrierPending"
      BY <1>1, <1>3, <1>6, <2>3 DEF Serving, PumpInv, Agreement, Barriers
    <3>2. ~InFlight("Shutdown")'
      <4>1. channel # <<"Shutdown">>
        <5> SUFFICES ASSUME channel = <<"Shutdown">> PROVE FALSE
          OBVIOUS
        <5>1. 1 \in 1 .. Len(channel) /\ channel[1] = "Shutdown"
          OBVIOUS
        <5> QED BY <3>1, <5>1 DEF Agreement, InFlight
      <4>2. ~(\E i \in 1 .. Len(channel) : channel[i] = "Shutdown")
        BY <1>4, <4>1
      <4> QED BY <1>3, <4>2 DEF Lifecycle
    <3>3. mode' = IF current = "Suspend" THEN "Suspended" ELSE "Active"
      BY <1>6, <3>1 DEF FinishBarrier, Barriers
    <3>4. CASE current = "Suspend"
      BY <1>1, <1>3, <1>4, <2>1, <3>1, <3>2, <3>3, <3>4, AnnouncedIs, AnnouncedWillBe
         DEF Agreement, Notices, Heard, pump, Barriers
    <3>5. CASE current = "Resume"
      BY <1>1, <1>3, <1>4, <2>1, <3>1, <3>2, <3>3, <3>5, AnnouncedIs, AnnouncedWillBe
         DEF Agreement, Heard, pump, Barriers
    <3> QED BY <1>6, <3>4, <3>5 DEF Barriers
  <2> QED BY <1>2, <2>2, <2>3 DEF PumpInv
<1> QED BY <1>1, <1>5, <1>6 DEF Lifecycle

(* The queue the owner announces into: one notification at most, and that  *)
(* of a suspend.                                                           *)
LEMMA ShortQueue ==
  ASSUME TypeOK, PumpInv, ownerAt = "announce"
  PROVE  /\ Len(lifecycleEvents) \in {0, 1}
         /\ \A i \in 1 .. Len(lifecycleEvents) : lifecycleEvents[i] = "Suspended"
<1>1. /\ lifecycleEvents \in Seq(Events) /\ Len(lifecycleEvents) \in Nat
      /\ Tidy(lifecycleEvents) /\ ~Has(lifecycleEvents, "Resumed")
  BY LenProperties DEF PumpInv, Notices, TypeOK, Events
<1>2. \A i \in 1 .. Len(lifecycleEvents) : lifecycleEvents[i] = "Suspended"
  BY <1>1, ElementOfSeq DEF Has, Events
<1>3. ASSUME Len(lifecycleEvents) > 1 PROVE FALSE
  <2>1. 1 \in 1 .. Len(lifecycleEvents) /\ 2 \in 1 .. Len(lifecycleEvents) /\ 1 < 2
    BY <1>1, <1>3
  <2> QED BY <1>1, <1>2, <2>1 DEF Tidy
<1>4. \A n \in Nat : ~(n > 1) => n \in {0, 1}
  OBVIOUS
<1> QED BY <1>1, <1>2, <1>3, <1>4

(* The notification enters the queue. *)
LEMMA AnnounceView ==
  ASSUME IInv, PumpInv, Announce, UNCHANGED <<lifecycle, pump, sleepSignals>>
  PROVE  PumpInv'
<1> DEFINE event == IF current = "Suspend" THEN "Suspended" ELSE "Resumed"
           kept  == IF Len(lifecycleEvents) = MaxLifecycleEvents
                    THEN Tail(lifecycleEvents) ELSE lifecycleEvents
<1>1. /\ ownerAt = "announce" /\ ownerAt' = "idle" /\ current \in Barriers
      /\ lifecycleEvents' = Append(kept, event)
      /\ UNCHANGED <<mode, senderOpen, channel, serviceAt>>
      /\ TypeOK /\ Notices
  BY DEF Announce, admission, pipe, IInv, HandOK, PumpInv
<1>2. PumpTypes' /\ PumpPlace'
  BY <1>1 DEF PumpInv, PumpTypes, PumpPlace, pump
<1>3. /\ Finishing(current) /\ \A b \in Barriers \ {current} : ~Finishing(b)
      /\ ~Finishing("Suspend")' /\ ~Finishing("Resume")'
      /\ event \in Events
  BY <1>1 DEF Finishing, Events
<1>4. /\ kept \in Seq(Events)
      /\ \A e \in Events : Has(kept, e) => Has(lifecycleEvents, e)
      /\ Tidy(kept)
  <2>1. lifecycleEvents \in Seq(Events)
    BY <1>1 DEF TypeOK, Events
  <2>2. CASE Len(lifecycleEvents) = MaxLifecycleEvents
    <3>1. lifecycleEvents # << >>
      BY <2>1, <2>2, EmptySeq, SizesAssumption
    <3> QED BY <1>1, <2>1, <2>2, <3>1, HasTail, TidyTail, HeadTailProperties DEF Notices
  <2> QED BY <1>1, <2>1, <2>2 DEF Notices
<1>5. \A e \in Events : Has(lifecycleEvents', e) <=> (Has(kept, e) \/ e = event)
  <2> HIDE DEF kept, event
  <2> QED BY <1>1, <1>3, <1>4, HasAppend
<1>6. Tidy(lifecycleEvents')
  <2>1. ~Has(kept, event) /\ ~Has(kept, "Resumed")
    BY <1>1, <1>3, <1>4 DEF Notices, Events, Barriers
  <2> HIDE DEF kept, event
  <2> QED BY <1>1, <1>3, <1>4, <2>1, TidyAppend
<1>7. \A b \in Lifecycle : InFlight(b)' <=> InFlight(b)
  BY <1>1 DEF InFlight
<1>8. CASE current = "Suspend"
  <2>1. /\ event = "Suspended" /\ Has(lifecycleEvents', "Suspended")
        /\ ~Has(lifecycleEvents', "Resumed") /\ ~InFlight("Suspend")
    BY <1>1, <1>3, <1>4, <1>5, <1>8, AnnouncedIs DEF Notices, Events, Heard
  <2>2. /\ Announced("Suspended")' /\ Announced("Suspended")
        /\ Announced("Resumed")' <=> Announced("Resumed")
    BY <1>1, <1>3, <1>8, <2>1, AnnouncedIs, AnnouncedWillBe DEF pump, Notices, Barriers
  <2>3. Notices'
    BY <1>1, <1>3, <1>6, <1>7, <1>8, <2>1, <2>2 DEF Notices, pump, Lifecycle, Barriers
  <2>4. Serving' => Agreement'
    BY <1>1, <1>7, <2>2 DEF PumpInv, Serving, Agreement, Heard, pump, Lifecycle, Barriers
  <2> QED BY <1>2, <2>3, <2>4 DEF PumpInv
<1>9. CASE current = "Resume"
  <2>1. /\ event = "Resumed" /\ Has(lifecycleEvents', "Resumed")
        /\ Announced("Resumed")' /\ Announced("Resumed")
        /\ ~InFlight("Resume") /\ ~InFlight("Suspend") /\ ~Has(batch, "Resumed")
    BY <1>1, <1>3, <1>5, <1>9, AnnouncedIs, AnnouncedWillBe DEF Notices, Events, Heard
  <2>2. Has(batch, "Suspended") => ~Has(lifecycleEvents', "Suspended")
    BY <1>1, <1>4, <1>5, <2>1 DEF Notices, Events
  <2>3. Notices'
    BY <1>1, <1>3, <1>6, <1>7, <2>1, <2>2 DEF Notices, pump, Lifecycle, Barriers
  <2>4. Serving' => Agreement'
    BY <1>1, <1>7, <2>1 DEF PumpInv, Serving, Agreement, Heard, pump, Lifecycle, Barriers
  <2> QED BY <1>2, <2>3, <2>4 DEF PumpInv
<1> QED BY <1>1, <1>8, <1>9 DEF Barriers

(* The main thread, other than through the pump. *)
LEMMA MainView ==
  ASSUME PumpInv, MainProceeds
  PROVE  PumpInv'
<1>1. /\ UNCHANGED <<lifecycle, pump, sleepSignals, lifecycleEvents, mode, ownerAt, current, channel>>
      /\ \A b \in Lifecycle : InFlight(b)' <=> InFlight(b)
      /\ \A b \in Barriers : Finishing(b)' <=> Finishing(b)
  BY DEF MainProceeds, MainRun, StartReturns, StartTimesOut, DropSender, Join, daemonVars, watcher,
     events, ownerVars, admission, pipe, InFlight, Finishing
<1>2. /\ serviceAt \notin {"up"} /\ serviceAt' # "starting"
      /\ serviceAt' = "up" => serviceAt = "starting" /\ ownerAt # "gone" /\ UNCHANGED senderOpen
  BY DEF MainProceeds, MainRun, StartReturns, StartTimesOut, DropSender, Join
<1>3. PumpTypes' /\ PumpPlace'
  BY <1>1, <1>2 DEF PumpInv, PumpTypes, PumpPlace, pump
<1>4. /\ Announced("Suspended")' <=> Announced("Suspended")
      /\ Announced("Resumed")' <=> Announced("Resumed")
  BY <1>1, AnnouncedIs, AnnouncedWillBe DEF pump, Barriers
<1>5. ownerAt' # "panicked" => Notices'
  BY <1>1, <1>4 DEF PumpInv, Notices, Heard, pump, Lifecycle, Barriers
<1>6. Serving' => Agreement'
  BY <1>1, <1>2, <1>4 DEF PumpInv, Serving, Agreement, Heard, pump, Lifecycle, Barriers
<1> QED BY <1>3, <1>5, <1>6 DEF PumpInv

(* What next_barrier decides on a signal fits with what the owner has      *)
(* announced ...                                                           *)
LEMMA SignalView ==
  ASSUME PumpInv, TakeSignal
  PROVE  PumpInv'
<1>1. /\ UNCHANGED vars /\ UNCHANGED <<pumpAt, batch>>
      /\ serviceAt = "up" /\ pumpAt = "signals" /\ barrier = "none"
      /\ awakeWanted' \in BOOLEAN /\ sleepSignals' \in Seq(BOOLEAN)
      /\ NextBarrier("signal", awakeWanted')
  BY HeadTailProperties DEF TakeSignal, PumpInv, PumpTypes
<1>2. /\ UNCHANGED <<mode, senderOpen, channel, ownerAt, current, lifecycleEvents, serviceAt>>
      /\ \A b \in Lifecycle : InFlight(b)' <=> InFlight(b)
      /\ \A b \in Barriers : Finishing(b)' <=> Finishing(b)
      /\ Announced("Suspended")' <=> Announced("Suspended")
      /\ Announced("Resumed")' <=> Announced("Resumed")
  BY <1>1 DEF vars, admission, pipe, ownerVars, events, InFlight, Finishing, Announced
<1>3. /\ lifecycle \in {"Active", "Suspended"} /\ lifecycle' \in {"Active", "Suspended"}
      /\ barrier' \in Barriers \cup {"none"}
  BY <1>1 DEF PumpInv, PumpTypes, PumpPlace, NextBarrier, Barriers
<1>4. PumpTypes' /\ PumpPlace'
  BY <1>1, <1>2, <1>3 DEF PumpInv, PumpTypes, PumpPlace
<1>5. ownerAt' # "panicked" => Notices'
  BY <1>1, <1>2 DEF PumpInv, Notices, Heard, Lifecycle, Barriers
<1>6. ASSUME Serving' PROVE Agreement'
  <2>1. Agreement
    BY <1>2, <1>6 DEF Serving, PumpInv
  <2>2. CASE ~awakeWanted' /\ lifecycle = "Active"
    BY <1>1, <1>2, <2>1, <2>2 DEF Agreement, Heard, NextBarrier, Lifecycle, Barriers
  <2>3. CASE awakeWanted' /\ lifecycle = "Suspended"
    BY <1>1, <1>2, <2>1, <2>3 DEF Agreement, Heard, NextBarrier, Lifecycle, Barriers
  <2>4. CASE lifecycle # (IF awakeWanted' THEN "Suspended" ELSE "Active")
    BY <1>1, <1>2, <1>3, <2>1, <2>4 DEF Agreement, Heard, NextBarrier, Lifecycle, Barriers
  <2> QED BY <1>1, <1>3, <2>2, <2>3, <2>4
<1> QED BY <1>4, <1>5, <1>6 DEF PumpInv

(* ... and so does what it decides on a notification, heard in its turn.   *)
LEMMA EventView ==
  ASSUME TypeOK, PumpInv, HandleEvent
  PROVE  PumpInv'
<1> DEFINE e == Head(batch)
<1>1. /\ UNCHANGED vars /\ UNCHANGED <<pumpAt, awakeWanted, sleepSignals>>
      /\ serviceAt = "up" /\ pumpAt = "events" /\ barrier = "none"
      /\ batch # << >> /\ batch' = Tail(batch)
      /\ e \in Events \cup {"StateChanged"} /\ batch' \in Seq(Events \cup {"StateChanged"})
      /\ awakeWanted \in BOOLEAN
      /\ IF e = "StateChanged" THEN UNCHANGED <<lifecycle, barrier>> ELSE NextBarrier(e, awakeWanted)
  BY HeadTailProperties DEF HandleEvent, PumpInv, PumpTypes, watcher
<1>2. /\ UNCHANGED <<mode, senderOpen, channel, ownerAt, current, lifecycleEvents, serviceAt>>
      /\ \A b \in Lifecycle : InFlight(b)' <=> InFlight(b)
      /\ \A b \in Barriers : Finishing(b)' <=> Finishing(b)
  BY <1>1 DEF vars, admission, pipe, ownerVars, events, InFlight, Finishing
<1>3. /\ lifecycle \in {"Active", "Suspended"} /\ lifecycle' \in {"Active", "Suspended"}
      /\ barrier' \in Barriers \cup {"none"}
  BY <1>1 DEF PumpInv, PumpTypes, PumpPlace, NextBarrier, Barriers, Events
<1>4. PumpTypes' /\ PumpPlace'
  BY <1>1, <1>2, <1>3 DEF PumpInv, PumpTypes, PumpPlace
<1>5. \A x : Has(batch, x) <=> (e = x \/ Has(batch', x))
  <2>1. batch \in Seq(Events \cup {"StateChanged"})
    BY DEF PumpInv, PumpTypes
  <2> QED BY <1>1, <2>1, HasTail
<1>6. ASSUME ownerAt # "panicked"
      PROVE  /\ Tidy(batch') /\ ~Has(batch', e)
             /\ e = "Resumed" => batch' = << >> /\ ~Has(batch', "Suspended") /\ ~Has(batch', "Resumed")
             /\ Notices
  <2>1. batch \in Seq(Events \cup {"StateChanged"}) /\ Tidy(batch) /\ Notices
    BY <1>6 DEF PumpInv, PumpTypes, Notices
  <2> QED BY <1>1, <2>1, TidyTail, HasNone
<1>7. /\ Announced("Suspended") <=> e = "Suspended" \/ Announced("Suspended")'
      /\ Announced("Resumed") <=> e = "Resumed" \/ Announced("Resumed")'
  BY <1>2, <1>5, AnnouncedIs, AnnouncedWillBe DEF Barriers
<1>8. ownerAt' # "panicked" => Notices'
  BY <1>2, <1>5, <1>6, <1>7 DEF Notices, Heard, Lifecycle, Barriers
<1>9. ASSUME Serving' PROVE Agreement'
  <2>1. Agreement /\ Serving /\ ownerAt # "panicked"
    BY <1>2, <1>9 DEF Serving, PumpInv
  <2>2. CASE e = "StateChanged"
    BY <1>1, <1>2, <1>7, <2>1, <2>2 DEF Agreement, Heard, Lifecycle, Barriers
  <2>3. CASE e = "Suspended"
    <3>1. lifecycle = "Suspended" /\ UNCHANGED lifecycle
      BY <1>1, <1>3, <1>7, <2>1, <2>3 DEF Agreement, Heard, NextBarrier
    <3> QED BY <1>1, <1>2, <1>7, <2>1, <2>3, <3>1 DEF Agreement, Heard, NextBarrier, Lifecycle, Barriers
  <2>4. CASE e = "Resumed"
    <3>1. lifecycle = "Suspended" /\ mode = "Active"
      BY <1>3, <1>7, <2>1, <2>4 DEF Agreement, Heard
    <3>2. ~Announced("Suspended")' /\ ~Announced("Resumed")'
      <4>1. Has(batch, "Resumed")
        BY <1>5, <2>4
      <4>2. lifecycleEvents' = << >> /\ ownerAt' # "announce"
        BY <1>2, <1>6, <2>1, <4>1 DEF Notices
      <4> QED BY <1>6, <2>1, <2>4, <4>2, AnnouncedWillBe, HasNone DEF Finishing
    <3> QED BY <1>1, <1>2, <1>3, <2>1, <2>4, <3>1, <3>2 DEF Agreement, Heard, NextBarrier, Lifecycle, Barriers
  <2> QED BY <1>1, <2>2, <2>3, <2>4 DEF Events
<1> QED BY <1>4, <1>8, <1>9 DEF PumpInv

(* The pump hears of everything the owner has announced so far, in order. *)
LEMMA DrainView ==
  ASSUME TypeOK, PumpInv, PumpDrains
  PROVE  PumpInv'
<1>1. /\ serviceAt = "up" /\ pumpAt = "drain" /\ pumpAt' = "events"
      /\ batch' = (IF stateChanged THEN <<"StateChanged">> ELSE << >>) \o lifecycleEvents
      /\ lifecycleEvents' = << >>
      /\ UNCHANGED <<lifecycle, barrier, awakeWanted, sleepSignals, mode, senderOpen, channel,
                     ownerAt, current, serviceAt>>
  BY DEF PumpDrains, DrainEvents, PumpGoto, watcher, admission, pipe, ownerVars
<1>2. barrier = "none" /\ batch = << >>
  BY <1>1 DEF PumpInv, PumpPlace
<1>3. /\ batch' \in Seq(Events \cup {"StateChanged"})
      /\ Tidy(lifecycleEvents) =>
           Tidy(batch') /\ \A e \in Events : Has(batch', e) <=> Has(lifecycleEvents, e)
  <2>1. lifecycleEvents \in Seq(Events) /\ stateChanged \in BOOLEAN
    BY DEF TypeOK, Events
  <2>2. CASE Tidy(lifecycleEvents)
    BY <1>1, <2>1, <2>2, Drained
  <2>3. batch' \in Seq(Events \cup {"StateChanged"})
    <3>1. lifecycleEvents \in Seq(Events \cup {"StateChanged"})
      BY <2>1, SeqMonotonic
    <3>2. <<"StateChanged">> \in Seq(Events \cup {"StateChanged"})
          /\ << >> \in Seq(Events \cup {"StateChanged"})
      OBVIOUS
    <3>3. \A f \in Seq(Events \cup {"StateChanged"}) :
            f \o lifecycleEvents \in Seq(Events \cup {"StateChanged"})
      BY <3>1, ConcatProperties
    <3> QED BY <1>1, <3>2, <3>3
  <2> QED BY <2>2, <2>3
<1>4. PumpTypes' /\ PumpPlace'
  BY <1>1, <1>2, <1>3 DEF PumpInv, PumpTypes, PumpPlace
<1>5. /\ \A b \in Lifecycle : InFlight(b)' <=> InFlight(b)
      /\ \A b \in Barriers : Finishing(b)' <=> Finishing(b)
  BY <1>1 DEF InFlight, Finishing
<1>6. ASSUME ownerAt' # "panicked"
      PROVE  /\ Announced("Suspended")' <=> Announced("Suspended")
             /\ Announced("Resumed")' <=> Announced("Resumed")
             /\ Notices /\ Tidy(batch') /\ Tidy(lifecycleEvents')
             /\ \A e \in Events : ~Has(lifecycleEvents', e)
             /\ \A e \in Events : Has(batch', e) <=> Has(lifecycleEvents, e)
  <2>1. Notices /\ Tidy(lifecycleEvents)
    BY <1>1, <1>6 DEF PumpInv, Notices
  <2>2. \A e : ~Has(<< >>, e) /\ Tidy(<< >>)
    BY HasNone
  <2>3. \A e \in Events : Has(batch', e) <=> Has(lifecycleEvents, e)
    BY <1>3, <2>1
  <2> QED BY <1>1, <1>2, <1>3, <1>5, <2>1, <2>2, <2>3, AnnouncedIs, AnnouncedWillBe DEF Events, Barriers
<1>7. ownerAt' # "panicked" => Notices'
  BY <1>1, <1>5, <1>6 DEF Notices, Heard, Events, Lifecycle, Barriers
<1>8. Serving' => Agreement'
  BY <1>1, <1>5, <1>6 DEF PumpInv, Serving, Agreement, Heard, Lifecycle, Barriers
<1> QED BY <1>4, <1>7, <1>8 DEF PumpInv

(* While the daemon serves, the mode alone decides whether a barrier goes   *)
(* in: it finds room, and an owner to take it.                             *)
LEMMA BarrierGoesIn ==
  ASSUME IInv, BarriersAlwaysFit, PumpInv, Serving, serviceAt = "up",
         NEW op \in Barriers, Submit(op)
  PROVE  Enqueue(op) \/ (~Allowed(op) /\ UNCHANGED <<mode, channel>>)
<1>1. senderOpen /\ OwnerAlive /\ op \in Lifecycle
  BY DEF PumpInv, Agreement, Serving, OwnerAlive, Lifecycle
<1>2. Len(channel) \in Nat /\ Capacity \in Nat
  BY LenProperties, SizesAssumption DEF IInv, TypeOK
<1>3. CASE Refuse(op)
  <2>1. ~Allowed(op)
    BY <1>1, <1>2, <1>3 DEF Refuse, BarriersAlwaysFit
  <2> QED BY <1>3, <2>1 DEF Refuse, pipe
<1> QED BY <1>3 DEF Submit

(* The pump submits the barrier it decided on. *)
LEMMA BarrierView ==
  ASSUME IInv, BarriersAlwaysFit, PumpInv, StartBarrier
  PROVE  PumpInv'
<1>1. /\ barrier \in Barriers /\ serviceAt = "up" /\ Submit(barrier) /\ barrier' = "none"
      /\ UNCHANGED <<pumpAt, awakeWanted, batch, sleepSignals, lifecycleEvents, senderOpen,
                     ownerAt, current, serviceAt>>
      /\ lifecycle' = IF barrier = "Suspend" /\ channel' = channel /\ lifecycle = "Suspended"
                      THEN "Active" ELSE lifecycle
  BY DEF StartBarrier, BeginSuspend, BeginResume, PumpSubmits, PumpInv, PumpTypes, Barriers, watcher,
     events, ownerVars, pipe, Submit, Enqueue, Refuse
<1>2. PumpTypes' /\ PumpPlace'
  BY <1>1 DEF PumpInv, PumpTypes, PumpPlace
<1>3. /\ \A b \in Barriers : Finishing(b)' <=> Finishing(b)
      /\ Announced("Suspended")' <=> Announced("Suspended")
      /\ Announced("Resumed")' <=> Announced("Resumed")
  BY <1>1 DEF Finishing, Announced
<1>4. CASE ownerAt = "panicked"
  BY <1>1, <1>2, <1>4 DEF PumpInv, Serving
<1>5. CASE ownerAt # "panicked"
  <2>1. /\ Serving /\ Serving' /\ Agreement /\ Notices
        /\ TypeOK /\ barrier \in Operations /\ barrier \in Lifecycle
    BY <1>1, <1>5 DEF Serving, PumpInv, IInv, Operations, Lifecycle
  <2>2. CASE Enqueue(barrier)
    <3>1. /\ \A b \in Lifecycle : InFlight(b)' <=> (InFlight(b) \/ b = barrier)
          /\ mode' = "BarrierPending" /\ channel' # channel /\ UNCHANGED lifecycle
          /\ Allowed(barrier)
      <4>1. channel' # channel
        BY <2>1, <2>2, AppendProperties, LenProperties DEF Enqueue, TypeOK
      <4>2. \A b \in Lifecycle : InFlight(b)' <=> (InFlight(b) \/ b = barrier)
        BY <1>1, <2>1, <2>2, FlightEnqueued
      <4>3. mode' = "BarrierPending" /\ Allowed(barrier)
        <5>1. mode' = ModeAfter(barrier) /\ Allowed(barrier)
          BY <2>2 DEF Enqueue
        <5> QED BY <1>1, <5>1 DEF ModeAfter, Barriers
      <4> QED BY <1>1, <4>1, <4>2, <4>3
    <3>2. CASE barrier = "Suspend"
      <4>1. Notices'
        BY <1>1, <1>3, <2>1, <3>1, <3>2 DEF Notices, Agreement, Heard, Lifecycle, Barriers
      <4>2. Agreement'
        BY <1>1, <1>3, <2>1, <3>1, <3>2 DEF Agreement, Heard, Lifecycle, Barriers
      <4> QED BY <1>2, <4>1, <4>2 DEF PumpInv
    <3>3. CASE barrier = "Resume"
      <4>1. mode = "Suspended" /\ ~Announced("Resumed")
        BY <2>1, <3>1, <3>3, OperationSets DEF Allowed, Agreement, Barriers, Work, Maintenance
      <4>2. Notices'
        BY <1>1, <1>3, <2>1, <3>1, <3>3, <4>1 DEF Notices, Agreement, Heard, Lifecycle, Barriers
      <4>3. Agreement'
        BY <1>1, <1>3, <2>1, <3>1, <3>3, <4>1 DEF Agreement, Heard, Lifecycle, Barriers
      <4> QED BY <1>2, <4>2, <4>3 DEF PumpInv
    <3> QED BY <1>1, <3>2, <3>3 DEF Barriers
  <2>3. CASE ~Allowed(barrier) /\ UNCHANGED <<mode, channel>>
    <3>1. barrier = "Resume" /\ mode # "Suspended"
      BY <1>1, <2>1, <2>3 DEF Allowed, Agreement, Barriers
    <3>2. \A b \in Lifecycle : InFlight(b)' <=> InFlight(b)
      BY <1>1, <2>3 DEF InFlight
    <3>3. Notices'
      BY <1>1, <1>3, <2>1, <3>2 DEF Notices, Heard, Lifecycle, Barriers
    <3>4. Agreement'
      BY <1>1, <1>3, <2>1, <2>3, <3>1, <3>2 DEF Agreement, Heard, Lifecycle, Barriers
    <3> QED BY <1>2, <3>3, <3>4 DEF PumpInv
  <2> QED BY <1>1, <2>1, <2>2, <2>3, BarrierGoesIn
<1> QED BY <1>4, <1>5

(* The pump's other steps. *)
LEMMA PumpView ==
  ASSUME IInv, BarriersAlwaysFit, PumpInv, PumpRun \/ PumpMaintains \/ PumpTimesOut
  PROVE  PumpInv'
<1>1. CASE PumpTop
  <2>1. /\ UNCHANGED vars /\ UNCHANGED <<barrier, awakeWanted, batch, sleepSignals>>
        /\ serviceAt = "up" /\ pumpAt = "top"
        /\ \/ pumpAt' = "leaving" /\ lifecycle' = "ShuttingDown"
           \/ pumpAt' = "maintain" /\ UNCHANGED lifecycle
    BY <1>1 DEF PumpTop, PumpGoto, watcher
  <2>2. PumpTypes' /\ PumpPlace'
    BY <2>1 DEF PumpInv, PumpTypes, PumpPlace, vars
  <2>3. ownerAt' # "panicked" => Notices'
    BY <2>1 DEF PumpInv, Notices, Heard, Announced, Finishing, InFlight, vars, pipe, ownerVars, events
  <2>4. Serving' => Agreement'
    BY <2>1 DEF PumpInv, PumpPlace, Serving, Agreement, Heard, Announced, Finishing, InFlight, vars,
       admission, pipe, ownerVars, events
  <2> QED BY <2>2, <2>3, <2>4 DEF PumpInv
<1>2. CASE PumpSkipsMaintenance \/ SignalsDone \/ EventsDone \/ PumpWakes \/ PumpTimesOut
  <2>1. /\ UNCHANGED vars /\ UNCHANGED <<lifecycle, barrier, awakeWanted, batch, sleepSignals>>
        /\ barrier = "none" /\ serviceAt = "up"
        /\ pumpAt \in {"maintain", "signals", "events", "wait"}
        /\ pumpAt' \in {"signals", "drain", "wait", "top"}
        /\ batch = << >>
    BY <1>2 DEF PumpSkipsMaintenance, SignalsDone, EventsDone, PumpWakes, PumpTimesOut, PumpGoto,
       watcher, PumpInv, PumpPlace
  <2>2. PumpTypes' /\ PumpPlace'
    BY <2>1 DEF PumpInv, PumpTypes, PumpPlace, vars
  <2>3. ownerAt' # "panicked" => Notices'
    BY <2>1 DEF PumpInv, Notices, Heard, Announced, Finishing, InFlight, vars, pipe, ownerVars, events
  <2>4. Serving' => Agreement'
    BY <2>1 DEF PumpInv, Serving, Agreement, Heard, Announced, Finishing, InFlight, vars,
       admission, pipe, ownerVars, events
  <2> QED BY <2>2, <2>3, <2>4 DEF PumpInv
<1>3. CASE PumpLeaves
  <2>1. /\ UNCHANGED <<lifecycle, pump, sleepSignals, lifecycleEvents, ownerAt, current>>
        /\ serviceAt' = "closing" /\ barrier = "none" /\ Submit("Shutdown") /\ TypeOK
    BY <1>3 DEF PumpLeaves, BeginShutdown, daemonVars, watcher, events, ownerVars, PumpInv, PumpPlace, IInv
  <2>2. PumpTypes' /\ PumpPlace'
    BY <2>1 DEF PumpInv, PumpTypes, PumpPlace, pump
  <2>3. \A b \in Barriers : InFlight(b)' <=> InFlight(b)
    <3>1. "Shutdown" \in Operations /\ Barriers \subseteq Lifecycle /\ "Shutdown" \notin Barriers
      BY DEF Operations, Lifecycle, Barriers
    <3>2. CASE Enqueue("Shutdown")
      BY <2>1, <3>1, <3>2, FlightEnqueued
    <3>3. CASE Refuse("Shutdown")
      BY <2>1, <3>3 DEF Refuse, pipe, InFlight
    <3> QED BY <2>1, <3>2, <3>3 DEF Submit
  <2>4. /\ Announced("Suspended")' <=> Announced("Suspended")
        /\ Announced("Resumed")' <=> Announced("Resumed")
        /\ \A b \in Barriers : Finishing(b)' <=> Finishing(b)
    BY <2>1 DEF Announced, Finishing, pump
  <2>5. ownerAt' # "panicked" => Notices'
    BY <2>1, <2>3, <2>4 DEF PumpInv, Notices, Heard, pump, Barriers
  <2> QED BY <2>1, <2>2, <2>5 DEF PumpInv, Serving
<1>4. CASE PumpMaintains
  <2>1. PICK op \in Maintenance : PumpSubmits(op)
    BY <1>4 DEF PumpMaintains, TryObserve, TryHotplug, Maintenance
  <2>2. /\ op \in Work /\ op \in Operations /\ op \notin Lifecycle /\ TypeOK /\ Submit(op)
        /\ UNCHANGED <<lifecycle, barrier, awakeWanted, batch, sleepSignals, lifecycleEvents, ownerAt,
                       current, serviceAt, senderOpen>>
        /\ serviceAt = "up" /\ pumpAt = "maintain" /\ pumpAt' = "signals" /\ barrier = "none"
    BY <1>4, <2>1, OperationSets DEF PumpMaintains, PumpSubmits, PumpGoto, watcher, events, ownerVars,
       Work, IInv, PumpInv, PumpPlace, Submit, Enqueue, Refuse, pipe
  <2>3. PumpTypes' /\ PumpPlace'
    BY <2>2 DEF PumpInv, PumpTypes, PumpPlace
  <2>4. \A b \in Lifecycle : InFlight(b)' <=> InFlight(b)
    <3>1. CASE Enqueue(op)
      BY <2>2, <3>1, FlightEnqueued
    <3>2. CASE Refuse(op)
      BY <2>2, <3>2 DEF Refuse, pipe, InFlight
    <3> QED BY <2>2, <3>1, <3>2 DEF Submit
  <2>5. Serving => UNCHANGED mode
    <3>1. CASE Enqueue(op)
      BY <2>2, <3>1 DEF Enqueue, ModeAfter, Lifecycle
    <3>2. CASE Refuse(op)
      BY <2>2, <3>2 DEF Refuse, OwnerAlive, Serving, PumpInv, Agreement
    <3> QED BY <2>2, <3>1, <3>2 DEF Submit
  <2>6. /\ Announced("Suspended")' <=> Announced("Suspended")
        /\ Announced("Resumed")' <=> Announced("Resumed")
        /\ \A b \in Barriers : Finishing(b)' <=> Finishing(b)
    BY <2>2 DEF Announced, Finishing
  <2>7. ownerAt' # "panicked" => Notices'
    BY <2>2, <2>4, <2>6 DEF PumpInv, Notices, Heard, Lifecycle, Barriers
  <2>8. Serving' => Agreement'
    BY <2>2, <2>4, <2>5, <2>6 DEF PumpInv, Serving, Agreement, Heard, Lifecycle, Barriers
  <2> QED BY <2>3, <2>7, <2>8 DEF PumpInv
<1> QED BY <1>1, <1>2, <1>3, <1>4, SignalView, EventView, DrainView, BarrierView DEF PumpRun, IInv

-----------------------------------------------------------------------------
(* At first nothing is announced and nothing asked for. *)
LEMMA PumpInit == DaemonInit => PumpInv
<1> SUFFICES ASSUME DaemonInit PROVE PumpInv
  OBVIOUS
<1>1. /\ mode = "Active" /\ senderOpen = TRUE /\ channel = << >> /\ ownerAt = "booting"
      /\ current = None /\ lifecycleEvents = << >> /\ serviceAt = "starting"
      /\ lifecycle = "Active" /\ pumpAt = "top" /\ barrier = "none" /\ awakeWanted = TRUE
      /\ batch = << >> /\ sleepSignals = << >>
  BY DEF DaemonInit, Init
<1>2. \A b : ~InFlight(b) /\ ~Finishing(b)
  BY <1>1 DEF InFlight, Finishing
<1>3. ~Announced("Suspended") /\ ~Announced("Resumed")
  BY <1>1, <1>2, AnnouncedIs, HasNone
<1>4. PumpTypes /\ PumpPlace
  BY <1>1, EmptySeq DEF PumpTypes, PumpPlace
<1>5. Notices
  BY <1>1, <1>2, HasNone DEF Notices
<1>6. Agreement
  BY <1>1, <1>2, <1>3 DEF Agreement, Heard
<1> QED BY <1>4, <1>5, <1>6 DEF PumpInv

(* Every step of the daemon keeps the pump and the executor in agreement. *)
LEMMA PumpStep ==
  ASSUME IInv, BarriersAlwaysFit, PumpInv, [DaemonNext]_allVars
  PROVE  PumpInv'
<1>1. CASE UNCHANGED <<vars, lifecycle, pump, sleepSignals>>
  BY <1>1, ViewKept DEF vars, admission, pipe, ownerVars, events, InFlight, Finishing, Lifecycle
<1>2. CASE UNCHANGED allVars
  BY <1>1, <1>2 DEF allVars, daemonVars, watcher
<1>3. CASE NotifyPump \/ SignalFlag \/ SignalPipe
  BY <1>1, <1>3 DEF NotifyPump, SignalFlag, SignalPipe, watcher
<1>4. CASE ForwardSignal
  <2>1. /\ UNCHANGED <<vars, lifecycle, pump>>
        /\ sleepSignals' \in Seq(BOOLEAN)
    BY <1>4, AppendProperties DEF ForwardSignal, PumpInv, PumpTypes
  <2>2. PumpTypes' /\ PumpPlace'
    BY <2>1 DEF PumpInv, PumpTypes, PumpPlace, pump, vars
  <2>3. ownerAt' # "panicked" => Notices'
    BY <2>1 DEF PumpInv, Notices, Heard, Announced, Finishing, InFlight, vars, pipe, ownerVars, events, pump
  <2>4. Serving' => Agreement'
    BY <2>1 DEF PumpInv, Serving, Agreement, Heard, Announced, Finishing, InFlight, vars,
       admission, pipe, ownerVars, events, pump
  <2> QED BY <2>2, <2>3, <2>4 DEF PumpInv
<1>5. ASSUME NEW c \in Clients,
             CheckLifecycle(c) \/ RejectInactive(c) \/ DispatchChecked(c)
               \/ CommitLease(c) \/ ClientProceeds(c)
      PROVE  PumpInv'
  BY <1>5, ThreadView
<1>6. CASE OwnerPublishes \/ OwnerProceeds
  <2>1. UNCHANGED <<lifecycle, pump, sleepSignals>>
    BY <1>6 DEF OwnerPublishes, OwnerProceeds, daemonVars, watcher
  <2>2. CASE Announce
    BY <2>1, <2>2, AnnounceView
  <2>3. CASE FinishBarrier
    BY <2>1, <2>3, FinishView
  <2>4. CASE \/ Panic \/ (OwnerQuiet /\ ~FinishBarrier)
             \/ \E effect \in BOOLEAN : ExecuteCommand(effect) \/ Maintain(effect)
    BY <2>1, <2>4, OwnerViewQuiet
  <2> QED BY <1>6, <2>2, <2>3, <2>4 DEF OwnerPublishes, OwnerProceeds
<1> QED BY <1>2, <1>3, <1>4, <1>5, <1>6, PumpView, MainView DEF DaemonNext

LEMMA PumpInvariance == DaemonSpec => [](PumpInv /\ IInv)
<1>1. DaemonSpec => []IInv /\ []BarriersAlwaysFit
  <2>1. DaemonSpec => []BarriersAlwaysFit
    BY DaemonGate, PTL
  <2> QED BY <2>1, DaemonImplementsExecutor, Invariance, PTL
<1>2. IInv /\ BarriersAlwaysFit /\ PumpInv /\ [DaemonNext]_allVars => PumpInv'
  BY PumpStep
<1> QED BY <1>1, <1>2, PumpInit, PTL DEF DaemonSpec

(* Clients are let in only while the executor admits work, for every size   *)
(* of the queues and however the signals, the barriers and their            *)
(* notifications interleave.                                               *)
THEOREM OpenMeansAdmitting == DaemonSpec => []OpenLifecycleAdmits
<1>1. PumpInv => OpenLifecycleAdmits
  BY DEF PumpInv, Serving, Agreement, OpenLifecycleAdmits
<1> QED BY <1>1, PumpInvariance, PTL

(* A wake signal that lands while a suspend is in flight is not forgotten:  *)
(* while the daemon serves and its owner is alive, a closed lifecycle has   *)
(* a barrier asked for, in flight, or finished and to be announced, or the  *)
(* backend rests suspended and nobody wants it awake, or its Suspended is   *)
(* still to be announced.                                                   *)
THEOREM NobodyIsStranded == DaemonSpec => []NeverStranded
<1>1. PumpInv => NeverStranded
  BY DEF PumpInv, Serving, Agreement, NeverStranded, OwnerAlive, PumpTypes, Barriers
<1> QED BY <1>1, PumpInvariance, PTL

(* Two notifications' room is enough (MAX_LIFECYCLE_EVENTS is 8): the pump  *)
(* never has more than one unheard when the owner announces the next.      *)
THEOREM TwoNoticesSuffice ==
  ASSUME MaxLifecycleEvents >= 2
  PROVE  DaemonSpec => []NoNotificationDropped
<1>1. PumpInv /\ IInv => NoNotificationDropped
  BY ShortQueue, SizesAssumption DEF IInv, NoNotificationDropped
<1> QED BY <1>1, PumpInvariance, PTL
=============================================================================
