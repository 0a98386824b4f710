--------------------------- MODULE ExecutorProofs ---------------------------
(***************************************************************************)
(* What holds of the executor for every number of connections and keys and *)
(* every capacity with a reserve of two: its types, and the invariants of  *)
(* admission (Executor's BarriersAlwaysFit, WorkNeedsOpenBackend and       *)
(* NothingBehindBarrier).                                                  *)
(*                                                                         *)
(* None of the three is inductive alone. What carries them is the shape of *)
(* the queue that each admission mode allows (ModeCut), which counts both  *)
(* the channel and an operation the owner has received but not finished:   *)
(* see Gate below.                                                         *)
(***************************************************************************)
EXTENDS Executor, SequenceTheorems, TLAPS

(* The owner holds a barrier whose effect on the mode is still to come, or *)
(* never will, because it panicked in it.                                  *)
Unfinished ==
  current \in Lifecycle /\ ownerAt \in {"received", "dispatch", "barrier", "panicked"}

(* Where the owner is tells what it has in hand. *)
HandOK ==
  /\ ownerAt \in {"received", "dispatch"} => current \in Operations
  /\ ownerAt \in {"running", "recording", "replying"} => current \in Clients
  /\ ownerAt = "barrier" => current \in Lifecycle
  /\ ownerAt = "announce" => current \in Barriers
  /\ ownerAt \in {"booting", "idle", "disconnected"} => current = None

(* A connection past reading, queued or in hand has reserved its key. *)
KeysHeld ==
  /\ \A c \in Clients :
       at[c] \in {"registered", "refused", "waiting", "reserved", "committed"} => key[c] \in Keys
  /\ \A i \in 1 .. Len(channel) : channel[i] \in Clients => key[channel[i]] \in Keys
  /\ current \in Clients => key[current] \in Keys

(* Before start has returned nobody can submit. *)
NotStarted ==
  /\ ~Constructed => channel = << >> /\ \A c \in Clients : at[c] = "reading"
  /\ ownerAt = "booting" => ~Constructed

(* The admission count is the channel, and what the owner has received but *)
(* not yet released.                                                       *)
Counted == queued = Len(channel) + (IF ownerAt = "received" THEN 1 ELSE 0)

(* Work leaves the reserve free; a pending barrier takes one slot of it. *)
Bounded ==
  /\ mode = "Active" => queued <= Capacity - Reserve
  /\ mode = "BarrierPending" => queued <= Capacity - Reserve + 1

(* In the channel a barrier has nothing behind it but a shutdown ... *)
Cut ==
  \A i \in 1 .. Len(channel) : channel[i] \in Lifecycle =>
    \/ i = Len(channel)
    \/ i + 1 = Len(channel) /\ channel[i] # "Shutdown" /\ channel[i + 1] = "Shutdown"

(* ... and so has one in the owner's hand. *)
HandCut ==
  Unfinished => channel = << >> \/ (current \in Barriers /\ channel = <<"Shutdown">>)

(* What each mode, and each way to end, says of the barriers around. *)
ModeCut ==
  /\ mode = "Active" => ~Unfinished /\ \A i \in 1 .. Len(channel) : channel[i] \notin Lifecycle
  /\ mode = "BarrierPending" =>
       ~(Unfinished /\ current = "Shutdown") /\ \A i \in 1 .. Len(channel) : channel[i] # "Shutdown"
  /\ mode = "Suspended" =>
       channel = << >> /\ ~Unfinished /\ ownerAt \in {"announce", "idle", "disconnected", "panicked"}
  /\ mode = "Stopped" => ~OwnerAlive
  /\ ownerAt = "gone" => channel = << >>
  /\ ownerAt = "disconnected" => channel = << >> /\ ~senderOpen

(* Work is admitted, waits and runs only while the backend is open. *)
OpenForWork ==
  /\ mode = "Active" /\ senderOpen /\ OwnerAlive /\ ownerAt # "booting" => backend = "open"
  /\ OwnerAlive /\ (\E i \in 1 .. Len(channel) : channel[i] \in Work) => backend = "open"
  /\ current \in Work /\ ownerAt \in {"received", "dispatch", "running", "recording"} => backend = "open"
  /\ ownerAt = "barrier" /\ current = "Resume" => backend = "open"

Gate == Counted /\ Bounded /\ Cut /\ HandCut /\ ModeCut /\ OpenForWork

IInv == TypeOK /\ HandOK /\ KeysHeld /\ NotStarted /\ Gate

-----------------------------------------------------------------------------
(* Types. *)
USE SizesAssumption, NamesAssumption

(* Which set an operation belongs to decides everything the owner does. *)
LEMMA OperationSets ==
  /\ Operations = Work \cup Lifecycle
  /\ Work \cap Lifecycle = {}
  /\ Clients \subseteq Work
  /\ Lifecycle = {"Suspend", "Resume", "Shutdown"}
  /\ Maintenance = {"Observe", "Hotplug"}
  /\ None \notin Operations
BY DEF Operations, Work, Lifecycle, Barriers, Maintenance

(* Init satisfies the type invariant. *)
LEMMA TypeInit == Init => TypeOK
<1>1. << >> \in Seq(Operations) /\ << >> \in Seq(Keys) /\ << >> \in Seq({"Suspended", "Resumed"})
  BY EmptySeq
<1>2. ASSUME Init
      PROVE  channel \in Seq(Operations) /\ completed \in Seq(Keys)
             /\ lifecycleEvents \in Seq({"Suspended", "Resumed"})
  BY <1>1, <1>2 DEF Init
<1>3. ASSUME Init
      PROVE  /\ mode \in Modes /\ queued \in Nat /\ senderOpen \in BOOLEAN
             /\ ownerAt \in OwnerPlaces /\ current \in Operations \cup {None}
  BY <1>3 DEF Init, Modes, OwnerPlaces
<1>4. ASSUME Init
      PROVE  /\ entries \in [Keys -> Outcomes \cup {"absent"}]
             /\ at \in [Clients -> ClientPlaces]
             /\ key \in [Clients -> Keys \cup {NoKey}]
  BY <1>4 DEF Init, ClientPlaces, Outcomes
<1>5. ASSUME Init
      PROVE  /\ reply \in [Clients -> {"none"} \cup Terminal]
             /\ answer \in [Clients -> Outcomes \cup {"none", "unknown", "Rejected"}]
             /\ hungUp \subseteq Clients
             /\ fate \in [Clients -> {"none", "ran", "dropped", "committed"}]
  BY <1>5 DEF Init
<1>6. ASSUME Init
      PROVE  /\ stateChanged \in BOOLEAN /\ backend \in {"open", "closed"}
             /\ serviceAt \in {"starting", "up", "aborting", "closing", "joining", "failed", "stopped"}
  BY <1>6 DEF Init
<1> QED BY <1>2, <1>3, <1>4, <1>5, <1>6 DEF TypeOK

(* submit keeps the types, whatever comes of it. *)
LEMMA SubmitTypes ==
  ASSUME TypeOK, NEW op \in Operations, Submit(op)
  PROVE  /\ mode' \in Modes
         /\ queued' \in Nat
         /\ channel' \in Seq(Operations)
         /\ senderOpen' \in BOOLEAN
<1> USE DEF TypeOK, Modes
<1>1. CASE Enqueue(op)
  <2>1. channel' \in Seq(Operations)
    BY <1>1, AppendProperties DEF Enqueue
  <2> QED BY <1>1, <2>1 DEF Enqueue, ModeAfter
<1>2. CASE Refuse(op)
  BY <1>2 DEF Refuse, pipe
<1> QED BY <1>1, <1>2 DEF Submit

(* set_terminal records under a key and keeps the order of completions. *)
LEMMA TerminalTypes ==
  ASSUME TypeOK, NEW k \in Keys, NEW o \in Terminal, SetTerminal(k, o)
  PROVE  entries' \in [Keys -> Outcomes \cup {"absent"}] /\ completed' \in Seq(Keys)
<1> DEFINE recorded == [entries EXCEPT ![k] = o]
           order    == Append(completed, k)
<1>1. recorded \in [Keys -> Outcomes \cup {"absent"}]
  BY DEF TypeOK, Outcomes
<1>2. order \in Seq(Keys) /\ order # << >>
  BY AppendProperties, EmptySeq DEF TypeOK
<1>3. Tail(order) \in Seq(Keys)
  BY <1>2, HeadTailProperties
<1>4. [recorded EXCEPT ![Head(order)] = "absent"] \in [Keys -> Outcomes \cup {"absent"}]
  BY <1>1
<1> QED BY <1>1, <1>2, <1>3, <1>4 DEF SetTerminal

(* A step of a client thread keeps the types. *)
LEMMA ClientTypes ==
  ASSUME TypeOK, HandOK, KeysHeld, NEW c \in Clients, Client(c)
  PROVE  TypeOK'
<1> USE DEF TypeOK, Goto, Answer, ClientPlaces, Outcomes, Terminal,
            admission, pipe, ownerVars, store, events
<1>1. CASE Reject(c)
  BY <1>1 DEF Reject
<1>9. CASE GiveUp(c)
  BY <1>9 DEF GiveUp
<1>10. CASE HangUp(c)
  <2>1. hungUp' \subseteq Clients
    BY <1>10 DEF HangUp
  <2> QED BY <1>10, <2>1 DEF HangUp
<1>8. CASE Relay(c)
  BY <1>8 DEF Relay
<1>2. CASE \E k \in Keys : RegisterCommand(c, k) \/ RegisterImmediate(c, k)
  <2>1. PICK k \in Keys, place \in ClientPlaces : ReserveKey(c, k, place)
    BY <1>2 DEF RegisterCommand, RegisterImmediate
  <2>2. CASE entries[k] = "absent"
    <3>1. /\ entries' = [entries EXCEPT ![k] = "Queued"] /\ UNCHANGED completed
          /\ key' = [key EXCEPT ![c] = k] /\ at' = [at EXCEPT ![c] = place]
          /\ UNCHANGED answer
      BY <2>1, <2>2 DEF ReserveKey, Register
    <3>2. /\ entries' \in [Keys -> Outcomes \cup {"absent"}]
          /\ key' \in [Clients -> Keys \cup {NoKey}]
          /\ at' \in [Clients -> ClientPlaces]
      BY <3>1
    <3> QED BY <2>1, <3>1, <3>2 DEF ReserveKey
  <2>3. CASE entries[k] # "absent"
    <3>1. /\ at' = [at EXCEPT ![c] = "closed"] /\ answer' = [answer EXCEPT ![c] = entries[k]]
          /\ UNCHANGED <<key, entries, completed>>
      BY <2>1, <2>3 DEF ReserveKey
    <3>2. /\ answer' \in [Clients -> Outcomes \cup {"none", "unknown", "Rejected"}]
          /\ at' \in [Clients -> ClientPlaces]
      BY <2>3, <3>1
    <3> QED BY <2>1, <3>1, <3>2 DEF ReserveKey
  <2> QED BY <2>2, <2>3
<1>3. CASE \E k \in Keys : QueryOutcome(c, k)
  BY <1>3 DEF QueryOutcome
<1>4. CASE SubmitCommand(c)
  <2>1. Submit(c) /\ c \in Operations
    BY <1>4, OperationSets DEF SubmitCommand, Submit
  <2> QED BY <1>4, <2>1, SubmitTypes DEF SubmitCommand
<1>5. CASE WithdrawKey(c)
  BY <1>5 DEF WithdrawKey, Remove
<1>6. CASE CommitImmediate(c)
  BY <1>6 DEF CommitImmediate
<1>7. CASE CompleteImmediate(c)
  <2>1. key[c] \in Keys
    BY <1>7 DEF CompleteImmediate, KeysHeld
  <2> QED BY <1>7, <2>1, TerminalTypes DEF CompleteImmediate
<1> QED BY <1>1, <1>2, <1>3, <1>4, <1>5, <1>6, <1>7, <1>8, <1>9, <1>10 DEF Client, ClientRun

(* A step of the owner keeps the types: it settles only keys it holds. *)
LEMMA OwnerTypes ==
  ASSUME TypeOK, HandOK, KeysHeld, Owner
  PROVE  TypeOK'
<1> USE DEF TypeOK, OwnerPlaces, admission, pipe, store, events, clientVars
<1>1. CASE Boot \/ ReleaseSlot \/ Panic
  BY <1>1 DEF Boot, ReleaseSlot, Panic
<1>11. CASE Receive
  <2>1. Head(channel) \in Operations /\ Tail(channel) \in Seq(Operations)
    BY <1>11, HeadTailProperties DEF Receive
  <2> QED BY <1>11, <2>1 DEF Receive
<1>2. CASE DropDisconnected \/ DropExpired
  <2>1. current \in Clients
    BY <1>2 DEF DropDisconnected, DropExpired
  <2>2. key[current] \in Keys
    BY <2>1 DEF KeysHeld
  <2> QED BY <1>2, <2>1, <2>2, TerminalTypes DEF DropDisconnected, DropExpired, Terminal
<1>3. CASE StartCommand
  BY <1>3 DEF StartCommand, SetStarted, Outcomes
<1>4. CASE \E effect \in BOOLEAN : ExecuteCommand(effect) \/ Maintain(effect)
  BY <1>4 DEF ExecuteCommand, Maintain, PublishEffects, HandOK
<1>5. CASE RecordCompletion
  <2>1. key[current] \in Keys
    BY <1>5 DEF RecordCompletion, KeysHeld, HandOK
  <2> QED BY <1>5, <2>1, TerminalTypes DEF RecordCompletion, Terminal
<1>6. CASE SendTerminal
  BY <1>6 DEF SendTerminal, HandOK, Terminal
<1>7. CASE MoveBackend
  BY <1>7 DEF MoveBackend
<1>8. CASE FinishBarrier
  BY <1>8 DEF FinishBarrier, HandOK, Lifecycle, Barriers, Modes
<1>9. CASE Announce
  BY <1>9 DEF Announce
<1>10. CASE CloseDisconnected \/ StopDisconnected
  BY <1>10 DEF CloseDisconnected, StopDisconnected, Modes
<1> QED BY <1>1, <1>2, <1>3, <1>4, <1>5, <1>6, <1>7, <1>8, <1>9, <1>10, <1>11
        DEF Owner, OwnerRun, OwnerQuiet

(* A step of the main thread keeps the types. *)
LEMMA MainTypes ==
  ASSUME TypeOK, Main
  PROVE  TypeOK'
<1> USE DEF TypeOK, admission, ownerVars, store, events, clientVars
<1>1. CASE StartReturns \/ StartTimesOut \/ DropSender \/ Join
  BY <1>1 DEF StartReturns, StartTimesOut, DropSender, Join, pipe
<1>2. ASSUME NEW op \in Maintenance \cup Barriers, PumpSubmits(op)
      PROVE  TypeOK'
  <2>1. op \in Operations
    BY DEF Operations, Work, Lifecycle
  <2> QED BY <1>2, <2>1, SubmitTypes DEF PumpSubmits
<1>3. CASE TryObserve \/ TryHotplug \/ BeginSuspend \/ BeginResume
  BY <1>2, <1>3 DEF TryObserve, TryHotplug, BeginSuspend, BeginResume, Maintenance, Barriers
<1>4. CASE BeginShutdown
  BY <1>4, SubmitTypes, OperationSets DEF BeginShutdown
<1>5. CASE DrainEvents
  BY <1>5, EmptySeq DEF DrainEvents, pipe
<1> QED BY <1>1, <1>3, <1>4, <1>5 DEF Main, MainRun

-----------------------------------------------------------------------------
(* A client thread reaches the queue only through submit. *)
LEMMA ClientFrame ==
  ASSUME NEW c \in Clients, Client(c)
  PROVE  /\ UNCHANGED <<serviceAt, ownerAt, current, backend, senderOpen>>
         /\ \/ UNCHANGED <<mode, queued, channel>>
            \/ at[c] = "registered" /\ Submit(c)
<1> USE DEF admission, pipe, ownerVars
<1>1. CASE Reject(c) \/ GiveUp(c) \/ HangUp(c) \/ Relay(c)
  BY <1>1 DEF Reject, GiveUp, HangUp, Relay
<1>2. CASE \E k \in Keys : RegisterCommand(c, k) \/ RegisterImmediate(c, k) \/ QueryOutcome(c, k)
  BY <1>2 DEF RegisterCommand, RegisterImmediate, ReserveKey, QueryOutcome
<1>3. CASE SubmitCommand(c)
  BY <1>3 DEF SubmitCommand, Submit, Enqueue, Refuse
<1>4. CASE WithdrawKey(c) \/ CommitImmediate(c) \/ CompleteImmediate(c)
  BY <1>4 DEF WithdrawKey, CommitImmediate, CompleteImmediate
<1> QED BY <1>1, <1>2, <1>3, <1>4 DEF Client, ClientRun

(* So does the main thread, which besides may drop the sender. *)
LEMMA MainFrame ==
  ASSUME Main
  PROVE  /\ UNCHANGED <<ownerAt, current, backend, at, key>>
         /\ \/ UNCHANGED <<mode, queued, channel>> /\ (senderOpen' => senderOpen)
            \/ /\ serviceAt = "up" /\ UNCHANGED senderOpen
               /\ \E op \in Operations \ Clients : Submit(op)
<1> USE DEF ownerVars, admission, clientVars
<1>1. CASE StartReturns \/ StartTimesOut \/ DropSender \/ Join \/ DrainEvents
  BY <1>1 DEF StartReturns, StartTimesOut, DropSender, Join, DrainEvents, pipe
<1>2. ASSUME NEW op \in Operations \ Clients, PumpSubmits(op)
      PROVE  /\ UNCHANGED <<ownerAt, current, backend, at, key>>
             /\ serviceAt = "up" /\ UNCHANGED senderOpen
             /\ Submit(op)
  BY <1>2 DEF PumpSubmits, Submit, Enqueue, Refuse, pipe
<1>3. CASE TryObserve \/ TryHotplug \/ BeginSuspend \/ BeginResume
  <2>1. {"Observe", "Hotplug", "Suspend", "Resume"} \subseteq Operations \ Clients
    BY DEF Operations, Work, Lifecycle, Barriers, Maintenance
  <2> QED BY <1>2, <1>3, <2>1 DEF TryObserve, TryHotplug, BeginSuspend, BeginResume
<1>4. CASE BeginShutdown
  <2>1. "Shutdown" \in Operations \ Clients
    BY DEF Operations, Work, Lifecycle, Barriers
  <2> QED BY <1>4, <2>1 DEF BeginShutdown, Submit, Enqueue, Refuse, pipe
<1> QED BY <1>1, <1>3, <1>4 DEF Main, MainRun

-----------------------------------------------------------------------------
(* Every step keeps what the place of the owner says of its hand. *)
LEMMA HandStep ==
  ASSUME TypeOK, HandOK, [Next]_vars
  PROVE  HandOK'
<1>1. CASE UNCHANGED <<ownerAt, current>>
  BY <1>1 DEF HandOK
<1>2. CASE Owner
  <2>1. CASE Boot \/ ReleaseSlot \/ StartCommand \/ DropDisconnected \/ DropExpired
    BY <1>2, <2>1 DEF HandOK, Boot, ReleaseSlot, StartCommand, DropDisconnected, DropExpired
  <2>2. CASE Receive
    BY <2>2, HeadTailProperties DEF HandOK, TypeOK, Receive
  <2>3. CASE \E effect \in BOOLEAN : ExecuteCommand(effect) \/ Maintain(effect)
    BY <2>3 DEF HandOK, ExecuteCommand, Maintain
  <2>4. CASE RecordCompletion \/ SendTerminal \/ Announce \/ CloseDisconnected \/ StopDisconnected \/ Panic
    BY <2>4 DEF HandOK, RecordCompletion, SendTerminal, Announce, CloseDisconnected, StopDisconnected, Panic
  <2>5. CASE MoveBackend
    BY <2>5 DEF HandOK, MoveBackend
  <2>6. CASE FinishBarrier
    BY <2>6 DEF HandOK, FinishBarrier, Lifecycle
  <2> QED BY <1>2, <2>1, <2>2, <2>3, <2>4, <2>5, <2>6 DEF Owner, OwnerRun, OwnerQuiet
<1> QED BY <1>1, <1>2, ClientFrame, MainFrame DEF Next, vars, ownerVars

(* Every step keeps the keys of the connections that carry one. *)
LEMMA KeysStep ==
  ASSUME TypeOK, KeysHeld, [Next]_vars
  PROVE  KeysHeld'
<1>1. ASSUME NEW op \in Operations, Submit(op), UNCHANGED <<current, key>>,
             op \in Clients => key[op] \in Keys
      PROVE  /\ \A i \in 1 .. Len(channel') : channel'[i] \in Clients => key'[channel'[i]] \in Keys
             /\ current' \in Clients => key'[current'] \in Keys
  <2>1. CASE Enqueue(op)
    BY <1>1, <2>1, AppendProperties DEF KeysHeld, TypeOK, Enqueue
  <2>2. CASE Refuse(op)
    BY <1>1, <2>2 DEF KeysHeld, Refuse, pipe
  <2> QED BY <1>1, <2>1, <2>2 DEF Submit
<1>2. CASE Main
  BY <1>1, <1>2, MainFrame DEF KeysHeld
<1>3. CASE Owner
  <2>1. CASE Receive
    <3>1. /\ current' = channel[1]
          /\ Len(channel') = Len(channel) - 1
          /\ \A i \in 1 .. Len(channel') : channel'[i] = channel[i + 1]
          /\ Len(channel) \in Nat \ {0}
      BY <2>1, HeadTailProperties, EmptySeq DEF TypeOK, Receive
    <3> QED BY <2>1, <3>1 DEF KeysHeld, Receive, clientVars
  <2>2. CASE ~Receive
    <3>1. UNCHANGED <<channel, at, key>> /\ (current' = current \/ current' = None)
      BY <1>3, <2>2 DEF Owner, OwnerRun, OwnerQuiet, Boot, ReleaseSlot, DropDisconnected,
         DropExpired, StartCommand, ExecuteCommand, Maintain, RecordCompletion, SendTerminal,
         MoveBackend, FinishBarrier, Announce, CloseDisconnected, StopDisconnected, Panic,
         pipe, clientVars
    <3> QED BY <3>1, OperationSets DEF KeysHeld
  <2> QED BY <2>1, <2>2
<1>4. ASSUME NEW c \in Clients, Client(c)
      PROVE  KeysHeld'
  <2>1. CASE \E k \in Keys : RegisterCommand(c, k) \/ RegisterImmediate(c, k)
    <3>1. PICK k \in Keys, place \in ClientPlaces : ReserveKey(c, k, place)
      BY <2>1 DEF RegisterCommand, RegisterImmediate, ClientPlaces
    <3> QED BY <3>1 DEF KeysHeld, TypeOK, ReserveKey, Goto, pipe, ownerVars
  <2>2. CASE SubmitCommand(c)
    BY <1>1, <2>2, OperationSets DEF KeysHeld, TypeOK, SubmitCommand, Submit, Goto, ownerVars
  <2>3. CASE WithdrawKey(c) \/ CompleteImmediate(c) \/ Relay(c) \/ GiveUp(c) \/ HangUp(c) \/ Reject(c)
    BY <2>3 DEF KeysHeld, TypeOK, WithdrawKey, CompleteImmediate, Relay, GiveUp, HangUp, Reject,
       Goto, pipe, ownerVars
  <2>4. CASE CommitImmediate(c) \/ \E k \in Keys : QueryOutcome(c, k)
    BY <2>4 DEF KeysHeld, TypeOK, CommitImmediate, QueryOutcome, Goto, pipe, ownerVars
  <2> QED BY <1>4, <2>1, <2>2, <2>3, <2>4 DEF Client, ClientRun
<1>5. CASE UNCHANGED vars
  BY <1>5 DEF KeysHeld, vars, pipe, ownerVars, clientVars
<1> QED BY <1>2, <1>3, <1>4, <1>5 DEF Next

(* Every step keeps the queue empty until start has returned. *)
LEMMA NotStartedStep ==
  ASSUME TypeOK, NotStarted, [Next]_vars
  PROVE  NotStarted'
<1>1. CASE Owner
  BY <1>1 DEF NotStarted, Constructed, Owner, OwnerRun, OwnerQuiet, Boot, Receive, ReleaseSlot,
     DropDisconnected, DropExpired, StartCommand, ExecuteCommand, Maintain, RecordCompletion,
     SendTerminal, MoveBackend, FinishBarrier, Announce, CloseDisconnected, StopDisconnected,
     Panic, pipe, clientVars
<1>2. CASE Main
  <2>1. CASE StartReturns \/ StartTimesOut \/ DropSender \/ Join \/ DrainEvents
    BY <2>1 DEF NotStarted, Constructed, StartReturns, StartTimesOut, DropSender, Join,
       DrainEvents, pipe, ownerVars, clientVars
  <2>2. CASE TryObserve \/ TryHotplug \/ BeginSuspend \/ BeginResume \/ BeginShutdown
    BY <2>2 DEF NotStarted, Constructed, TryObserve, TryHotplug, BeginSuspend, BeginResume,
       BeginShutdown, PumpSubmits, ownerVars
  <2> QED BY <1>2, <2>1, <2>2 DEF Main, MainRun
<1>3. ASSUME NEW c \in Clients, Client(c)
      PROVE  NotStarted'
  <2>1. CASE HangUp(c)
    BY <2>1 DEF NotStarted, Constructed, HangUp, pipe, ownerVars
  <2>2. CASE ~HangUp(c)
    <3>1. at[c] # "reading" \/ Constructed
      BY <1>3, <2>2 DEF Client, ClientRun, SubmitCommand, WithdrawKey, CommitImmediate,
         CompleteImmediate, Relay, Reject, GiveUp, RegisterCommand, RegisterImmediate,
         ReserveKey, QueryOutcome
    <3>2. Constructed
      BY <3>1 DEF NotStarted
    <3> QED BY <1>3, <3>2, ClientFrame DEF NotStarted, Constructed
  <2> QED BY <2>1, <2>2
<1>4. CASE UNCHANGED vars
  BY <1>4 DEF NotStarted, Constructed, vars, pipe, ownerVars, clientVars
<1> QED BY <1>1, <1>2, <1>3, <1>4 DEF Next

-----------------------------------------------------------------------------
(* An accepted operation goes to the end of the channel; the mode it needed *)
(* says what can be ahead of it.                                            *)
LEMMA EnqueueGate ==
  ASSUME TypeOK, HandOK, Gate, NEW op \in Operations, Enqueue(op),
         ownerAt # "booting", UNCHANGED <<ownerAt, current, backend>>
  PROVE  Gate'
<1> DEFINE n == Len(channel)
<1>1. /\ n \in Nat
      /\ Len(channel') = n + 1
      /\ channel'[n + 1] = op
      /\ \A i \in 1 .. n : channel'[i] = channel[i]
      /\ channel = << >> => n = 0 /\ channel' = <<op>>
  <2>1. channel \in Seq(Operations) /\ channel' = Append(channel, op)
    BY DEF Enqueue, TypeOK
  <2>2. channel = << >> => channel' = <<op>>
    BY <2>1
  <2>3. channel = << >> => n = 0
    BY EmptySeq
  <2> QED BY <2>1, <2>2, <2>3, AppendProperties, LenProperties
<1>2. /\ queued' = queued + 1 /\ mode' = ModeAfter(op) /\ senderOpen /\ senderOpen'
      /\ OwnerAlive /\ OwnerAlive'
      /\ Allowed(op) /\ SlotFree(op)
  BY DEF Enqueue, OwnerAlive
<1>3. Counted'
  BY <1>1, <1>2 DEF Gate, Counted, TypeOK
<1>4. CASE op \in Work
  <2>1. mode = "Active" /\ mode' = "Active" /\ op \notin Lifecycle /\ queued < Capacity - Reserve
    BY <1>2, <1>4, OperationSets DEF Allowed, SlotFree, ModeAfter, Lifecycle, Barriers
  <2>2. ~Unfinished /\ \A i \in 1 .. n : channel[i] \notin Lifecycle
    BY <2>1 DEF Gate, ModeCut
  <2>3. \A i \in 1 .. Len(channel') : channel'[i] \notin Lifecycle
    BY <1>1, <2>1, <2>2
  <2>4. Bounded'
    BY <1>2, <2>1 DEF Bounded, TypeOK
  <2>5. Cut' /\ HandCut' /\ ModeCut'
    BY <1>2, <2>1, <2>2, <2>3 DEF Cut, HandCut, ModeCut, Unfinished, OwnerAlive, Gate
  <2>6. OpenForWork'
    BY <1>2, <2>1 DEF Gate, OpenForWork
  <2> QED BY <1>3, <2>4, <2>5, <2>6 DEF Gate
<1>5. CASE op \in Lifecycle
  <2>1. op \notin Work /\ mode' # "Active" /\ mode' # "Suspended" /\ mode' # "Stopped"
    BY <1>2, <1>5, OperationSets DEF ModeAfter, Lifecycle, Barriers
  <2>2. Bounded'
    BY <1>2, <1>5, <2>1, <1>1
       DEF Gate, Bounded, Counted, ModeCut, TypeOK, Allowed, ModeAfter, Lifecycle, Barriers, Work, Maintenance
  <2>3. /\ Unfinished => channel = << >> /\ current \in Barriers /\ op = "Shutdown"
        /\ \A i \in 1 .. n : channel[i] \in Lifecycle => i = n /\ channel[i] # "Shutdown" /\ op = "Shutdown"
        /\ op # "Shutdown" => mode' = "BarrierPending" /\ ~Unfinished
    <3>1. CASE op \in Barriers
      BY <1>1, <1>2, <3>1, OperationSets
         DEF Gate, ModeCut, Unfinished, Allowed, ModeAfter, Barriers
    <3>2. CASE op = "Shutdown"
      <4>1. channel = <<"Shutdown">> => n = 1 /\ channel[1] = "Shutdown"
        OBVIOUS
      <4>2. mode \in {"Active", "BarrierPending", "Suspended"}
        BY <1>2, <3>2, OperationSets DEF Allowed, Barriers
      <4>3. CASE mode \in {"Active", "Suspended"}
        BY <1>1, <3>2, <4>3 DEF Gate, ModeCut, Unfinished
      <4>4. CASE mode = "BarrierPending"
        <5>1. /\ ~(Unfinished /\ current = "Shutdown")
              /\ \A i \in 1 .. n : channel[i] # "Shutdown"
          BY <4>4 DEF Gate, ModeCut
        <5>2. Unfinished => channel = << >> /\ current \in Barriers
          BY <4>1, <5>1 DEF Gate, HandCut, Unfinished, Lifecycle
        <5>3. \A i \in 1 .. n : channel[i] \in Lifecycle => i = n
          BY <1>1, <5>1 DEF Gate, Cut
        <5> QED BY <3>2, <5>1, <5>2, <5>3
      <4> QED BY <4>2, <4>3, <4>4
    <3> QED BY <1>5, <3>1, <3>2 DEF Lifecycle
  <2>4. Cut'
    BY <1>1, <2>3 DEF Cut
  <2>5. HandCut'
    BY <1>1, <2>3 DEF HandCut, Unfinished
  <2>6. ModeCut'
    <3>1. ownerAt # "gone" /\ ownerAt # "disconnected"
      BY <1>2 DEF Gate, ModeCut, OwnerAlive
    <3>2. mode' = "BarrierPending" => op # "Shutdown"
      BY <1>2 DEF ModeAfter, Barriers
    <3>3. mode' = "BarrierPending" =>
            ~Unfinished' /\ \A i \in 1 .. Len(channel') : channel'[i] # "Shutdown"
      BY <1>1, <1>5, <2>3, <3>2, OperationSets DEF Unfinished
    <3> QED BY <2>1, <3>1, <3>3 DEF ModeCut
  <2>7. OpenForWork'
    BY <1>1, <1>2, <2>1 DEF Gate, OpenForWork, OwnerAlive
  <2> QED BY <1>3, <2>2, <2>4, <2>5, <2>6, <2>7 DEF Gate
<1> QED BY <1>4, <1>5, OperationSets

(* submit keeps the gate, whether it accepts or refuses. *)
LEMMA SubmitGate ==
  ASSUME TypeOK, HandOK, Gate, NEW op \in Operations, Submit(op),
         ownerAt # "booting", UNCHANGED <<ownerAt, current, backend>>
  PROVE  Gate'
<1>1. CASE Refuse(op)
  BY <1>1 DEF Refuse, pipe, Gate, Counted, Bounded, Cut, HandCut, ModeCut, OpenForWork,
     Unfinished, OwnerAlive
<1> QED BY <1>1, EnqueueGate DEF Submit

(* The owner takes the head of the channel into its hand; the count keeps  *)
(* it until the slot is released.                                          *)
LEMMA ReceiveGate ==
  ASSUME TypeOK, Gate, Receive
  PROVE  Gate'
<1> DEFINE n == Len(channel)
<1>1. /\ n \in Nat \ {0}
      /\ Len(channel') = n - 1
      /\ current' = channel[1]
      /\ \A i \in 1 .. n - 1 : channel'[i] = channel[i + 1]
      /\ channel' \in Seq(Operations)
  BY HeadTailProperties, EmptySeq DEF TypeOK, Receive
<1>2. /\ ownerAt = "idle" /\ ownerAt' = "received"
      /\ UNCHANGED <<mode, queued, senderOpen, backend>>
      /\ OwnerAlive /\ OwnerAlive'
  BY DEF Receive, admission, OwnerAlive
<1>3. Counted' /\ Bounded'
  BY <1>1, <1>2 DEF Gate, Counted, Bounded, TypeOK
<1>4. Cut'
  <2> SUFFICES ASSUME NEW i \in 1 .. Len(channel'), channel'[i] \in Lifecycle
               PROVE  \/ i = Len(channel')
                      \/ i + 1 = Len(channel') /\ channel'[i] # "Shutdown" /\ channel'[i + 1] = "Shutdown"
    BY DEF Cut
  <2>1. i + 1 \in 1 .. n /\ channel'[i] = channel[i + 1]
    BY <1>1
  <2>2. CASE i + 1 = n
    BY <1>1, <2>2
  <2>3. CASE (i + 1) + 1 = n /\ channel[i + 1] # "Shutdown" /\ channel[(i + 1) + 1] = "Shutdown"
    <3>1. i + 1 \in 1 .. n - 1
      BY <1>1, <2>3
    <3> QED BY <1>1, <2>1, <2>3, <3>1
  <2> QED BY <2>1, <2>2, <2>3 DEF Gate, Cut
<1>5. HandCut'
  <2> SUFFICES ASSUME channel[1] \in Lifecycle
               PROVE  channel' = << >> \/ (channel[1] \in Barriers /\ channel' = <<"Shutdown">>)
    BY <1>1 DEF HandCut, Unfinished
  <2>1. CASE n = 1
    <3>1. Len(channel') = 0
      BY <1>1, <2>1
    <3> QED BY <1>1, <3>1, EmptySeq
  <2>2. CASE n = 2 /\ channel[1] # "Shutdown" /\ channel[2] = "Shutdown"
    <3>1. Len(channel') = 1 /\ channel'[1] = "Shutdown"
      BY <1>1, <2>2
    <3>2. channel' = <<"Shutdown">>
      BY <1>1, <3>1, SeqEqual, OperationSets
    <3> QED BY <2>2, <3>2 DEF Lifecycle
  <2> QED BY <1>1, <2>1, <2>2 DEF Gate, Cut
<1>6. ModeCut'
  BY <1>1, <1>2, EmptySeq DEF Gate, ModeCut, Unfinished, Receive
<1>7. OpenForWork'
  <2>1. current' \in Work => backend = "open"
    BY <1>1, <1>2 DEF Gate, OpenForWork
  <2>2. (\E i \in 1 .. Len(channel') : channel'[i] \in Work) => backend = "open"
    <3> SUFFICES ASSUME NEW i \in 1 .. Len(channel'), channel'[i] \in Work
                 PROVE  backend = "open"
      OBVIOUS
    <3>1. i + 1 \in 1 .. n /\ channel[i + 1] \in Work
      BY <1>1
    <3> QED BY <1>2, <3>1 DEF Gate, OpenForWork
  <2> QED BY <1>2, <2>1, <2>2 DEF Gate, OpenForWork
<1> QED BY <1>3, <1>4, <1>5, <1>6, <1>7 DEF Gate

(* Every step of the owner keeps the gate. *)
LEMMA OwnerGate ==
  ASSUME TypeOK, HandOK, NotStarted, Gate, Owner
  PROVE  Gate'
<1> USE DEF Counted, Bounded, Cut, OwnerAlive, admission, pipe
<1>1. CASE Boot
  BY <1>1, EmptySeq DEF Gate, HandCut, ModeCut, OpenForWork, Unfinished, NotStarted, Boot
<1>2. CASE Receive
  BY <1>2, ReceiveGate
<1>3. CASE ReleaseSlot
  <2>1. queued' = queued - 1
    BY <1>3, LenProperties DEF Gate, TypeOK, ReleaseSlot
  <2> QED BY <1>3, <2>1, LenProperties
          DEF Gate, HandCut, ModeCut, OpenForWork, Unfinished, TypeOK, ReleaseSlot
<1>4. CASE DropDisconnected \/ DropExpired \/ StartCommand
  <2>1. current \in Clients /\ current \notin Lifecycle
    BY <1>4, OperationSets DEF TypeOK, DropDisconnected, DropExpired, StartCommand
  <2> QED BY <1>4, <2>1 DEF Gate, HandCut, ModeCut, OpenForWork, Unfinished,
          DropDisconnected, DropExpired, StartCommand
<1>5. CASE \E effect \in BOOLEAN : ExecuteCommand(effect) \/ Maintain(effect)
  BY <1>5 DEF Gate, HandCut, ModeCut, OpenForWork, Unfinished, ExecuteCommand, Maintain
<1>6. CASE RecordCompletion \/ SendTerminal \/ Announce
  BY <1>6 DEF Gate, HandCut, ModeCut, OpenForWork, Unfinished, RecordCompletion, SendTerminal, Announce
<1>7. CASE MoveBackend
  <2>1. Unfinished /\ Unfinished' /\ current \notin Work /\ UNCHANGED <<current, mode, queued, pipe>>
    BY <1>7, OperationSets DEF MoveBackend, Unfinished
  <2>2. \A i \in 1 .. Len(channel) : channel[i] \notin Work
    <3>1. channel = << >> \/ channel = <<"Shutdown">>
      BY <2>1 DEF Gate, HandCut
    <3>2. "Shutdown" \notin Work
      BY OperationSets
    <3> QED BY <3>1, <3>2, EmptySeq
  <2>3. mode # "Active" /\ mode # "Suspended"
    BY <1>7, <2>1 DEF Gate, ModeCut, MoveBackend
  <2> QED BY <1>7, <2>1, <2>2, <2>3 DEF Gate, HandCut, ModeCut, OpenForWork, Unfinished, MoveBackend
<1>8. CASE FinishBarrier
  <2>1. Unfinished /\ ownerAt = "barrier" /\ current \notin Work /\ ~Unfinished' /\ current \in Lifecycle
    BY <1>8, OperationSets DEF FinishBarrier, Unfinished, HandOK
  <2>2. mode \in {"BarrierPending", "ShuttingDown"}
    BY <2>1 DEF Gate, ModeCut, TypeOK, Modes
  <2>3. UNCHANGED <<queued, senderOpen, channel, backend>>
    BY <1>8 DEF FinishBarrier
  <2>4. CASE current = "Shutdown"
    <3>1. channel = << >> /\ mode' = "Stopped" /\ ownerAt' = "gone" /\ current' = None
      BY <1>8, <2>1, <2>4 DEF Gate, HandCut, FinishBarrier, Barriers
    <3> QED BY <2>1, <2>3, <3>1, OperationSets
            DEF Gate, HandCut, ModeCut, OpenForWork, Unfinished
  <2>5. CASE current # "Shutdown" /\ mode = "ShuttingDown"
    <3>1. mode' = mode /\ ownerAt' = "announce" /\ current' = current
      BY <1>8, <2>5 DEF FinishBarrier
    <3> QED BY <2>1, <2>3, <2>5, <3>1 DEF Gate, HandCut, ModeCut, OpenForWork, Unfinished
  <2>6. CASE current # "Shutdown" /\ mode = "BarrierPending"
    <3>1. /\ mode' = (IF current = "Suspend" THEN "Suspended" ELSE "Active")
          /\ ownerAt' = "announce" /\ current' = current
      BY <1>8, <2>1, <2>6 DEF FinishBarrier, Lifecycle, Barriers
    <3>2. channel = << >>
      <4>1. channel = <<"Shutdown">> => Len(channel) = 1 /\ channel[1] = "Shutdown"
        OBVIOUS
      <4> QED BY <2>1, <2>6, <4>1 DEF Gate, HandCut, ModeCut
    <3>3. queued = 0 /\ Len(channel) = 0
      BY <2>1, <3>2, EmptySeq DEF Gate
    <3>4. Counted' /\ Bounded' /\ Cut'
      BY <2>3, <3>1, <3>2, <3>3
    <3>5. HandCut' /\ ModeCut'
      BY <2>1, <2>3, <3>1, <3>2, <3>3 DEF HandCut, ModeCut
    <3>6. OpenForWork'
      BY <2>1, <2>3, <2>6, <3>1, <3>3 DEF Gate, OpenForWork, Lifecycle, Barriers
    <3> QED BY <3>4, <3>5, <3>6 DEF Gate
  <2> QED BY <2>2, <2>4, <2>5, <2>6
<1>9. CASE CloseDisconnected
  BY <1>9, EmptySeq DEF Gate, HandCut, ModeCut, OpenForWork, Unfinished, CloseDisconnected
<1>10. CASE StopDisconnected
  BY <1>10 DEF Gate, HandCut, ModeCut, OpenForWork, Unfinished, StopDisconnected
<1>11. CASE Panic
  <2>1. Unfinished' => Unfinished
    BY <1>11, OperationSets DEF Panic, Unfinished, HandOK
  <2>2. mode # "Stopped"
    BY <1>11 DEF Gate, ModeCut, Panic
  <2> QED BY <1>11, <2>1, <2>2 DEF Gate, HandCut, ModeCut, OpenForWork, Panic
<1> QED BY <1>1, <1>2, <1>3, <1>4, <1>5, <1>6, <1>7, <1>8, <1>9, <1>10, <1>11
        DEF Owner, OwnerRun, OwnerQuiet

(* Every step keeps the gate. *)
LEMMA GateStep ==
  ASSUME TypeOK, HandOK, NotStarted, Gate, [Next]_vars
  PROVE  Gate'
<1>1. CASE UNCHANGED <<mode, queued, channel, ownerAt, current, backend>> /\ (senderOpen' => senderOpen)
  BY <1>1 DEF Gate, Counted, Bounded, Cut, HandCut, ModeCut, OpenForWork, Unfinished, OwnerAlive
<1>2. CASE Main
  <2>1. CASE \E op \in Operations \ Clients : Submit(op)
    <3>1. \/ serviceAt = "up"
          \/ UNCHANGED <<mode, queued, channel>> /\ (senderOpen' => senderOpen)
      BY <1>2, MainFrame
    <3> QED BY <1>1, <1>2, <2>1, <3>1, MainFrame, SubmitGate DEF NotStarted, Constructed
  <2> QED BY <1>1, <1>2, <2>1, MainFrame
<1>3. ASSUME NEW c \in Clients, Client(c)
      PROVE  Gate'
  <2>1. CASE at[c] = "registered" /\ Submit(c)
    <3>1. ownerAt # "booting"
      BY <2>1 DEF NotStarted
    <3> QED BY <1>3, <2>1, <3>1, ClientFrame, SubmitGate, OperationSets
  <2> QED BY <1>1, <1>3, <2>1, ClientFrame
<1> QED BY <1>1, <1>2, <1>3, OwnerGate DEF Next, vars, admission, pipe, ownerVars

-----------------------------------------------------------------------------
(* The inductive invariant. *)
LEMMA Invariance == Spec => []IInv
<1>1. Init => IInv
  <2> SUFFICES ASSUME Init PROVE IInv
    OBVIOUS
  <2>1. HandOK /\ KeysHeld /\ NotStarted
    BY EmptySeq, OperationSets DEF Init, HandOK, KeysHeld, NotStarted, Constructed
  <2>2. Counted /\ Bounded /\ Cut /\ HandCut
    BY EmptySeq, OperationSets DEF Init, Counted, Bounded, Cut, HandCut, Unfinished
  <2>3. ModeCut /\ OpenForWork
    BY EmptySeq, OperationSets DEF Init, ModeCut, OpenForWork, Unfinished
  <2> QED BY <2>1, <2>2, <2>3, TypeInit DEF IInv, Gate
<1>2. IInv /\ [Next]_vars => IInv'
  <2> SUFFICES ASSUME IInv, [Next]_vars PROVE IInv'
    OBVIOUS
  <2>1. TypeOK'
    <3>1. CASE UNCHANGED vars
      BY <3>1 DEF IInv, TypeOK, vars, admission, pipe, ownerVars, store, events, clientVars
    <3> QED BY <3>1, OwnerTypes, MainTypes, ClientTypes DEF IInv, Next
  <2> QED BY <2>1, HandStep, KeysStep, NotStartedStep, GateStep DEF IInv
<1> QED BY <1>1, <1>2, PTL DEF Spec

(* Every variable keeps its type, whatever the threads do. *)
THEOREM TypeCorrect == Spec => []TypeOK
<1>1. IInv => TypeOK
  BY DEF IInv
<1> QED BY <1>1, Invariance, PTL

(* The reserve of two is enough for every capacity: a suspend, resume or   *)
(* shutdown that the mode allows never finds the queue full.               *)
THEOREM ReserveSuffices == Spec => []BarriersAlwaysFit
<1>1. IInv => BarriersAlwaysFit
  <2> SUFFICES ASSUME IInv, NEW op \in Lifecycle, Allowed(op)
               PROVE  SlotFree(op) /\ Len(channel) < Capacity
    BY DEF BarriersAlwaysFit
  <2>1. Len(channel) \in Nat /\ Len(channel) <= queued /\ queued \in Nat
    BY LenProperties DEF IInv, TypeOK, Gate, Counted
  <2>2. queued < Capacity
    <3>1. mode \in {"Active", "BarrierPending", "Suspended"}
      BY OperationSets DEF Allowed, Barriers
    <3>2. mode = "Suspended" => queued = 0
      BY EmptySeq DEF IInv, Gate, ModeCut, Counted
    <3> QED BY <2>1, <3>1, <3>2 DEF IInv, Gate, Bounded
  <2> QED BY <2>1, <2>2 DEF SlotFree
<1> QED BY <1>1, Invariance, PTL

(* No command, observation or hotplug runs on a backend that a suspend or  *)
(* a shutdown has released.                                                *)
THEOREM OpenWhileWorking == Spec => []WorkNeedsOpenBackend
<1>1. IInv => WorkNeedsOpenBackend
  BY DEF IInv, Gate, OpenForWork, WorkNeedsOpenBackend
<1> QED BY <1>1, Invariance, PTL

(* Nothing is ever queued behind a barrier but a shutdown, and an owner    *)
(* that ends by itself leaves an empty channel.                            *)
THEOREM BarriersCutTheQueue == Spec => []NothingBehindBarrier
<1>1. IInv => NothingBehindBarrier
  BY DEF IInv, Gate, Cut, ModeCut, NothingBehindBarrier
<1> QED BY <1>1, Invariance, PTL
=============================================================================
