------------------------------ MODULE Executor ------------------------------
(***************************************************************************)
(* The backend executor of z13helperd: the admission gate, the bounded     *)
(* FIFO between the client threads and the one thread that owns the        *)
(* hardware, the store of request outcomes and the queue of events for the *)
(* socket pump (crates/z13helperd/src/executor.rs), with the client        *)
(* threads of main.rs that use it.                                         *)
(*                                                                         *)
(* Each step below is one critical section, or one stretch of code between *)
(* two of them that another thread can observe: the admission mutex, the   *)
(* outcome mutex, the event mutex and the channel are separate, and the    *)
(* interleavings between them are what the properties are about.           *)
(*                                                                         *)
(* A connection carries one request and is served by one thread, so a      *)
(* connection stands for its thread, its peer and, once submitted, its     *)
(* command in the channel. Time is left out: every deadline may pass at    *)
(* any moment.                                                             *)
(*                                                                         *)
(* An operator named Bug... is a mistaken form of the operator it precedes, *)
(* no part of the specification: put in its place, it makes a property     *)
(* named in PROJECT.json fail.                                             *)
(***************************************************************************)
EXTENDS Integers, Sequences

CONSTANTS
  Clients,             \* client connections, one request each
  Keys,                \* outcome keys: a client ID and a request ID
  NoKey,               \* the key of a connection that has reserved none
  None,                \* no operation in the owner's hand
  Capacity,            \* BACKEND_QUEUE_CAPACITY
  Reserve,             \* LIFECYCLE_RESERVE
  MaxRetained,         \* MAX_RETAINED_OUTCOMES
  MaxLifecycleEvents   \* MAX_LIFECYCLE_EVENTS

Maintenance == {"Observe", "Hotplug"}
Barriers    == {"Suspend", "Resume"}
Lifecycle   == Barriers \cup {"Shutdown"}
Work        == Clients \cup Maintenance
Operations  == Work \cup Lifecycle

ASSUME SizesAssumption ==
  /\ Capacity \in Nat
  /\ Reserve \in Nat
  /\ Reserve >= 2
  /\ Capacity > Reserve
  /\ MaxRetained \in Nat \ {0}
  /\ MaxLifecycleEvents \in Nat \ {0}

ASSUME NamesAssumption ==
  /\ Clients \cap (Maintenance \cup Lifecycle) = {}
  /\ NoKey \notin Keys
  /\ None \notin Operations

Modes    == {"Active", "BarrierPending", "Suspended", "ShuttingDown", "Stopped"}
Terminal == {"Completed", "Expired", "Disconnected"}
Outcomes == {"Queued", "Started"} \cup Terminal

VARIABLES
  (* Admission: one mutex *)
  mode, queued,
  (* the sender half of the channel and the operations in it *)
  senderOpen, channel,
  (* the owner thread: where it is, the operation in its hand, and whether *)
  (* Backend is driving the hardware                                       *)
  ownerAt, current, backend,
  (* OutcomeStore: one mutex *)
  entries, completed,
  (* EventQueue: one mutex *)
  stateChanged, lifecycleEvents,
  (* the main thread's use of BackendExecutor::start and ::shutdown *)
  serviceAt,
  (* client threads: where each is, the key it reserved, the terminal reply *)
  (* waiting in its channel, the last frame it wrote, and the peers that   *)
  (* hung up (progress frames are left out: a client skips them)           *)
  at, key, reply, answer, hungUp,
  (* history: what became of each connection's own request *)
  fate

admission == <<mode, queued>>
pipe      == <<senderOpen, channel>>
ownerVars == <<ownerAt, current, backend>>
store     == <<entries, completed>>
events    == <<stateChanged, lifecycleEvents>>
clientVars == <<at, key, reply, answer, hungUp>>
vars == <<admission, pipe, ownerVars, store, events, serviceAt, clientVars, fate>>

-----------------------------------------------------------------------------
(* The state. *)

OwnerPlaces == {"booting", "idle", "received", "dispatch", "running",
                "recording", "replying", "barrier", "announce",
                "disconnected", "gone", "panicked"}

ClientPlaces == {"reading", "registered", "refused", "waiting",
                 "reserved", "committed", "closed"}

(* The receiver still exists, so a send does not fail as Disconnected. *)
OwnerAlive == ownerAt \notin {"gone", "panicked"}

(* The executor was constructed, so threads that hold it may exist. *)
Constructed == serviceAt \in {"up", "closing", "joining", "stopped"}

Init ==
  /\ mode = "Active"
  /\ queued = 0
  /\ senderOpen = TRUE
  /\ channel = << >>
  /\ ownerAt = "booting"
  /\ current = None
  /\ backend = "closed"
  /\ entries = [k \in Keys |-> "absent"]
  /\ completed = << >>
  /\ stateChanged = FALSE
  /\ lifecycleEvents = << >>
  /\ serviceAt = "starting"
  /\ at = [c \in Clients |-> "reading"]
  /\ key = [c \in Clients |-> NoKey]
  /\ reply = [c \in Clients |-> "none"]
  /\ answer = [c \in Clients |-> "none"]
  /\ hungUp = {}
  /\ fate = [c \in Clients |-> "none"]

-----------------------------------------------------------------------------
(* Admission and the channel. submit holds the admission mutex across the  *)
(* check, the try_send and the rollback, so it is one step with one of the *)
(* two results below.                                                      *)

(* admit and begin_lifecycle: does the current mode let `op` in? *)
Allowed(op) ==
  \/ op \in Work \cup {"Suspend"} /\ mode = "Active"
  \/ op = "Resume" /\ mode = "Suspended"
  \/ op = "Shutdown" /\ mode \in {"Active", "BarrierPending", "Suspended"}

BugSlotFree(op) == queued < Capacity

(* ... and is there a slot for it? Lifecycle barriers may use the reserve. *)
SlotFree(op) ==
  queued < IF op \in Lifecycle THEN Capacity ELSE Capacity - Reserve

BugModeAfterSuspend(op) ==
  IF op = "Shutdown" THEN "ShuttingDown" ELSE mode

BugModeAfterResume(op) ==
  CASE op = "Suspend"  -> "BarrierPending"
    [] op = "Resume"   -> "Active"
    [] op = "Shutdown" -> "ShuttingDown"
    [] OTHER           -> mode

ModeAfter(op) ==
  CASE op \in Barriers   -> "BarrierPending"
    [] op = "Shutdown"   -> "ShuttingDown"
    [] OTHER             -> mode

(* submit succeeds. *)
Enqueue(op) ==
  /\ Allowed(op) /\ SlotFree(op)
  /\ senderOpen /\ OwnerAlive /\ Len(channel) < Capacity
  /\ mode' = ModeAfter(op)
  /\ queued' = queued + 1
  /\ channel' = Append(channel, op)
  /\ UNCHANGED senderOpen

(* submit fails: the slot is returned and the mode restored, except that a *)
(* dropped receiver stops admission for good.                              *)
Refuse(op) ==
  /\ \/ ~Allowed(op) \/ ~SlotFree(op)
     \/ ~senderOpen \/ ~OwnerAlive \/ Len(channel) >= Capacity
  /\ mode' = IF Allowed(op) /\ SlotFree(op) /\ senderOpen /\ ~OwnerAlive
             THEN "Stopped" ELSE mode
  /\ UNCHANGED <<queued, pipe>>

Submit(op) == Enqueue(op) \/ Refuse(op)

-----------------------------------------------------------------------------
(* OutcomeStore. *)

Register(k) == entries' = [entries EXCEPT ![k] = "Queued"] /\ UNCHANGED completed

Remove(k) == entries' = [entries EXCEPT ![k] = "absent"] /\ UNCHANGED completed

SetStarted(k) ==
  /\ entries' = [entries EXCEPT ![k] = IF @ = "absent" THEN @ ELSE "Started"]
  /\ UNCHANGED completed

(* Record the outcome; past the bound the oldest completion is forgotten. *)
SetTerminal(k, outcome) ==
  LET recorded == [entries EXCEPT ![k] = outcome]
      order    == Append(completed, k)
  IN  IF Len(order) > MaxRetained
      THEN /\ entries' = [recorded EXCEPT ![Head(order)] = "absent"]
           /\ completed' = Tail(order)
      ELSE entries' = recorded /\ completed' = order

-----------------------------------------------------------------------------
(* Client threads (handle_client). *)

Answer(c, outcome) == answer' = [answer EXCEPT ![c] = outcome]
Goto(c, place)     == at' = [at EXCEPT ![c] = place]

(* The thread found the daemon suspended or shutting down, or the request  *)
(* malformed, and rejected the request before touching the executor.       *)
Reject(c) ==
  /\ Constructed /\ at[c] = "reading"
  /\ Goto(c, "closed") /\ Answer(c, "Rejected")
  /\ UNCHANGED <<admission, pipe, ownerVars, store, events, serviceAt, key,
                 reply, hungUp, fate>>

BugReserveKey(c, k, place) ==
  /\ Constructed /\ at[c] = "reading"
  /\ Register(k)
  /\ key' = [key EXCEPT ![c] = k]
  /\ Goto(c, place)
  /\ UNCHANGED <<answer, admission, pipe, ownerVars, events, serviceAt, reply, hungUp, fate>>

(* submit_command and begin_immediate start by reserving the key; a known  *)
(* key is answered with its stored outcome and nothing else happens.       *)
ReserveKey(c, k, place) ==
  /\ Constructed /\ at[c] = "reading"
  /\ \/ /\ entries[k] = "absent"
        /\ Register(k)
        /\ key' = [key EXCEPT ![c] = k]
        /\ Goto(c, place)
        /\ UNCHANGED answer
     \/ /\ entries[k] # "absent"
        /\ Goto(c, "closed") /\ Answer(c, entries[k])
        /\ UNCHANGED <<key, store>>
  /\ UNCHANGED <<admission, pipe, ownerVars, events, serviceAt, reply, hungUp, fate>>

RegisterCommand(c, k)   == ReserveKey(c, k, "registered")
RegisterImmediate(c, k) == ReserveKey(c, k, "reserved")

(* The submit of submit_command; accepted, the thread waits for replies. *)
SubmitCommand(c) ==
  /\ at[c] = "registered"
  /\ \/ Enqueue(c) /\ Goto(c, "waiting")
     \/ Refuse(c) /\ Goto(c, "refused")
  /\ UNCHANGED <<ownerVars, store, events, serviceAt, key, reply, answer,
                 hungUp, fate>>

(* A refused submission forgets its key under a second lock. *)
WithdrawKey(c) ==
  /\ at[c] = "refused"
  /\ Remove(key[c])
  /\ Goto(c, "closed") /\ Answer(c, "Rejected")
  /\ UNCHANGED <<admission, pipe, ownerVars, events, serviceAt, key, reply,
                 hungUp, fate>>

BugCommitImmediate(c) ==
  /\ at[c] = "reserved"
  /\ SetTerminal(key[c], "Completed")
  /\ Goto(c, "committed")
  /\ UNCHANGED <<admission, pipe, ownerVars, events, serviceAt, key, reply,
                 answer, hungUp, fate>>

(* An immediate mutation (the capture lease) is committed by the client    *)
(* thread itself, and its outcome recorded afterwards.                     *)
CommitImmediate(c) ==
  /\ at[c] = "reserved"
  /\ Goto(c, "committed")
  /\ fate' = [fate EXCEPT ![c] = "committed"]
  /\ UNCHANGED <<admission, pipe, ownerVars, store, events, serviceAt, key,
                 reply, answer, hungUp>>

CompleteImmediate(c) ==
  /\ at[c] = "committed"
  /\ SetTerminal(key[c], "Completed")
  /\ Goto(c, "closed") /\ Answer(c, "Completed")
  /\ UNCHANGED <<admission, pipe, ownerVars, events, serviceAt, key, reply,
                 hungUp, fate>>

(* An outcome query reads the store and answers. *)
QueryOutcome(c, k) ==
  /\ Constructed /\ at[c] = "reading"
  /\ Goto(c, "closed")
  /\ Answer(c, IF entries[k] = "absent" THEN "unknown" ELSE entries[k])
  /\ UNCHANGED <<admission, pipe, ownerVars, store, events, serviceAt, key,
                 reply, hungUp, fate>>

(* Relay the terminal reply of the owner, which ends the connection. *)
Relay(c) ==
  /\ at[c] = "waiting" /\ reply[c] # "none"
  /\ Goto(c, "closed") /\ Answer(c, reply[c])
  /\ UNCHANGED <<admission, pipe, ownerVars, store, events, serviceAt, key,
                 reply, hungUp, fate>>

BugGiveUp(c) ==
  /\ at[c] = "waiting"
  /\ Goto(c, "closed") /\ Answer(c, "Rejected")
  /\ UNCHANGED <<admission, pipe, ownerVars, store, events, serviceAt, key,
                 reply, hungUp, fate>>

(* No reply in time, a write that failed, or an owner that is gone: the    *)
(* thread closes the connection and leaves the outcome unknown.            *)
GiveUp(c) ==
  /\ at[c] = "waiting"
  /\ Goto(c, "closed")
  /\ UNCHANGED <<admission, pipe, ownerVars, store, events, serviceAt, key,
                 reply, answer, hungUp, fate>>

(* The client closes its end. Only the owner looks, when it takes up the   *)
(* command, so only the hang-up of a peer whose command is queued counts.  *)
Queueing(c) ==
  \/ \E i \in 1 .. Len(channel) : channel[i] = c
  \/ current = c /\ ownerAt \in {"received", "dispatch"}

HangUp(c) ==
  /\ Queueing(c) /\ c \notin hungUp
  /\ hungUp' = hungUp \cup {c}
  /\ UNCHANGED <<admission, pipe, ownerVars, store, events, serviceAt, at, key,
                 reply, answer, fate>>

-----------------------------------------------------------------------------
(* The owner thread (BackendExecutor::start's closure and run_owner). *)

(* Backend::start acquires the hardware, or fails and the thread ends. *)
Boot ==
  /\ ownerAt = "booting"
  /\ \/ ownerAt' = "idle" /\ backend' = "open"
     \/ ownerAt' = "gone" /\ UNCHANGED backend
  /\ UNCHANGED <<admission, pipe, current, store, events, serviceAt, clientVars, fate>>

(* recv, and under its own lock the release of the slot. *)
Receive ==
  /\ ownerAt = "idle" /\ channel # << >>
  /\ current' = Head(channel)
  /\ channel' = Tail(channel)
  /\ ownerAt' = "received"
  /\ UNCHANGED <<admission, senderOpen, backend, store, events, serviceAt,
                 clientVars, fate>>

ReleaseSlot ==
  /\ ownerAt = "received"
  /\ queued' = IF queued = 0 THEN 0 ELSE queued - 1
  /\ ownerAt' = "dispatch"
  /\ UNCHANGED <<mode, pipe, current, backend, store, events, serviceAt,
                 clientVars, fate>>

BugDropDisconnected ==
  /\ ownerAt = "dispatch" /\ current \in hungUp
  /\ fate' = [fate EXCEPT ![current] = "dropped"]
  /\ ownerAt' = "idle" /\ current' = None
  /\ UNCHANGED <<admission, pipe, backend, store, events, serviceAt, clientVars>>

(* A command whose peer hung up is dropped without a reply. *)
DropDisconnected ==
  /\ ownerAt = "dispatch" /\ current \in hungUp
  /\ SetTerminal(key[current], "Disconnected")
  /\ fate' = [fate EXCEPT ![current] = "dropped"]
  /\ ownerAt' = "idle" /\ current' = None
  /\ UNCHANGED <<admission, pipe, backend, events, serviceAt, clientVars>>

(* A command that waited past its deadline is dropped and answered. *)
DropExpired ==
  /\ ownerAt = "dispatch" /\ current \in Clients \ hungUp
  /\ SetTerminal(key[current], "Expired")
  /\ fate' = [fate EXCEPT ![current] = "dropped"]
  /\ ownerAt' = "replying"
  /\ UNCHANGED <<admission, pipe, current, backend, events, serviceAt, clientVars>>

StartCommand ==
  /\ ownerAt = "dispatch" /\ current \in Clients \ hungUp
  /\ SetStarted(key[current])
  /\ ownerAt' = "running"
  /\ UNCHANGED <<admission, pipe, current, backend, events, serviceAt,
                 clientVars, fate>>

(* publish_effects: invalidations coalesce in one flag. *)
PublishEffects(effect) == stateChanged' = (stateChanged \/ effect)

(* The hardware transaction, then complete_command's publication of its    *)
(* effects: a mutating command, or the observation ahead of a GetState,    *)
(* invalidates the state the subscribers hold.                             *)
ExecuteCommand(effect) ==
  /\ ownerAt = "running"
  /\ PublishEffects(effect)
  /\ fate' = [fate EXCEPT ![current] = "ran"]
  /\ ownerAt' = "recording"
  /\ UNCHANGED <<admission, pipe, current, backend, store, lifecycleEvents,
                 serviceAt, clientVars>>

RecordCompletion ==
  /\ ownerAt = "recording"
  /\ SetTerminal(key[current], "Completed")
  /\ ownerAt' = "replying"
  /\ UNCHANGED <<admission, pipe, current, backend, events, serviceAt,
                 clientVars, fate>>

BugSendTerminal ==
  /\ ownerAt = "replying" /\ at[current] = "waiting"
  /\ reply' = [reply EXCEPT ![current] = IF fate[current] = "ran" THEN "Completed" ELSE "Timeout"]
  /\ ownerAt' = "idle" /\ current' = None
  /\ UNCHANGED <<admission, pipe, backend, store, events, serviceAt, at, key,
                 answer, hungUp, fate>>

(* A reply to a thread that gave up is lost: its receiver is gone. *)
SendTerminal ==
  /\ ownerAt = "replying"
  /\ LET outcome == IF fate[current] = "ran" THEN "Completed" ELSE "Expired"
     IN  reply' = [reply EXCEPT ![current] =
                     IF at[current] = "waiting" THEN outcome ELSE @]
  /\ ownerAt' = "idle" /\ current' = None
  /\ UNCHANGED <<admission, pipe, backend, store, events, serviceAt, at, key,
                 answer, hungUp, fate>>

(* Observe publishes a change of state; Hotplug relights without one. *)
Maintain(effect) ==
  /\ ownerAt = "dispatch" /\ current \in Maintenance
  /\ effect => current = "Observe"
  /\ PublishEffects(effect)
  /\ ownerAt' = "idle" /\ current' = None
  /\ UNCHANGED <<admission, pipe, backend, store, lifecycleEvents, serviceAt,
                 clientVars, fate>>

(* A barrier first moves the backend: shutdown releases direct EC control, *)
(* restore_volatile takes it up again.                                     *)
MoveBackend ==
  /\ ownerAt = "dispatch" /\ current \in Lifecycle
  /\ backend' = IF current = "Resume" THEN "open" ELSE "closed"
  /\ ownerAt' = "barrier"
  /\ UNCHANGED <<admission, pipe, current, store, events, serviceAt, clientVars, fate>>

BugFinishBarrier ==
  /\ ownerAt = "barrier"
  /\ mode' = CASE current = "Shutdown" -> "Stopped"
               [] current = "Suspend"  -> "Suspended"
               [] current = "Resume"   -> "Active"
  /\ IF current = "Shutdown"
     THEN ownerAt' = "gone" /\ current' = None
     ELSE ownerAt' = "announce" /\ UNCHANGED current
  /\ UNCHANGED <<queued, pipe, backend, store, events, serviceAt, clientVars, fate>>

(* barrier_finished: a shutdown admitted behind a suspend or a resume      *)
(* keeps admission closed. The shutdown barrier ends the thread.           *)
FinishBarrier ==
  /\ ownerAt = "barrier"
  /\ mode' = CASE current = "Shutdown"                          -> "Stopped"
               [] current # "Shutdown" /\ mode = "ShuttingDown" -> mode
               [] current = "Suspend" /\ mode # "ShuttingDown"  -> "Suspended"
               [] current = "Resume" /\ mode # "ShuttingDown"   -> "Active"
  /\ IF current = "Shutdown"
     THEN ownerAt' = "gone" /\ current' = None
     ELSE ownerAt' = "announce" /\ UNCHANGED current
  /\ UNCHANGED <<queued, pipe, backend, store, events, serviceAt, clientVars, fate>>

(* publish_lifecycle: past the bound the oldest notification is dropped. *)
Announce ==
  /\ ownerAt = "announce"
  /\ LET kept == IF Len(lifecycleEvents) = MaxLifecycleEvents
                 THEN Tail(lifecycleEvents) ELSE lifecycleEvents
         event == IF current = "Suspend" THEN "Suspended" ELSE "Resumed"
     IN  lifecycleEvents' = Append(kept, event)
  /\ ownerAt' = "idle" /\ current' = None
  /\ UNCHANGED <<admission, pipe, backend, store, stateChanged, serviceAt,
                 clientVars, fate>>

(* recv fails once the sender is gone and the channel drained: release the *)
(* backend, then stop admission.                                           *)
CloseDisconnected ==
  /\ ownerAt = "idle" /\ channel = << >> /\ ~senderOpen
  /\ backend' = "closed"
  /\ ownerAt' = "disconnected"
  /\ UNCHANGED <<admission, pipe, current, store, events, serviceAt, clientVars, fate>>

StopDisconnected ==
  /\ ownerAt = "disconnected"
  /\ mode' = "Stopped"
  /\ ownerAt' = "gone"
  /\ UNCHANGED <<queued, pipe, current, backend, store, events, serviceAt,
                 clientVars, fate>>

(* A panic in backend code unwinds the thread: the receiver and the        *)
(* backend are dropped (DirectRuntime's Drop releases), the mode is not    *)
(* touched. It may strike a command, maintenance, a barrier, or the        *)
(* release of the backend once the sender is gone. A panic in              *)
(* Backend::start differs in nothing from the error Boot ends with: the    *)
(* handshake's sender is dropped unused and the mode left as it was.       *)
Panic ==
  /\ \/ ownerAt = "running"
     \/ ownerAt = "dispatch" /\ current \notin Clients
     \/ ownerAt = "idle" /\ channel = << >> /\ ~senderOpen
  /\ ownerAt' = "panicked"
  /\ backend' = "closed"
  /\ UNCHANGED <<admission, pipe, current, store, events, serviceAt, clientVars, fate>>

-----------------------------------------------------------------------------
(* The main thread: start, the pump's submissions, and shutdown. *)

(* The startup handshake: Ok, Err, or no answer in time. On a time-out the *)
(* sender is dropped and the owner joined, never detached.                 *)
StartReturns ==
  /\ serviceAt = "starting" /\ ownerAt # "booting"
  /\ IF ownerAt = "gone"
     THEN serviceAt' = "aborting" /\ senderOpen' = FALSE
     ELSE serviceAt' = "up" /\ UNCHANGED senderOpen
  /\ UNCHANGED <<admission, channel, ownerVars, store, events, clientVars, fate>>

BugStartTimesOut ==
  /\ serviceAt = "starting" /\ ownerAt = "booting"
  /\ serviceAt' = "aborting"
  /\ UNCHANGED <<admission, pipe, ownerVars, store, events, clientVars, fate>>

StartTimesOut ==
  /\ serviceAt = "starting" /\ ownerAt = "booting"
  /\ serviceAt' = "aborting" /\ senderOpen' = FALSE
  /\ UNCHANGED <<admission, channel, ownerVars, store, events, clientVars, fate>>

PumpSubmits(op) ==
  /\ serviceAt = "up"
  /\ Submit(op)
  /\ UNCHANGED <<ownerVars, store, events, serviceAt, clientVars, fate>>

TryObserve   == PumpSubmits("Observe")
TryHotplug   == PumpSubmits("Hotplug")
BeginSuspend == PumpSubmits("Suspend")
BeginResume  == PumpSubmits("Resume")

(* drain_events: the coalesced invalidation and every lifecycle event. *)
DrainEvents ==
  /\ serviceAt = "up"
  /\ stateChanged' = FALSE /\ lifecycleEvents' = << >>
  /\ UNCHANGED <<admission, pipe, ownerVars, store, serviceAt, clientVars, fate>>

(* shutdown(): submit the barrier, whatever comes of it; then drop the     *)
(* sender; then join the owner.                                            *)
BeginShutdown ==
  /\ serviceAt = "up"
  /\ Submit("Shutdown")
  /\ serviceAt' = "closing"
  /\ UNCHANGED <<ownerVars, store, events, clientVars, fate>>

DropSender ==
  /\ serviceAt = "closing"
  /\ senderOpen' = FALSE
  /\ serviceAt' = "joining"
  /\ UNCHANGED <<admission, channel, ownerVars, store, events, clientVars, fate>>

Join ==
  /\ serviceAt \in {"aborting", "joining"} /\ ~OwnerAlive
  /\ serviceAt' = IF serviceAt = "joining" THEN "stopped" ELSE "failed"
  /\ UNCHANGED <<admission, pipe, ownerVars, store, events, clientVars, fate>>

-----------------------------------------------------------------------------
(* The owner's steps that publish no event, and those that may. *)
OwnerQuiet ==
  \/ Boot \/ Receive \/ ReleaseSlot
  \/ DropDisconnected \/ DropExpired \/ StartCommand
  \/ RecordCompletion \/ SendTerminal
  \/ MoveBackend \/ FinishBarrier
  \/ CloseDisconnected \/ StopDisconnected

OwnerRun ==
  \/ OwnerQuiet \/ Announce
  \/ \E effect \in BOOLEAN : ExecuteCommand(effect) \/ Maintain(effect)

Owner == OwnerRun \/ Panic

MainRun == StartReturns \/ DropSender \/ Join

Main ==
  \/ MainRun \/ StartTimesOut \/ BeginShutdown
  \/ TryObserve \/ TryHotplug \/ BeginSuspend \/ BeginResume \/ DrainEvents

ClientRun(c) ==
  \/ SubmitCommand(c) \/ WithdrawKey(c)
  \/ CommitImmediate(c) \/ CompleteImmediate(c)
  \/ Relay(c)

Client(c) ==
  \/ ClientRun(c) \/ Reject(c) \/ GiveUp(c) \/ HangUp(c)
  \/ \E k \in Keys : RegisterCommand(c, k) \/ RegisterImmediate(c, k) \/ QueryOutcome(c, k)

Next == Owner \/ Main \/ \E c \in Clients : Client(c)

(* Every thread that can run is scheduled: the owner's steps, the main     *)
(* thread's, and those of a client thread that does not wait for its peer. *)
(* Nothing makes a client connect, logind send a signal or a call to the   *)
(* hardware panic.                                                         *)
Fairness ==
  /\ WF_vars(OwnerRun) /\ WF_vars(MainRun)
  /\ \A c \in Clients : WF_vars(ClientRun(c))

Spec     == Init /\ [][Next]_vars
FairSpec == Spec /\ Fairness

-----------------------------------------------------------------------------
(* Properties. *)

(* Every variable holds a value of its kind. *)
TypeOK ==
  /\ mode \in Modes
  /\ queued \in Nat
  /\ senderOpen \in BOOLEAN
  /\ channel \in Seq(Operations)
  /\ ownerAt \in OwnerPlaces
  /\ current \in Operations \cup {None}
  /\ backend \in {"open", "closed"}
  /\ entries \in [Keys -> Outcomes \cup {"absent"}]
  /\ completed \in Seq(Keys)
  /\ stateChanged \in BOOLEAN
  /\ lifecycleEvents \in Seq({"Suspended", "Resumed"})
  /\ serviceAt \in {"starting", "up", "aborting", "closing", "joining", "failed", "stopped"}
  /\ at \in [Clients -> ClientPlaces]
  /\ key \in [Clients -> Keys \cup {NoKey}]
  /\ reply \in [Clients -> {"none"} \cup Terminal]
  /\ answer \in [Clients -> Outcomes \cup {"none", "unknown", "Rejected"}]
  /\ hungUp \subseteq Clients
  /\ fate \in [Clients -> {"none", "ran", "dropped", "committed"}]

(* The two reserved slots are enough: whatever clients and maintenance have *)
(* queued, a barrier the mode allows finds a slot in the count and room in  *)
(* the channel, even while the owner holds an operation it has received but *)
(* not yet released from the count.                                         *)
BarriersAlwaysFit ==
  \A op \in Lifecycle : Allowed(op) => SlotFree(op) /\ Len(channel) < Capacity

(* The owner starts work, and only works, on a backend that is open: no    *)
(* command or maintenance runs after a suspend or shutdown barrier has     *)
(* released the hardware, before a resume has taken it up again.           *)
WorkNeedsOpenBackend ==
  (current \in Work /\ ownerAt \in {"dispatch", "running", "recording"})
    => backend = "open"

(* The channel is cut by its barriers: nothing is queued behind a suspend  *)
(* or resume but a shutdown, nothing behind a shutdown, and an owner that  *)
(* ended on its own left nothing unprocessed for its clients to wait on.   *)
NothingBehindBarrier ==
  /\ \A i \in 1 .. Len(channel) : channel[i] \in Lifecycle =>
       \/ i = Len(channel)
       \/ i + 1 = Len(channel) /\ channel[i] # "Shutdown" /\ channel[i + 1] = "Shutdown"
  /\ ownerAt = "gone" => channel = << >>

(* The connections whose thread, queued command or running command is to   *)
(* settle the outcome of their key; a panic of the owner strands them.     *)
Running(c) == current = c /\ ownerAt \in {"running", "recording", "panicked"}
Carries(c) ==
  at[c] \in {"registered", "refused", "reserved", "committed"} \/ Queueing(c) \/ Running(c)

(* The store agrees with the threads about every key: an unsettled entry   *)
(* has exactly one carrier that will settle it, so two submissions of one  *)
(* request never both reach the hardware and no key is stuck as Queued;    *)
(* Started means the owner is on it; and a settled one is in the order of  *)
(* completions exactly once, so that it will be evicted exactly once.      *)
StoreAgrees ==
  \A k \in Keys :
    LET carriers == {c \in Clients : key[c] = k /\ Carries(c)}
        settled  == {i \in 1 .. Len(completed) : completed[i] = k}
    IN  /\ \A c, d \in carriers : c = d
        /\ (carriers # {}) <=> (entries[k] \in {"Queued", "Started"})
        /\ (entries[k] = "Started") <=> (\E c \in carriers : Running(c))
        /\ \A i, j \in settled : i = j
        /\ (settled # {}) <=> (entries[k] \in Terminal)

(* A terminal outcome is never rewritten: it stays until MaxRetained later *)
(* completions push it out, so a client that lost its connection can look  *)
(* its outcome up.                                                         *)
TerminalIsFinal ==
  [][\A k \in Keys : entries[k] \in Terminal /\ entries'[k] # entries[k] =>
       entries'[k] = "absent" /\ Len(completed) = MaxRetained /\ k = completed[1]]_vars

(* A request refused, rejected or reported expired to its client was not   *)
(* run and never will be, so the client may safely send it again: nothing  *)
(* of it is left in the channel or in the owner's hand.                    *)
RefusedNeverRuns ==
  \A c \in Clients : answer[c] \in {"Rejected", "Expired"} =>
    fate[c] # "ran" /\ ~Queueing(c) /\ ~Running(c)

(* A terminal outcome tells what happened: Completed is in the store only  *)
(* once a connection with the key has had its effect on the hardware or    *)
(* committed it in memory, so a duplicate never learns of an effect ahead  *)
(* of it; Expired and Disconnected only once one has been dropped.         *)
OutcomesTellTheTruth ==
  \A k \in Keys : entries[k] \in Terminal =>
    \E c \in Clients : /\ key[c] = k
                       /\ IF entries[k] = "Completed"
                          THEN fate[c] \in {"ran", "committed"}
                          ELSE fate[c] = "dropped"

(* A command that was accepted reaches a terminal state: it is run or      *)
(* dropped, unless the owner thread panicked.                              *)
AcceptedSettles ==
  \A c \in Clients : at[c] = "waiting" ~> (fate[c] # "none" \/ ownerAt = "panicked")

(* Once shutdown has begun the owner ends, is joined, and leaves the       *)
(* backend closed, whatever was queued; so does a start that timed out.    *)
ShutdownReleases ==
  (serviceAt \in {"closing", "aborting"}) ~> (serviceAt \in {"stopped", "failed"} /\ backend = "closed")

(* The executor implements the serial backend: a connection's own request  *)
(* is accepted when it enters the channel, runs while the owner executes   *)
(* it, and is done or dropped when the owner says so; it waits for the     *)
(* commands before it in the channel and for the one the owner has taken   *)
(* up. Immediate mutations never reach the backend.                        *)
Phase(c) ==
  CASE fate[c] = "ran"                             -> "done"
    [] fate[c] = "dropped"                         -> "dropped"
    [] fate[c] = "committed"                       -> "new"
    [] fate[c] = "none" /\ current = c /\ ownerAt = "running"  -> "running"
    [] fate[c] = "none" /\ current = c /\ ownerAt = "panicked" -> "lost"
    [] fate[c] = "none" /\ Queueing(c)             -> "accepted"
    [] OTHER                                       -> "new"

TakenUp(d) == current = d /\ ownerAt \in {"received", "dispatch"}

Precedes(d, c) ==
  \E j \in 1 .. Len(channel) :
    channel[j] = c /\ (TakenUp(d) \/ \E i \in 1 .. j - 1 : channel[i] = d)

Serial == INSTANCE SerialBackend WITH
  Requests <- Clients,
  phase    <- [c \in Clients |-> Phase(c)],
  ahead    <- [c \in Clients |-> {d \in Clients : Precedes(d, c)}],
  open     <- (backend = "open")

SerialSpec == Serial!Spec
=============================================================================
