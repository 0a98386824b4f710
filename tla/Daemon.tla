------------------------------- MODULE Daemon -------------------------------
(***************************************************************************)
(* The socket pump of z13helperd (main.rs) around the backend executor:    *)
(* it follows logind's sleep signals with suspend and resume barriers,     *)
(* keeps the Lifecycle that client threads check before they submit,       *)
(* drains the executor's events, and shuts down on SIGTERM.                *)
(*                                                                         *)
(* Every action is one of the executor's, taken by the thread that takes   *)
(* it in the program and together with what that thread does to the pump's *)
(* own state, so each behaviour of this module is one of the executor's.   *)
(* The pump sleeps in poll(2) until its wake pipe is written; the poll     *)
(* time-out may end a sleep, and nothing here relies on it. As in Executor *)
(* an operator named Bug... is a mistaken form of the one it precedes.     *)
(***************************************************************************)
EXTENDS Executor

CONSTANTS
  SleepCapacity,   \* SLEEP_EVENT_CAPACITY
  MaxSignals       \* bound of the model: sleep signals forwarded

ASSUME SleepAssumption ==
  SleepCapacity \in Nat \ {0} /\ MaxSignals \in Nat

VARIABLES
  lifecycle,       \* the Lifecycle shared with client threads
  checked,         \* clients whose thread has seen Lifecycle::Active
  pumpAt,          \* where the pump is in its loop
  barrier,         \* the barrier next_barrier asked for, not yet submitted
  awakeWanted,     \* logind's latest intent, as the pump knows it
  batch,           \* events drained and not yet handled
  wake,            \* the wake pipe holds a byte
  terminate,       \* the flag the signal handler sets
  rung,            \* ... and whether the handler has written the pipe since
  sleepSignals,    \* the bounded channel from the resume watcher
  watcherAt,       \* "listening", or "notifying" after a send
  asleep,          \* history: the last signal forwarded was PrepareForSleep(true)
  signalled        \* history: signals forwarded, for the bound

pump    == <<pumpAt, barrier, awakeWanted, batch>>
watcher == <<sleepSignals, watcherAt, asleep, signalled>>
handler == <<terminate, rung>>
daemonVars == <<lifecycle, checked, pump, wake, handler, watcher>>
allVars == <<vars, daemonVars>>

DaemonInit ==
  /\ Init
  /\ lifecycle = "Active"
  /\ checked = {}
  /\ pumpAt = "top" /\ barrier = "none" /\ awakeWanted = TRUE /\ batch = << >>
  /\ wake = FALSE
  /\ terminate = FALSE /\ rung = FALSE
  /\ sleepSignals = << >> /\ watcherAt = "listening" /\ asleep = FALSE /\ signalled = 0

-----------------------------------------------------------------------------
(* Other threads. *)

(* The resume watcher forwards a signal of logind, blocking while the      *)
(* channel is full, and then wakes the pump. Signals may repeat: one sent  *)
(* while the watcher reconnects to the bus is never forwarded.             *)
ForwardSignal ==
  /\ serviceAt = "up" /\ watcherAt = "listening" /\ ~terminate
  /\ signalled < MaxSignals /\ Len(sleepSignals) < SleepCapacity
  /\ asleep' \in BOOLEAN
  /\ sleepSignals' = Append(sleepSignals, asleep')
  /\ signalled' = signalled + 1
  /\ watcherAt' = "notifying"
  /\ UNCHANGED <<vars, lifecycle, checked, pump, wake, handler>>

NotifyPump ==
  /\ watcherAt = "notifying"
  /\ watcherAt' = "listening" /\ wake' = TRUE
  /\ UNCHANGED <<vars, lifecycle, checked, pump, handler, sleepSignals, asleep, signalled>>

(* SIGTERM: the flag's handler was registered first, the pipe's second. *)
SignalFlag ==
  /\ serviceAt = "up" /\ ~terminate
  /\ terminate' = TRUE
  /\ UNCHANGED <<vars, lifecycle, checked, pump, wake, rung, watcher>>

BugSignalPipe ==
  /\ terminate /\ ~rung
  /\ rung' = TRUE
  /\ UNCHANGED <<vars, lifecycle, checked, pump, wake, terminate, watcher>>

SignalPipe ==
  /\ terminate /\ ~rung
  /\ rung' = TRUE /\ wake' = TRUE
  /\ UNCHANGED <<vars, lifecycle, checked, pump, terminate, watcher>>

(* A client thread looks at the lifecycle once, before it dispatches. *)
CheckLifecycle(c) ==
  /\ Constructed /\ at[c] = "reading" /\ c \notin checked
  /\ lifecycle = "Active"
  /\ checked' = checked \cup {c}
  /\ UNCHANGED <<vars, lifecycle, pump, wake, handler, watcher>>

RejectInactive(c) ==
  /\ c \notin checked => lifecycle # "Active"
  /\ Reject(c)
  /\ UNCHANGED daemonVars

DispatchChecked(c) ==
  /\ c \in checked
  /\ \E k \in Keys : RegisterCommand(c, k) \/ RegisterImmediate(c, k) \/ QueryOutcome(c, k)
  /\ UNCHANGED daemonVars

(* Committing the capture lease wakes the pump. *)
CommitLease(c) ==
  /\ CommitImmediate(c)
  /\ wake' = TRUE
  /\ UNCHANGED <<lifecycle, checked, pump, handler, watcher>>

ClientProceeds(c) ==
  /\ \/ SubmitCommand(c) \/ WithdrawKey(c) \/ CompleteImmediate(c)
     \/ Relay(c) \/ GiveUp(c) \/ HangUp(c)
  /\ UNCHANGED daemonVars

BugOwnerPublishes ==
  /\ \/ Announce /\ wake' = TRUE
     \/ \E effect \in BOOLEAN : (ExecuteCommand(effect) \/ Maintain(effect)) /\ wake' = wake
  /\ UNCHANGED <<lifecycle, checked, pump, handler, watcher>>

(* The owner thread wakes the pump for the events it publishes. *)
OwnerPublishes ==
  /\ \/ Announce /\ wake' = TRUE
     \/ \E effect \in BOOLEAN :
          (ExecuteCommand(effect) \/ Maintain(effect)) /\ wake' = (wake \/ effect)
  /\ UNCHANGED <<lifecycle, checked, pump, handler, watcher>>

OwnerProceeds == (OwnerQuiet \/ Panic) /\ UNCHANGED daemonVars

-----------------------------------------------------------------------------
(* The pump. *)

PumpGoto(place) == pumpAt' = place

(* The loop's head: leave on terminate, otherwise go on to maintenance. *)
PumpTop ==
  /\ serviceAt = "up" /\ pumpAt = "top"
  /\ IF terminate
     THEN PumpGoto("leaving") /\ lifecycle' = "ShuttingDown"
     ELSE PumpGoto("maintain") /\ UNCHANGED lifecycle
  /\ UNCHANGED <<vars, checked, barrier, awakeWanted, batch, wake, handler, watcher>>

(* Observation and hotplug, when due and the daemon is active; a refusal   *)
(* is ignored.                                                             *)
PumpMaintains ==
  /\ pumpAt = "maintain" /\ lifecycle = "Active"
  /\ TryObserve \/ TryHotplug
  /\ PumpGoto("signals")
  /\ UNCHANGED <<lifecycle, checked, barrier, awakeWanted, batch, wake, handler, watcher>>

PumpSkipsMaintenance ==
  /\ serviceAt = "up" /\ pumpAt = "maintain"
  /\ PumpGoto("signals")
  /\ UNCHANGED <<vars, lifecycle, checked, barrier, awakeWanted, batch, wake, handler, watcher>>

(* Forgets a wake that arrived while the suspend was in flight. *)
BugNextBarrierForgets(cause, awake) ==
  \/ /\ cause = "signal" /\ ~awake /\ lifecycle = "Active"
     /\ lifecycle' = "Suspended" /\ barrier' = "Suspend"
  \/ /\ cause = "signal" /\ awake /\ lifecycle = "Suspended"
     /\ barrier' = "Resume" /\ UNCHANGED lifecycle
  \/ cause = "Resumed" /\ awake /\ lifecycle' = "Active" /\ barrier' = "none"
  \/ /\ cause = "Resumed" /\ ~awake
     /\ barrier' = "Suspend" /\ UNCHANGED lifecycle
  \/ /\ \/ cause = "signal" /\ lifecycle # (IF awake THEN "Suspended" ELSE "Active")
        \/ cause = "Suspended"
     /\ barrier' = "none" /\ UNCHANGED lifecycle

(* Asks for a suspend on every sleep signal, whatever the lifecycle. *)
BugNextBarrierRepeats(cause, awake) ==
  \/ /\ ~awake /\ cause \in {"signal", "Resumed"}
     /\ lifecycle' = "Suspended" /\ barrier' = "Suspend"
  \/ /\ awake
     /\ \/ cause = "signal" /\ lifecycle = "Suspended"
        \/ cause = "Suspended"
     /\ barrier' = "Resume" /\ UNCHANGED lifecycle
  \/ cause = "Resumed" /\ awake /\ lifecycle' = "Active" /\ barrier' = "none"
  \/ /\ \/ cause = "signal" /\ awake /\ lifecycle # "Suspended"
        \/ cause = "Suspended" /\ ~awake
     /\ barrier' = "none" /\ UNCHANGED lifecycle

(* next_barrier: what a logind signal or a finished barrier asks for, given *)
(* the latest intent, and the lifecycle that goes with it.                  *)
NextBarrier(cause, awake) ==
  \/ /\ cause = "signal" /\ ~awake /\ lifecycle = "Active"
     /\ lifecycle' = "Suspended" /\ barrier' = "Suspend"
  \/ /\ awake
     /\ \/ cause = "signal" /\ lifecycle = "Suspended"
        \/ cause = "Suspended"
     /\ barrier' = "Resume" /\ UNCHANGED lifecycle
  \/ cause = "Resumed" /\ awake /\ lifecycle' = "Active" /\ barrier' = "none"
  \/ /\ cause = "Resumed" /\ ~awake
     /\ barrier' = "Suspend" /\ UNCHANGED lifecycle
  \/ /\ \/ cause = "signal" /\ lifecycle # (IF awake THEN "Suspended" ELSE "Active")
        \/ cause = "Suspended" /\ ~awake
     /\ barrier' = "none" /\ UNCHANGED lifecycle

BugTakeSignal ==
  /\ serviceAt = "up" /\ pumpAt = "signals" /\ barrier = "none"
  /\ sleepSignals # << >>
  /\ sleepSignals' = Tail(sleepSignals)
  /\ NextBarrier("signal", ~Head(sleepSignals))
  /\ UNCHANGED <<vars, checked, pumpAt, awakeWanted, batch, wake, handler,
                 watcherAt, asleep, signalled>>

TakeSignal ==
  /\ serviceAt = "up" /\ pumpAt = "signals" /\ barrier = "none"
  /\ sleepSignals # << >>
  /\ awakeWanted' = ~Head(sleepSignals)
  /\ sleepSignals' = Tail(sleepSignals)
  /\ NextBarrier("signal", awakeWanted')
  /\ UNCHANGED <<vars, checked, pumpAt, batch, wake, handler, watcherAt, asleep, signalled>>

SignalsDone ==
  /\ serviceAt = "up" /\ pumpAt = "signals" /\ barrier = "none"
  /\ sleepSignals = << >>
  /\ PumpGoto("drain")
  /\ UNCHANGED <<vars, lifecycle, checked, barrier, awakeWanted, batch, wake, handler, watcher>>

PumpDrains ==
  /\ pumpAt = "drain"
  /\ batch' = (IF stateChanged THEN <<"StateChanged">> ELSE << >>) \o lifecycleEvents
  /\ DrainEvents
  /\ PumpGoto("events")
  /\ UNCHANGED <<lifecycle, checked, barrier, awakeWanted, wake, handler, watcher>>

HandleEvent ==
  /\ serviceAt = "up" /\ pumpAt = "events" /\ barrier = "none"
  /\ batch # << >>
  /\ batch' = Tail(batch)
  /\ IF Head(batch) = "StateChanged"
     THEN UNCHANGED <<lifecycle, barrier>>
     ELSE NextBarrier(Head(batch), awakeWanted)
  /\ UNCHANGED <<vars, checked, pumpAt, awakeWanted, wake, handler, watcher>>

BugStartBarrier ==
  /\ barrier # "none"
  /\ barrier' = "none"
  /\ IF barrier = "Suspend" THEN BeginSuspend ELSE BeginResume
  /\ lifecycle' = IF channel' = channel /\ lifecycle = "Suspended" THEN "Active" ELSE lifecycle
  /\ UNCHANGED <<checked, pumpAt, awakeWanted, batch, wake, handler, watcher>>

(* start_barrier. A suspend that is refused reopens the lifecycle; a       *)
(* resume that is refused waits for the barrier in flight.                 *)
StartBarrier ==
  /\ barrier # "none"
  /\ barrier' = "none"
  /\ IF barrier = "Suspend" THEN BeginSuspend ELSE BeginResume
  /\ lifecycle' = IF barrier = "Suspend" /\ channel' = channel /\ lifecycle = "Suspended"
                  THEN "Active" ELSE lifecycle
  /\ UNCHANGED <<checked, pumpAt, awakeWanted, batch, wake, handler, watcher>>

EventsDone ==
  /\ serviceAt = "up" /\ pumpAt = "events" /\ barrier = "none"
  /\ batch = << >>
  /\ PumpGoto("wait")
  /\ UNCHANGED <<vars, lifecycle, checked, barrier, awakeWanted, batch, wake, handler, watcher>>

(* wait_for_work: poll returns once the pipe is readable; the bytes are    *)
(* discarded before the loop looks at its sources again.                   *)
PumpWakes ==
  /\ serviceAt = "up" /\ pumpAt = "wait" /\ wake
  /\ wake' = FALSE
  /\ PumpGoto("top")
  /\ UNCHANGED <<vars, lifecycle, checked, barrier, awakeWanted, batch, handler, watcher>>

PumpTimesOut ==
  /\ serviceAt = "up" /\ pumpAt = "wait" /\ ~wake
  /\ PumpGoto("top")
  /\ UNCHANGED <<vars, lifecycle, checked, barrier, awakeWanted, batch, wake, handler, watcher>>

BugPumpLeaves ==
  /\ pumpAt = "leaving" /\ serviceAt = "up"
  /\ serviceAt' = "closing"
  /\ senderOpen' = FALSE
  /\ UNCHANGED <<admission, channel, ownerVars, store, events, clientVars, fate, daemonVars>>

PumpLeaves ==
  /\ pumpAt = "leaving"
  /\ BeginShutdown
  /\ UNCHANGED daemonVars

MainProceeds == (MainRun \/ StartTimesOut) /\ UNCHANGED daemonVars

-----------------------------------------------------------------------------
PumpRun ==
  \/ PumpTop \/ PumpSkipsMaintenance \/ TakeSignal \/ SignalsDone \/ PumpDrains
  \/ HandleEvent \/ StartBarrier \/ EventsDone \/ PumpWakes \/ PumpLeaves

DaemonNext ==
  \/ ForwardSignal \/ NotifyPump \/ SignalFlag \/ SignalPipe
  \/ \E c \in Clients : \/ CheckLifecycle(c) \/ RejectInactive(c) \/ DispatchChecked(c)
                        \/ CommitLease(c) \/ ClientProceeds(c)
  \/ OwnerPublishes \/ OwnerProceeds
  \/ PumpRun \/ PumpMaintains \/ PumpTimesOut \/ MainProceeds

(* The threads are scheduled and a handler that has begun finishes; logind, *)
(* clients, SIGTERM, the poll's time-out and a panic owe nothing.           *)
DaemonFairness ==
  /\ WF_allVars(PumpRun)
  /\ WF_allVars(MainRun /\ UNCHANGED daemonVars)
  /\ WF_allVars(OwnerPublishes \/ (OwnerQuiet /\ UNCHANGED daemonVars))
  /\ WF_allVars(NotifyPump) /\ WF_allVars(SignalPipe)

DaemonSpec     == DaemonInit /\ [][DaemonNext]_allVars
DaemonFairSpec == DaemonSpec /\ DaemonFairness

-----------------------------------------------------------------------------
(* Properties. *)

(* Clients are let in only while the executor admits work: Lifecycle is    *)
(* reopened neither by a stale Resumed nor by a suspend refused although    *)
(* the backend is alive.                                                    *)
OpenLifecycleAdmits ==
  (serviceAt = "up" /\ lifecycle = "Active" /\ ownerAt # "panicked") => mode = "Active"

(* A finished barrier the pump has not heard of yet. *)
Finishing(b) == ownerAt = "announce" /\ current = b
Announced(e) ==
  \/ \E i \in 1 .. Len(batch) : batch[i] = e
  \/ \E i \in 1 .. Len(lifecycleEvents) : lifecycleEvents[i] = e
  \/ e = "Suspended" /\ Finishing("Suspend")
  \/ e = "Resumed" /\ Finishing("Resume")

(* A closed lifecycle is on its way: a barrier is asked for, in flight or  *)
(* finished and to be announced, or the backend rests suspended with no    *)
(* one wanting it awake. A wake signal that arrives while a suspend is in  *)
(* flight is never forgotten.                                              *)
NeverStranded ==
  (serviceAt = "up" /\ lifecycle = "Suspended" /\ OwnerAlive) =>
    \/ barrier # "none" \/ mode = "BarrierPending"
    \/ mode = "Active" /\ Announced("Resumed")
    \/ mode = "Suspended" /\ (awakeWanted => Announced("Suspended"))

(* The pump drains often enough: no lifecycle notification is ever dropped *)
(* by the bounded queue, so next_barrier sees every barrier finish.        *)
NoNotificationDropped ==
  ownerAt = "announce" => Len(lifecycleEvents) < MaxLifecycleEvents

(* Once logind falls silent the daemon follows its last word: awake and    *)
(* open to clients, or suspended with the hardware released.               *)
Follows ==
  IF asleep THEN lifecycle = "Suspended" /\ mode = "Suspended" /\ backend = "closed"
            ELSE lifecycle = "Active" /\ mode = "Active" /\ backend = "open"

FollowsLogind ==
  <>[](Follows \/ terminate \/ ownerAt = "panicked" \/ serviceAt # "up")

(* Every invalidation published by the owner is drained for broadcast, on  *)
(* the strength of the wake pipe alone.                                    *)
InvalidationDrained == stateChanged ~> (~stateChanged \/ serviceAt # "up")

(* SIGTERM at any moment ends in a joined owner and released hardware, and *)
(* without waiting for the poll to time out.                               *)
TerminateReleases == terminate ~> (serviceAt = "stopped" /\ backend = "closed")
=============================================================================
