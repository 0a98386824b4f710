------------------------------ MODULE Overlay ------------------------------
(***************************************************************************)
(* What the desktop shows and who gets the input: the windows registered   *)
(* with Gamescope and the thread that owns the Xwayland connection         *)
(* (gamescope.rs), the lease on the game controller that follows the       *)
(* overlay's visibility (controller.rs), and the notification that stands  *)
(* in for a HUD popup outside gamescope (hud.rs). Each is a thread fed     *)
(* through a channel that keeps only the newest value.                     *)
(*                                                                         *)
(* A window's number is its X11 id. An X11 request is a step of its own:   *)
(* the compositor sees every prefix of what the owner sends. Operators     *)
(* named Bug... are mistaken forms of the ones they precede; no            *)
(* specification uses them.                                                *)
(***************************************************************************)
EXTENDS Naturals, SequencesExt

CONSTANTS
  MainWindow, FansWindow, \* mapped from their first showing on, whatever is hidden
  Dialogs,                \* auxiliary windows that are opened once and destroyed
  HudWindow,              \* the popup of a power source's change
  MAX_WINDOWS,            \* windows in one snapshot
  MaxShown                \* bound of the model: handlers that show, hide or open

Windows == {MainWindow, FansWindow, HudWindow} \cup Dialogs

ASSUME OverlayAssumption ==
  /\ Windows \subseteq Nat /\ MaxShown \in Nat
  /\ MainWindow # FansWindow /\ HudWindow \notin Dialogs \cup {MainWindow, FansWindow}
  /\ Dialogs \cap {MainWindow, FansWindow} = {}
  /\ MAX_WINDOWS \in Nat /\ MAX_WINDOWS > 0

VARIABLES
  gamescope,   \* the overlay backend is connected
  visible,     \* main_window_visible, Gamescope.visible
  registered,  \* registered windows, oldest first
  current,     \* the one that is to have the input
  huds,        \* mapped HUD windows
  destroyed,   \* windows that are gone for good
  mailbox,     \* StateMailbox
  owner,       \* the X11 owner: what it applied, and requests still to send
  x,           \* what the X server has of each window
  broken,      \* the connection failed; no request arrives any more
  updates,     \* the channel of the capture worker; closed when the GUI ends
  capture,     \* the capture worker
  lease,       \* whether the daemon holds the controller for the GUI
  unsure,      \* history: a request of the capture worker or the lease was lost
  note,        \* NotificationMailbox: latest, wake, and both threads' position
  running,     \* the GUI has not ended
  shown

windowVars == <<gamescope, visible, registered, current, huds, destroyed>>
ownerVars  == <<mailbox, owner, x, broken>>
leaseVars  == <<updates, capture, lease, unsure>>
overlayVars == <<windowVars, ownerVars, leaseVars, note, running, shown>>

Nobody == 0

----------------------------------------------------------------------------
(* Gamescope: windows of the GTK thread.                                   *)

Entry(window, hidden) == [window |-> window, hidden |-> hidden]
Listed(entries, window, hidden) ==
  IF \E i \in DOMAIN entries : entries[i].window = window
  THEN [i \in DOMAIN entries |->
          IF entries[i].window = window THEN Entry(window, hidden) ELSE entries[i]]
  ELSE Append(entries, Entry(window, hidden))

(* retire_current: the newest window that is not hidden takes over.        *)
Heir(entries) ==
  LET open == {i \in DOMAIN entries : ~entries[i].hidden}
  IN IF open = {} THEN Nobody ELSE entries[Max(open)].window

(* sync_windows: of the snapshot only the first MAX_WINDOWS count. A HUD is*)
(* active as long as it is there, a window while it is the current one.    *)
StateOf(active, external) == [active |-> active, external |-> external]
Snapshot(show, entries, first, popups) ==
  LET all == [i \in DOMAIN entries |-> entries[i].window] \o popups
      kept == SubSeq(all, 1, Min({Len(all), MAX_WINDOWS}))
  IN [w \in Range(kept) |->
        IF w \in Range(popups) THEN StateOf(TRUE, TRUE)
        ELSE StateOf(show /\ w = first /\ Entry(w, FALSE) \in Range(entries), FALSE)]

BugHiddenEdges(next) == mailbox.forced

(* Windows that were active in the snapshot before and no longer are.      *)
HiddenEdges(next) ==
  mailbox.forced \cup
    {w \in DOMAIN mailbox.last :
       mailbox.last[w].active /\ ~(w \in DOMAIN next /\ next[w].active)}

Submit(next) ==
  mailbox' = [latest |-> <<next>>, last |-> next, forced |-> HiddenEdges(next)]

Sync(show, entries, first, popups) ==
  /\ visible' = show /\ registered' = entries /\ current' = first /\ huds' = popups
  /\ IF gamescope THEN Submit(Snapshot(show, entries, first, popups)) ELSE UNCHANGED mailbox
  /\ UNCHANGED <<gamescope, owner, x, broken>>

Acts == running /\ shown < MaxShown /\ shown' = shown + 1 /\ UNCHANGED running

(* show_window, hide_window: the capture worker is told before the windows.*)
Toggle ==
  /\ Acts
  /\ Sync(~visible, registered, current, huds)
  /\ updates' = (IF gamescope THEN Append(updates, ~visible) ELSE updates)
  /\ UNCHANGED <<destroyed, capture, lease, unsure, note>>

Present(window) ==
  /\ Acts /\ gamescope
  /\ Sync(visible, Listed(registered, window, FALSE), window, huds)
  /\ UNCHANGED <<destroyed, leaseVars, note>>

(* present_auxiliary, show_auxiliary *)
OpenFans == Present(FansWindow)
OpenDialog == \E d \in Dialogs \ destroyed : Present(d)

Retired(entries, window) == IF current = window THEN Heir(entries) ELSE current

(* hide_auxiliary: the surface stays mapped.                               *)
HideFans ==
  /\ Acts /\ \E i \in DOMAIN registered : registered[i].window = FansWindow
  /\ LET entries == Listed(registered, FansWindow, TRUE)
     IN Sync(visible, entries, Retired(entries, FansWindow), huds)
  /\ UNCHANGED <<destroyed, leaseVars, note>>

(* close_auxiliary; GTK then destroys the window.                          *)
CloseDialog ==
  /\ Acts
  /\ \E d \in Dialogs :
       /\ destroyed' = destroyed \cup {d}
       /\ \E i \in DOMAIN registered :
            /\ registered[i].window = d
            /\ LET entries == RemoveAt(registered, i)
               IN Sync(visible, entries, Retired(entries, d), huds)
  /\ UNCHANGED <<leaseVars, note>>

----------------------------------------------------------------------------
(* hud::show: a popup under gamescope, a notification elsewhere.           *)

HudPopup ==
  /\ Acts /\ gamescope /\ HudWindow \notin destroyed /\ huds = <<>>
  /\ Sync(visible, registered, current, <<HudWindow>>)
  /\ UNCHANGED <<destroyed, leaseVars, note>>

HudTimeout ==
  /\ running /\ huds # <<>>
  /\ Sync(visible, registered, current, <<>>)
  /\ destroyed' = destroyed \cup {HudWindow}
  /\ UNCHANGED <<leaseVars, note, running, shown>>

(* NotificationMailbox::submit: the message first, then the wake-up, which *)
(* is dropped when one is waiting.                                         *)
Keep == UNCHANGED <<windowVars, ownerVars, leaseVars>>

LeaveMessage ==
  /\ Acts /\ ~gamescope /\ ~note.submitting
  /\ note' = [note EXCEPT !.latest = TRUE, !.submitting = TRUE, !.left = @ + 1]
  /\ Keep
WakeUp ==
  /\ note.submitting
  /\ note' = [note EXCEPT !.submitting = FALSE, !.wake = TRUE]
  /\ Keep /\ UNCHANGED <<running, shown>>

Notifying(at, next) ==
  /\ running /\ note.at = at /\ note' = next
  /\ Keep /\ UNCHANGED <<running, shown>>

(* notification_loop: the messages present, until none is left.            *)
AwaitWake == note.wake /\ Notifying("wait", [note EXCEPT !.at = "take", !.wake = FALSE])
TakeMessage ==
  Notifying("take",
    IF note.latest THEN [note EXCEPT !.at = "notify", !.latest = FALSE, !.given = note.left]
    ELSE [note EXCEPT !.at = "wait"])
Notify == Notifying("notify", [note EXCEPT !.at = "look"])
LookAgain == Notifying("look", [note EXCEPT !.at = IF note.latest THEN "take" ELSE "wait"])

----------------------------------------------------------------------------
(* The X11 owner. It owes the windows of `due`, in the order of their rank *)
(* and then of their id: first those that must be seen hidden (1), then    *)
(* those that are gone (2), then what has changed (3).                     *)

Owed(rank, window, state) == [rank |-> rank, window |-> window, state |-> state]
Precedes(d, e) == d.rank < e.rank \/ (d.rank = e.rank /\ d.window < e.window)

(* apply_snapshot *)
Plan(applied, next, forced) ==
  LET Prior(w) == IF w \in DOMAIN applied THEN applied[w]
                  ELSE IF w \in DOMAIN next THEN next[w] ELSE StateOf(FALSE, FALSE)
      Hidden(w) == StateOf(FALSE, Prior(w).external)
      now == [w \in (DOMAIN applied \cup forced) \ (forced \ DOMAIN next) |->
                IF w \in forced THEN Hidden(w) ELSE applied[w]]
  IN {Owed(1, w, Hidden(w)) : w \in forced}
     \cup {Owed(2, w, Hidden(w)) : w \in DOMAIN now \ DOMAIN next}
     \cup {Owed(3, w, next[w]) : w \in {v \in DOMAIN next : v \notin DOMAIN now \/ now[v] # next[v]}}

(* apply_one: input leaves a window before it turns invisible, and comes   *)
(* to it after it is shown; a HUD never has it.                            *)
Request(what, value) == [what |-> what, value |-> value]
ApplyOne(state) ==
  IF state.active /\ ~state.external THEN <<Request("opaque", TRUE), Request("focus", TRUE)>>
  ELSE <<Request("focus", FALSE), Request("opaque", state.active)>>

Take ==
  /\ running /\ owner.due = {} /\ mailbox.latest # <<>>
  /\ LET next == Head(mailbox.latest)
     IN owner' = [applied |-> next, due |-> Plan(owner.applied, next, mailbox.forced), half |-> FALSE]
  /\ mailbox' = [mailbox EXCEPT !.latest = <<>>, !.forced = {}]
  /\ UNCHANGED <<windowVars, x, broken, leaseVars, note, running, shown>>

(* A request; the connection may fail at any of them, for good.            *)
SendOf(d) ==
  LET request == ApplyOne(d.state)[IF owner.half THEN 2 ELSE 1]
  IN /\ owner' = [owner EXCEPT !.half = ~@, !.due = IF owner.half THEN @ \ {d} ELSE @]
     /\ broken' \in {broken, TRUE}
     /\ x' = IF broken' \/ d.window \in destroyed THEN x
             ELSE [x EXCEPT ![d.window][request.what] = request.value]

Send ==
  /\ running
  /\ \E d \in owner.due : SendOf(d) /\ \A e \in owner.due \ {d} : Precedes(d, e)
  /\ UNCHANGED <<windowVars, mailbox, leaseVars, note, running, shown>>

----------------------------------------------------------------------------
(* The capture worker. Every wait ends with the newest request, or with the*)
(* end of the GUI, which wins over it.                                     *)

(* latest: requests that queued up count as the newest of them.            *)
Newest == Last(updates)

WorkerStep == gamescope /\ UNCHANGED <<windowVars, ownerVars, note, running, shown>>
SendNext(enabled) == [at |-> "send", enabled |-> enabled]

(* A dismissal is held back for a moment, in which it may be taken back.   *)
AwaitUpdate(enabled) ==
  IF capture.enabled /\ ~enabled THEN [capture EXCEPT !.at = "release"] ELSE SendNext(enabled)

AwaitDesired ==
  /\ capture.at = "wait" /\ updates # <<>> /\ running
  /\ capture' = AwaitUpdate(Newest) /\ updates' = <<>>
  /\ WorkerStep /\ UNCHANGED <<lease, unsure>>
Renew ==
  /\ capture.at = "wait" /\ capture.enabled /\ updates = <<>> /\ running
  /\ ~lease  \* bound of the model: a renewal that changes nothing is left out
  /\ capture' = SendNext(TRUE)
  /\ WorkerStep /\ UNCHANGED <<updates, lease, unsure>>
Release ==
  /\ capture.at = "release"
  /\ capture' = SendNext(IF updates # <<>> THEN Newest ELSE FALSE)
  /\ updates' = <<>> /\ running
  /\ WorkerStep /\ UNCHANGED <<lease, unsure>>
SendLease ==
  /\ capture.at = "send"
  /\ capture' = [capture EXCEPT !.at = "wait"]
  /\ \/ lease' = capture.enabled /\ unsure' = FALSE
     \/ UNCHANGED lease /\ unsure' = TRUE
  /\ WorkerStep /\ UNCHANGED updates
Disconnected ==
  /\ ~running /\ capture.at \in {"wait", "release"}
  /\ capture' = [at |-> "ended", enabled |-> FALSE] /\ updates' = <<>>
  /\ (lease' = FALSE /\ unsure' = FALSE) \/ (UNCHANGED lease /\ unsure' = TRUE)
  /\ WorkerStep

(* The lease ends by itself, sooner than the GUI renews it, or with the    *)
(* daemon that held it.                                                    *)
Lapse ==
  /\ lease /\ lease' = FALSE /\ unsure' = TRUE
  /\ WorkerStep /\ UNCHANGED <<updates, capture>>

Quit ==
  /\ running /\ running' = FALSE
  /\ UNCHANGED <<windowVars, ownerVars, leaseVars, note, shown>>

----------------------------------------------------------------------------
OverlayInit ==
  /\ gamescope \in BOOLEAN /\ visible \in BOOLEAN
  /\ registered = <<Entry(MainWindow, FALSE)>> /\ current = MainWindow
  /\ huds = <<>> /\ destroyed = {}
  /\ LET next == Snapshot(visible, registered, current, huds)
     IN mailbox = [latest |-> <<next>>, last |-> next, forced |-> {}]
  /\ owner = [applied |-> << >>, due |-> {}, half |-> FALSE]
  /\ x = [w \in Windows |-> [opaque |-> FALSE, focus |-> FALSE]] /\ broken = FALSE
  /\ updates = IF gamescope THEN <<visible>> ELSE <<>>
  /\ capture = [at |-> "wait", enabled |-> FALSE] /\ lease = FALSE /\ unsure = FALSE
  /\ note = [latest |-> FALSE, wake |-> FALSE, submitting |-> FALSE, at |-> "wait",
             left |-> 0, given |-> 0]
  /\ running = TRUE /\ shown = 0

GtkThread == Toggle \/ OpenFans \/ OpenDialog \/ HideFans \/ CloseDialog \/ HudPopup \/ HudTimeout
             \/ LeaveMessage \/ WakeUp \/ Quit
X11Owner == gamescope /\ (Take \/ Send)
CaptureWorker == AwaitDesired \/ Renew \/ Release \/ SendLease \/ Disconnected
NotificationOwner == AwaitWake \/ TakeMessage \/ Notify \/ LookAgain
OverlayNext == GtkThread \/ X11Owner \/ CaptureWorker \/ NotificationOwner \/ Lapse

OverlaySpec == OverlayInit /\ [][OverlayNext]_overlayVars

----------------------------------------------------------------------------
Focused == {w \in Windows \ destroyed : x[w].focus}
Opaque == {w \in Windows \ destroyed : x[w].opaque}

(* Whatever windows are opened, hidden and closed while the X11 owner is   *)
(* busy, and at every prefix of its requests: input goes to one window at  *)
(* most, to one the compositor shows, and never to a popup. Once the owner *)
(* has caught up, it goes to the current window of a visible overlay and   *)
(* nowhere else, and that window is open; unless there are more windows    *)
(* than a snapshot holds.                                                  *)
InputFollowsTheOverlay ==
  /\ Cardinality(Focused) <= 1 /\ Focused \subseteq Opaque \ {HudWindow}
  /\ gamescope /\ mailbox.latest = <<>> /\ owner.due = {} /\ ~broken
     /\ Len(registered) + Len(huds) <= MAX_WINDOWS =>
       /\ Focused = IF visible THEN {current} ELSE {}
       /\ Opaque = Focused \cup Range(huds)
       /\ \E i \in DOMAIN registered : registered[i] = Entry(current, FALSE)

(* However the overlay is shown and hidden while the capture worker waits, *)
(* holds a dismissal back or sends: once at rest it holds the controller   *)
(* just while the overlay is visible and the GUI runs, unless a request or *)
(* the lease was lost.                                                     *)
LeaseFollowsTheOverlay ==
  gamescope /\ updates = <<>> /\ ~unsure /\ capture.at = (IF running THEN "wait" ELSE "ended")
    => lease = (running /\ visible)

(* The notification owner never sleeps on a message that was left while it *)
(* was showing another, and never loses the last one.                      *)
MessagesArrive ==
  note.at = "wait" /\ ~note.wake /\ ~note.submitting => note.given = note.left

(* At every prefix of the requests the X server has seen, and whatever     *)
(* windows are opened, hidden and closed while the three threads are busy, *)
(* each of them ends up where the GTK thread last wanted it, and input     *)
(* never goes to a window that is not shown.                               *)
ThreadsFollowTheOverlay ==
  InputFollowsTheOverlay /\ LeaseFollowsTheOverlay /\ MessagesArrive
=============================================================================
