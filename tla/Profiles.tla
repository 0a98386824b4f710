------------------------------ MODULE Profiles ------------------------------
(***************************************************************************)
(* How the desktop keeps the hardware at the profile the user selected:    *)
(* AppState (app.rs) with ProfileCoordinator, the editor's delayed commits *)
(* (fans_window.rs), the one worker thread that talks to the daemon        *)
(* (worker.rs, client.rs), and the debounced power source (power.rs,       *)
(* core/debounce.rs). Every GTK handler is one action; the worker, the     *)
(* daemon and the answers interleave with them.                            *)
(*                                                                         *)
(* A profile's settings are the stock profile they started from and the    *)
(* number of their last edit. The daemon is what it last applied, and the  *)
(* requests of lost connections that it may still run, in order: what it   *)
(* does with one is the business of Executor and Transactions. Operators   *)
(* named Bug... are mistaken forms of the ones they precede; no            *)
(* specification uses them.                                                *)
(***************************************************************************)
EXTENDS Naturals, Sequences

CONSTANTS
  Builtins, Customs,  \* ids of profiles
  Fallback,           \* the one that stands in for a removed profile
  AutoSwitch,         \* auto_switch_on_power_source
  MaxEvents,          \* bound of the model: handlers the user calls, power observations
  MaxFaults           \* bound of the model: requests and saves that fail, daemon restarts

None == "none"

ASSUME ProfilesAssumption ==
  /\ Fallback \in Builtins /\ Builtins \cap Customs = {} /\ None \notin Builtins \cup Customs
  /\ AutoSwitch \in BOOLEAN
  /\ MaxEvents \in Nat /\ MaxFaults \in Nat

VARIABLES
  gui,        \* the state of the GTK thread, and the worker's queue
  answers,    \* results on their way back to the GTK thread
  file, saved, \* config.json, and whether the last save reached it
  applied,    \* what the daemon runs: a request, or NoRequest
  late,       \* requests of lost connections, still in the daemon
  panel,      \* panel overdrive as last set
  observed,   \* the channel of one observation of the power source
  debounce,   \* PowerDebouncer
  timers,     \* generations whose confirmation timer is running
  source,     \* the power source the GTK thread takes for current (on_battery)
  trust,      \* history: how far the last answers vouch for the daemon
  made,       \* edits so far
  events, faults

daemon  == <<applied, late, panel>>
store   == <<file, saved>>
power   == <<observed, debounce, timers, source>>
bounds  == <<events, faults>>
profileVars == <<gui, answers, store, daemon, power, trust, made, bounds>>

Unknown == "unknown"
Sources == {"ac", "battery"}
Stock(base) == [base |-> base, edit |-> 0]
NoToken == [id |-> None, revision |-> 0, source |-> None]
NoRequest == [id |-> None, content |-> Stock(None), override |-> FALSE]
Known(g, id) == id \in DOMAIN g.config.profiles

----------------------------------------------------------------------------
(* AppState and ProfileCoordinator, as functions of the GTK state.         *)

Push(g, job) == [g EXCEPT !.jobs = Append(@, job)]

(* Config::set_active_for_power_source, save_config *)
SaveConfig(g) == Push(g, [do |-> "save", config |-> g.config])

(* ApplyRequest::from_profile *)
RequestOf(g, id) ==
  [id |-> id, content |-> g.config.profiles[id], override |-> g.config.override]

(* profile_label: all the daemon's status says of what it applied.         *)
Label(content) == IF content.edit = 0 THEN content.base ELSE "custom"

(* start_apply: the profile as it is now. *)
StartApply(g, token) ==
  Push([g EXCEPT !.displaced = FALSE],
       [do |-> "apply", token |-> token,
        request |-> IF Known(g, token.id) THEN RequestOf(g, token.id) ELSE NoRequest])

NewApplyToken(g, on) ==
  [id |-> g.config.active, revision |-> g.revision[g.config.active], source |-> on]

Started(g, on) ==
  LET token == NewApplyToken(g, on) IN StartApply([g EXCEPT !.applying = token], token)

(* apply_active, request_apply *)
ApplyActive(g) ==
  IF g.applying # NoToken THEN [g EXCEPT !.pending = TRUE] ELSE Started(g, source)

(* activate_profile, power::select_profile *)
SelectProfile(g, id, on) ==
  IF ~Known(g, id) \/ g.config.active = id THEN g
  ELSE LET h == [g EXCEPT !.config.active = id]
       IN IF g.applying # NoToken THEN [h EXCEPT !.pending = TRUE] ELSE Started(h, on)

(* select_editing *)
SelectEditing(g, id) ==
  IF g.editing = id THEN g ELSE [g EXCEPT !.editing = id, !.epoch = @ + 1]

(* edit_profile: the profile's revision counts edits, whatever they change.*)
EditProfile(g, id, content) ==
  [g EXCEPT !.config.profiles[id] = content, !.revision[id] = @ + 1]

(* begin_operation, is_current_operation *)
Serial(g, id) == IF id \in DOMAIN g.serial THEN g.serial[id] + 1 ELSE 0
With(f, id, value) == [x \in DOMAIN f \cup {id} |-> IF x = id THEN value ELSE f[x]]
BeginOperation(g, id) == [g EXCEPT !.serial = With(@, id, Serial(g, id))]
Operation(g, id) == [id |-> id, revision |-> g.revision[id], serial |-> Serial(g, id)]
IsCurrentOperation(g, token) ==
  /\ Known(g, token.id) /\ g.revision[token.id] = token.revision
  /\ token.id \in DOMAIN g.serial /\ g.serial[token.id] = token.serial

IsCurrentApply(g, token, on) ==
  /\ g.config.active = token.id /\ Known(g, token.id)
  /\ g.revision[token.id] = token.revision /\ token.source = on

(* commit_pending_edit, flush_pending_edit *)
CommitEdit(g, id) ==
  LET h == SaveConfig(g) IN IF g.config.active = id THEN ApplyActive(h) ELSE h
Flush(g) ==
  IF g.scheduled = None THEN g ELSE CommitEdit([g EXCEPT !.scheduled = None], g.scheduled)

----------------------------------------------------------------------------
(* Handlers of the windows.                                                *)

Handler(g) ==
  /\ events < MaxEvents /\ events' = events + 1 /\ gui' = g
  /\ UNCHANGED <<answers, store, daemon, power, trust, faults>>

(* schedule_apply: one timer, whose predecessor is forgotten, with the      *)
(* commit it was to make; `displaced` notes one of the active profile.     *)
ScheduleApply(g, id) ==
  [g EXCEPT !.scheduled = id,
            !.displaced = @ \/ (g.scheduled = g.config.active /\ g.scheduled # id)]
Schedule(g, id) == Handler(ScheduleApply(g, id))

(* The mode buttons of the main window.                                    *)
SelectMode ==
  /\ \E id \in Builtins : Handler(SelectProfile(gui, id, source))
  /\ UNCHANGED made

(* The selector of the editor: the pending edit is committed first.        *)
SelectForEditing ==
  /\ \E id \in DOMAIN gui.config.profiles :
       Handler(SelectProfile(SelectEditing(Flush(gui), id), id, source))
  /\ UNCHANGED made

(* Any slider, curve or switch of the editor.                              *)
Edit ==
  /\ made' = made + 1
  /\ LET content == [gui.config.profiles[gui.editing] EXCEPT !.edit = made']
     IN Schedule(EditProfile(gui, gui.editing, content), gui.editing)

(* Renaming, or an undervolt that is not applied: nothing for the daemon.  *)
EditQuietly ==
  /\ Handler(SaveConfig(EditProfile(gui, gui.editing, gui.config.profiles[gui.editing])))
  /\ UNCHANGED made

(* High-power protection is a setting of the active profile's requests.    *)
ToggleProtection ==
  /\ Schedule([gui EXCEPT !.config.override = ~@], gui.config.active)
  /\ UNCHANGED made

CommitTimer ==
  /\ gui.scheduled # None
  /\ gui' = Flush(gui)
  /\ UNCHANGED <<answers, store, daemon, power, trust, made, bounds>>

(* add_custom_profile and the selector it moves: a copy of the active one. *)
AddCustom ==
  \E id \in Customs \ DOMAIN gui.config.profiles :
    LET copy == gui.config.profiles[gui.config.active]
        added == [gui EXCEPT !.config.profiles = With(@, id, copy), !.config.active = id,
                             !.revision = With(@, id, 0), !.editing = id, !.epoch = @ + 1]
    IN Handler(ApplyActive(Flush(SaveConfig(added)))) /\ UNCHANGED made

(* Config::remove *)
Instead(id, gone) == IF id = gone THEN Fallback ELSE id
WithoutProfile(g, id) ==
  LET Rest(f) == [x \in DOMAIN f \ {id} |-> f[x]]
      h == [g EXCEPT !.config.profiles = Rest(@), !.revision = Rest(@), !.serial = Rest(@),
                     !.config.active = Instead(@, id),
                     !.config.remembered = [s \in Sources |-> Instead(@[s], id)]]
  IN SelectEditing(h, h.config.active)

RemoveProfile ==
  /\ gui.editing \in Customs
  /\ LET h == SaveConfig(WithoutProfile(gui, gui.editing))
     IN Handler(IF h.config.active # gui.config.active THEN ApplyActive(h) ELSE h)
  /\ UNCHANGED made

(* Restore factory defaults: an apply of its own, outside the coordinator, *)
(* when the profile is active, then a reading of the factory curves.       *)
RestoreFactory ==
  /\ LET id == gui.editing
         stock == Stock(gui.config.profiles[id].base)
         request == [RequestOf(gui, id) EXCEPT !.content = stock]
     IN Handler(Push(BeginOperation(gui, id),
                     [do |-> "restore", token |-> Operation(gui, id), stock |-> stock,
                      request |-> IF gui.config.active = id THEN request ELSE NoRequest]))
  /\ UNCHANGED made

(* apply_panel_overdrive_policy *)
PanelPolicy(g, on) == Push(g, [do |-> "panel", on |-> g.config.always \/ on = "ac"])

ToggleOverdrive ==
  LET g == [gui EXCEPT !.config.always = ~@]
  IN Handler(PanelPolicy(SaveConfig(g), source)) /\ UNCHANGED made

----------------------------------------------------------------------------
(* The worker and the client: one job after another. A request is answered,*)
(* refused, or its connection is lost: then it may run later, or never.    *)

Fault == faults < MaxFaults /\ faults' = faults + 1 /\ UNCHANGED events
Job == Head(gui.jobs)
Answer(result) ==
  /\ gui' = [gui EXCEPT !.jobs = Tail(@)]
  /\ answers' = Append(answers, [job |-> Job, is |-> result])

Working(what) == gui.jobs # <<>> /\ Job.do = what

(* A request that ran also settles the ones sent before it.                *)
Exchange ==
  /\ gui.jobs # <<>> /\ Job.do \in {"apply", "restore"}
  /\ UNCHANGED <<store, panel, power, made>>
  /\ IF Job.request = NoRequest
     THEN Answer(IF Job.do = "apply" THEN "nothing" ELSE "ok")
            /\ UNCHANGED <<applied, late, trust, bounds>>
     ELSE \/ /\ applied' = Job.request /\ late' = <<>> /\ trust' = "content"
             /\ Answer("ok") /\ UNCHANGED bounds
          \/ /\ Fault /\ Answer("error") /\ UNCHANGED <<applied, late>>
             /\ trust' = (IF Job.do = "apply" THEN None ELSE trust)
          \/ /\ Fault /\ Answer("error") /\ UNCHANGED applied
             /\ late' = Append(late, Job.request) /\ trust' = None

RunLate ==
  /\ late # <<>>
  /\ applied' \in {applied, Head(late)} /\ late' = Tail(late)
  /\ UNCHANGED <<gui, answers, store, panel, power, trust, made, bounds>>

(* The results of these two are only reported.                             *)
Save ==
  /\ Working("save") /\ gui' = [gui EXCEPT !.jobs = Tail(@)]
  /\ \/ file' = Job.config /\ saved' = TRUE /\ UNCHANGED bounds
     \/ saved' = FALSE /\ UNCHANGED file /\ Fault
  /\ UNCHANGED <<answers, daemon, power, trust, made>>

SetPanel ==
  /\ Working("panel") /\ gui' = [gui EXCEPT !.jobs = Tail(@)] /\ panel' = Job.on
  /\ UNCHANGED <<answers, store, applied, late, power, trust, made, bounds>>

(* get_state reads; it vouches for the label only.                         *)
GetState ==
  /\ Working("state")
  /\ gui' = [gui EXCEPT !.jobs = Tail(@)]
  /\ \/ /\ answers' = Append(answers, [job |-> Job, is |-> "ok", label |-> Label(applied.content)])
        /\ trust' = (IF trust = None /\ late = <<>> THEN "label" ELSE trust)
        /\ UNCHANGED bounds
     \/ Fault /\ answers' = Append(answers, [job |-> Job, is |-> "error"]) /\ UNCHANGED trust
  /\ UNCHANGED <<store, daemon, power, made>>

(* factory_fan_curves reads; what the daemon applied stays.                *)
ReadCurves ==
  /\ Working("seed")
  /\ (Answer("ok") /\ UNCHANGED bounds) \/ (Answer("error") /\ Fault)
  /\ UNCHANGED <<store, daemon, power, trust, made>>

(* The daemon restarts without its state file.                             *)
DaemonForgets ==
  /\ Fault /\ applied' = NoRequest /\ late' = <<>> /\ trust' = None
  /\ UNCHANGED <<gui, answers, store, panel, power, made>>

----------------------------------------------------------------------------
(* Results, on the GTK thread.                                             *)

Arrived(what) == answers # <<>> /\ Head(answers).job.do = what
Answered(what) ==
  /\ Arrived(what)
  /\ answers' = Tail(answers)
  /\ UNCHANGED <<store, daemon, power, trust, made, bounds>>

BugCompletion(g, token, on) ==
  LET current == IsCurrentApply(g, token, on)
      h == [g EXCEPT !.applying = NoToken, !.pending = FALSE]
  IN [current |-> current, gui |-> h,
      again |-> g.pending]

(* complete_apply: what was asked for meanwhile, or what became of the     *)
(* profile meanwhile, is applied next.                                     *)
Completion(g, token, on) ==
  LET current == IsCurrentApply(g, token, on)
      h == [g EXCEPT !.applying = NoToken, !.pending = FALSE]
  IN [current |-> current, gui |-> h, again |-> g.pending \/ ~current]

ApplyDone ==
  /\ Answered("apply")
  /\ LET answer == Head(answers)
         token == answer.job.token
         done == Completion(gui, token, source)
         next == IF done.again THEN NewApplyToken(done.gui, source) ELSE NoToken
         settled == [done.gui EXCEPT !.applying = next]
         kept == IF answer.is = "ok" /\ done.current
                 THEN SaveConfig([settled EXCEPT !.config.remembered[source] = token.id])
                 ELSE settled
     IN gui' = IF done.again THEN StartApply(kept, next) ELSE kept

RestoreDone ==
  /\ Answered("restore")
  /\ LET answer == Head(answers)
         token == answer.job.token
         replaced == IF IsCurrentOperation(gui, token)
                     THEN SaveConfig(EditProfile(gui, token.id, answer.job.stock)) ELSE gui
     IN gui' = IF answer.is # "ok" THEN gui
               ELSE IF replaced.config.active = token.id THEN ApplyActive(replaced)
               ELSE replaced

(* seed_factory_fan_curves: the bundled defaults give way to the firmware's*)
(* curves, except where the user was faster. A stock profile's curves are  *)
(* not in its request.                                                     *)
SeedDone ==
  /\ Answered("seed")
  /\ LET tokens == Head(answers).job.tokens
         fresh == {id \in Builtins : IsCurrentOperation(gui, tokens[id])}
         seeded == [gui EXCEPT
                      !.revision = [id \in DOMAIN @ |-> IF id \in fresh THEN @[id] + 1 ELSE @[id]]]
         g == IF fresh = {} THEN seeded ELSE SaveConfig(seeded)
     IN gui' = IF Head(answers).is = "ok" /\ g.config.active \in Builtins THEN ApplyActive(g)
               ELSE IF Head(answers).is = "ok" THEN g ELSE gui

(* reapply_if_daemon_differs *)
StateDone ==
  /\ Answered("state")
  /\ LET answer == Head(answers)
     IN gui' = IF answer.is = "ok" /\ answer.label # Label(gui.config.profiles[gui.config.active])
               THEN ApplyActive(gui) ELSE gui

----------------------------------------------------------------------------
(* The power source: an observation replaces the one before it, and a value*)
(* that stays is confirmed.                                                *)

Changed == events < MaxEvents /\ events' = events + 1 /\ UNCHANGED faults

(* The watcher thread: UPower, or sysfs while UPower is down.              *)
Watch ==
  /\ Changed /\ observed' \in (Sources \cup {Unknown}) \ {observed}
  /\ UNCHANGED <<gui, answers, store, daemon, debounce, timers, source, trust, made>>

(* on_confirmed_transition *)
Confirmed(on) ==
  LET g == PanelPolicy(gui, on)
      id == g.config.remembered[on]
  IN /\ source' = on
     /\ gui' = IF ~AutoSwitch \/ g.config.active = id THEN Push(g, [do |-> "state"])
               ELSE SelectProfile(g, id, on)

Confirm(value) ==
  /\ debounce' = [debounce EXCEPT !.pending = None, !.confirmed = value]
  /\ UNCHANGED timers /\ Confirmed(value)
Wait(d) ==
  /\ debounce' = d /\ timers' = timers \cup {d.generation} /\ UNCHANGED gui

(* PowerDebouncer::observe; a repeated value may be past its deadline.     *)
Observe ==
  /\ observed # None /\ observed' = None
  /\ LET fresh == [debounce EXCEPT !.pending = observed, !.generation = @ + 1]
     IN CASE observed = Unknown ->
               /\ debounce' = IF debounce.pending = None THEN debounce
                              ELSE [debounce EXCEPT !.pending = None, !.generation = @ + 1]
               /\ UNCHANGED <<gui, timers, source>>
          [] observed # Unknown /\ observed = debounce.confirmed ->
               /\ debounce' = [debounce EXCEPT !.pending = None]
               /\ source' = observed /\ UNCHANGED <<gui, timers>>
          [] observed # Unknown /\ observed # debounce.confirmed /\ debounce.pending = observed ->
               (Wait(debounce) /\ source' = observed) \/ Confirm(observed)
          [] OTHER -> Wait(fresh) /\ source' = observed
  /\ UNCHANGED <<answers, store, daemon, trust, made, bounds>>

(* on_timer: only the generation that is pending counts.                   *)
Timer ==
  /\ \E generation \in timers :
       /\ timers' = timers \ {generation}
       /\ IF debounce.pending # None /\ debounce.generation = generation
          THEN /\ debounce' = [debounce EXCEPT !.pending = None, !.confirmed = debounce.pending]
               /\ Confirmed(debounce.pending)
          ELSE UNCHANGED <<gui, debounce, source>>
  /\ UNCHANGED <<observed, answers, store, daemon, trust, made, bounds>>

(* on_resume, force_confirm: the daemon's reading across a suspend.        *)
Resume ==
  /\ Changed
  /\ \E value \in Sources :
       /\ debounce' = [pending |-> None, generation |-> debounce.generation + 1,
                       confirmed |-> value]
       /\ Confirmed(value)
  /\ UNCHANGED <<observed, timers, answers, store, daemon, trust, made>>

----------------------------------------------------------------------------
(* Profiles whose factory curves are not loaded yet ask for them.          *)
Seed == [do |-> "seed",
         tokens |-> [id \in Builtins |-> [id |-> id, revision |-> 0, serial |-> 0]]]

ProfilesInit ==
  /\ \E start \in Builtins, seed \in BOOLEAN :
       /\ events = IF seed THEN 1 ELSE 0
       /\ gui = [config |-> [profiles |-> [id \in Builtins |-> Stock(id)], active |-> start,
                             remembered |-> [s \in Sources |-> IF s = "battery" THEN Fallback ELSE start],
                             always |-> TRUE, override |-> FALSE],
                 editing |-> start, epoch |-> 0, revision |-> [id \in Builtins |-> 0],
                 serial |-> IF seed THEN [id \in Builtins |-> 0] ELSE << >>, applying |-> NoToken, pending |-> FALSE,
                 scheduled |-> None, displaced |-> FALSE,
                 jobs |-> IF seed THEN <<Seed>> ELSE <<>>]
  /\ answers = <<>> /\ file = gui.config /\ saved = TRUE
  /\ applied \in {NoRequest, RequestOf(gui, gui.config.active)} /\ late = <<>> /\ panel = TRUE
  /\ observed = None /\ timers = {} /\ source = "ac"
  /\ debounce = [pending |-> None, generation |-> 0, confirmed |-> Unknown]
  /\ trust = None /\ made = 0 /\ faults = 0

User ==
  \/ SelectMode \/ SelectForEditing \/ Edit \/ EditQuietly \/ ToggleProtection
  \/ AddCustom \/ RemoveProfile \/ RestoreFactory \/ ToggleOverdrive
Gtk == ApplyDone \/ RestoreDone \/ StateDone \/ SeedDone \/ CommitTimer \/ Observe \/ Timer
Worker == Exchange \/ Save \/ SetPanel \/ GetState \/ ReadCurves
ProfilesNext == User \/ Gtk \/ Worker \/ RunLate \/ DaemonForgets \/ Watch \/ Resume

ProfilesSpec == ProfilesInit /\ [][ProfilesNext]_profileVars

----------------------------------------------------------------------------
Quiet ==
  /\ gui.jobs = <<>> /\ answers = <<>> /\ gui.applying = NoToken
  /\ gui.scheduled = None /\ late = <<>>

(* Once nothing is under way the daemon runs the active profile as it is   *)
(* now, and config.json holds what the desktop does, whatever was edited,  *)
(* selected, removed or restored while requests were in flight: provided   *)
(* the last request was answered. Where a reading of the daemon's state    *)
(* came after a failure or a restart, it has a profile of the same label.  *)
(* One thing may be stale although all is answered, the protection's       *)
(* override: where the commit of a toggle was displaced by that of an edit *)
(* to another profile, and nothing was applied since.                      *)
SettledIsSelected ==
  Quiet =>
    /\ trust # None => Label(applied.content) = Label(gui.config.profiles[gui.config.active])
    /\ trust = "content" =>
         \E o \in {gui.config.override} \cup (IF gui.displaced THEN BOOLEAN ELSE {}) :
           applied = [RequestOf(gui, gui.config.active) EXCEPT !.override = o]
    /\ trust = "content" /\ saved => file = gui.config
    /\ \A s \in Sources : Known(gui, gui.config.remembered[s])

(* README.md:129 "At 80 W+, hardware fan endpoints are locked unless you   *)
(* confirm the Advanced override": once nothing is under way, the daemon   *)
(* works under the override only where it is still confirmed.              *)
UnlockedOnlyIfConfirmed ==
  Quiet /\ trust = "content" /\ applied.override => gui.config.override
=============================================================================
