---------------------------- MODULE ProfileEditor ----------------------------
(***************************************************************************)
(* The profile editor (fans_window.rs): its widgets against the profile    *)
(* they edit, and the request that a profile becomes (profile.rs and       *)
(* protocol.rs of the core). A handler of one widget may set others, whose *)
(* handlers then run inside it; those of a load are silenced by SyncGuard, *)
(* but for the one that opens and closes the sliders of the power limits.  *)
(*                                                                         *)
(* A curve is the PPD profile it is the stock curve of, or Own; FanControl *)
(* says what editing one does. The worker that restores defaults is in     *)
(* Profiles; here its answer comes at any time. Operators named Bug... are *)
(* mistaken forms of the ones they precede; no specification uses them.    *)
(***************************************************************************)
EXTENDS Naturals, FiniteSetsExt

CONSTANTS
  StockProfiles,  \* the built-in profiles: id |-> PPD profile
  Custom,         \* the id of a custom profile
  Levels,         \* where a slider of a power limit is moved
  MaxStrokes      \* bound of the model: what the user does

PPD_PROFILES == {"power-saver", "balanced", "performance"}
Disabled == "disabled"
MIN_PPT_WATTS == 5
MAX_PPT_WATTS == 93
MAX_FPPT_WATTS == 120

ASSUME ProfileEditorAssumption ==
  /\ StockProfiles \in [DOMAIN StockProfiles -> PPD_PROFILES] /\ "balanced" \in DOMAIN StockProfiles
  /\ Custom \notin DOMAIN StockProfiles
  /\ Levels \subseteq MIN_PPT_WATTS..MAX_FPPT_WATTS /\ MaxStrokes \in Nat

VARIABLES
  kept,       \* Config.profiles
  main,       \* Config.active_profile
  override,   \* disable_high_power_fan_protection
  dialog,     \* the dialog that asks before it is set
  edited,     \* the coordinator's editing_id
  widgets,    \* what the window shows
  status,     \* the daemon's capabilities as last heard
  restoring,  \* the profile being restored; none once it has been edited
  sameEditor, \* the editor has not been at another profile since
  picked,     \* history: the PPD profile last chosen for each profile
  overtaken,  \* history: a restore has replaced a profile that the editor shows
  strokes

editorWindowVars ==
  <<kept, main, override, dialog, edited, widgets, status, restoring, sameEditor,
    picked, overtaken, strokes>>

Nothing == "nothing"
Own == "own"

----------------------------------------------------------------------------
(* Profiles and requests.                                                  *)

StockPpt(ppd) ==
  CASE ppd = "power-saver" -> <<40, 55, 55>>
    [] ppd = "performance" -> <<70, 86, 86>>
    [] OTHER               -> <<52, 71, 70>>

StockCurves(ppd) == LET of == IF ppd = Disabled THEN "balanced" ELSE ppd IN <<of, of>>

FactoryDefaults(ppd) ==
  [ppd |-> ppd, limitsOn |-> FALSE, limits |-> StockPpt(ppd), curvesOn |-> FALSE,
   direct |-> FALSE, unified |-> TRUE, curves |-> StockCurves(ppd), undervolt |-> FALSE]

InOrder(limits) == limits[1] <= limits[2] /\ limits[2] <= limits[3]
LimitsValid(limits, ordered) ==
  /\ \A i \in 1..3 :
       limits[i] \in MIN_PPT_WATTS..(IF i = 3 THEN MAX_FPPT_WATTS ELSE MAX_PPT_WATTS)
  /\ ordered => InOrder(limits)

ProfileValid(p) ==
  /\ p.ppd \in PPD_PROFILES \cup {Disabled}
  /\ LimitsValid(p.limits, p.limitsOn)
  /\ p.direct => p.curvesOn

EffectiveLimits(p) ==
  IF p.limitsOn THEN p.limits ELSE IF p.ppd = Disabled THEN <<>> ELSE StockPpt(p.ppd)

\* fan_protection_required, with the PL1 that the request writes.
HighPowerProtection(p, disabled) ==
  EffectiveLimits(p) # <<>> /\ EffectiveLimits(p)[1] >= 80 /\ ~disabled

\* ApplyRequest::from_profile; an absent table or curve is <<>>.
FromProfile(p, disabled) ==
  [limits |-> IF p.limitsOn THEN p.limits ELSE <<>>, direct |-> p.direct,
   curves |-> IF ~p.curvesOn /\ ~HighPowerProtection(p, disabled) THEN <<>>
              ELSE IF p.unified THEN <<p.curves[1], p.curves[1]>> ELSE p.curves]

RequestValid(r) ==
  /\ r.direct => r.curves # <<>>
  /\ r.limits # <<>> => LimitsValid(r.limits, TRUE)

----------------------------------------------------------------------------
(* The window.                                                             *)

\* The row lists what the daemon offers; a choice it lacks leaves it as it was.
Row(shown, ppd) == IF ppd \in status.ppds \cup {Disabled} THEN ppd ELSE shown

\* The handler of the checkbox that enables the limits raises what is out of
\* order; also in a load, where it finds the sliders set before.
Raised(l) == <<l[1], Max({l[2], l[1]}), Max({l[3], l[2], l[1]})>>

CurvesOpen(p) == IF ~p.curvesOn THEN {} ELSE IF p.unified THEN {1} ELSE {1, 2}

\* ProfileEditorView::load
Loaded(w, p) ==
  [shows |-> [p EXCEPT !.ppd = Row(w.shows.ppd, p.ppd),
                       !.limits = IF p.limitsOn /\ ~w.shows.limitsOn THEN Raised(p.limits)
                                  ELSE p.limits],
   limitsOpen |-> p.limitsOn, curvesOpen |-> CurvesOpen(p),
   locked |-> HighPowerProtection(p, override)]

\* Every stroke ends in an edit of the profile in the editor, which makes a
\* restore of it stale, and shows the lock as the profile now has it.
Stroke ==
  strokes < MaxStrokes /\ ~dialog /\ strokes' = strokes + 1 /\ UNCHANGED overtaken
Store(p, w, locked) ==
  /\ Stroke /\ kept' = [kept EXCEPT ![edited] = p]
  /\ widgets' = [w EXCEPT !.locked = locked]
  /\ restoring' = IF restoring = edited THEN Nothing ELSE restoring
  /\ UNCHANGED <<main, override, dialog, edited, status, sameEditor>>

\* install_ordering: the sliders that a moved one pushes, or is held by.
Pushed(l, i, watts) ==
  CASE i = 1 -> Raised(<<watts, l[2], l[3]>>)
    [] i = 2 -> Raised(<<l[1], watts, l[3]>>)
    [] i = 3 -> <<l[1], l[2], Max({watts, l[2]})>>

BugStoreLimits(w) ==
  LET p == [kept[edited] EXCEPT !.limitsOn = w.shows.limitsOn, !.limits = w.shows.limits,
                                !.ppd = w.shows.ppd]
  IN Store(p, w, HighPowerProtection(p, override)) /\ UNCHANGED picked

\* The handler `update` without a selection: the limits come from the
\* sliders, and the PPD profile stays, whatever the row shows.
StoreLimits(w) ==
  LET p == [kept[edited] EXCEPT !.limitsOn = w.shows.limitsOn, !.limits = w.shows.limits]
  IN Store(p, w, HighPowerProtection(p, override)) /\ UNCHANGED picked

MoveLimit(i, watts) ==
  /\ widgets.limitsOpen /\ widgets.shows.limits[i] # watts
  /\ i # 3 => watts <= MAX_PPT_WATTS
  /\ StoreLimits([widgets EXCEPT !.shows.limits = Pushed(@, i, watts)])

ToggleLimits ==
  LET on == ~widgets.shows.limitsOn
  IN StoreLimits([widgets EXCEPT !.shows.limitsOn = on, !.limitsOpen = on,
                                 !.shows.limits = IF on THEN Raised(@) ELSE @])

\* A new choice brings its stock curves and limits where they are not custom.
SelectPpd(ppd) ==
  LET old == kept[edited]
      fresh == old.ppd # ppd
      curves == IF fresh /\ ~old.curvesOn THEN StockCurves(ppd) ELSE old.curves
      limits == IF fresh /\ ~old.limitsOn THEN StockPpt(ppd) ELSE widgets.shows.limits
      p == [old EXCEPT !.ppd = ppd, !.curves = curves, !.limits = limits,
                       !.limitsOn = widgets.shows.limitsOn]
      shows == [widgets.shows EXCEPT !.ppd = ppd, !.limits = limits,
                                     !.curves = IF fresh /\ ~old.curvesOn THEN curves ELSE @]
  IN /\ ppd \in status.ppds \cup {Disabled} /\ ppd # widgets.shows.ppd
     /\ Store(p, [widgets EXCEPT !.shows = shows], HighPowerProtection(p, override))
     /\ picked' = [picked EXCEPT ![edited] = ppd]

\* The checkboxes of the fans and the undervolt, and the charts: each writes
\* what it is to the profile, and nothing else.
Write(field, value, w) ==
  Store([kept[edited] EXCEPT ![field] = value], w, widgets.locked) /\ UNCHANGED picked
Shown(field, value) == [widgets EXCEPT !.shows = [@ EXCEPT ![field] = value]]

ToggleField(field) ==
  LET w == Shown(field, ~widgets.shows[field])
  IN Write(field, ~widgets.shows[field],
           IF field \in {"curvesOn", "unified"} THEN [w EXCEPT !.curvesOpen = CurvesOpen(w.shows)]
           ELSE w)
ToggleDirect == status.direct /\ ToggleField("direct")

DrawCurve(i) ==
  /\ i \in widgets.curvesOpen
  /\ Write("curves", [kept[edited].curves EXCEPT ![i] = Own],
           Shown("curves", [widgets.shows.curves EXCEPT ![i] = Own]))

----------------------------------------------------------------------------
(* Which profile it edits.                                                 *)

LoadProfile(profiles, id) ==
  /\ edited' = id /\ widgets' = Loaded(widgets, profiles[id])
  /\ sameEditor' = (sameEditor /\ id = edited)

SelectProfileToEdit(id) ==
  /\ Stroke /\ id \in DOMAIN kept \ {edited} /\ LoadProfile(kept, id) /\ main' = id
  /\ UNCHANGED <<kept, override, dialog, status, restoring, picked>>

\* The main window selects a profile; the editor stays.
SelectElsewhere(id) ==
  /\ Stroke /\ id \in DOMAIN StockProfiles \ {main} /\ main' = id
  /\ UNCHANGED <<kept, override, dialog, edited, widgets, status, restoring, sameEditor, picked>>

AddProfile ==
  LET copied == [id \in DOMAIN kept \cup {Custom} |-> IF id = Custom THEN kept[main] ELSE kept[id]]
  IN /\ Stroke /\ Custom \notin DOMAIN kept
     /\ kept' = copied /\ main' = Custom /\ LoadProfile(copied, Custom)
     /\ picked' = [id \in DOMAIN copied |-> picked[IF id = Custom THEN main ELSE id]]
     /\ UNCHANGED <<override, dialog, status, restoring>>

RemoveEdited ==
  LET left == [id \in DOMAIN kept \ {Custom} |-> kept[id]]
  IN /\ Stroke /\ edited = Custom
     /\ kept' = left /\ main' = (IF main = Custom THEN "balanced" ELSE main)
     /\ LoadProfile(left, main')
     /\ picked' = [id \in DOMAIN left |-> picked[id]]
     /\ restoring' = (IF restoring = Custom THEN Nothing ELSE restoring)
     /\ UNCHANGED <<override, dialog, status>>

\* Restore Factory Defaults; its answer replaces the profile unless it was
\* edited meanwhile, and is shown unless the editor was elsewhere meanwhile.
RestoreBegins ==
  /\ Stroke /\ restoring' = edited /\ sameEditor' = TRUE
  /\ UNCHANGED <<kept, main, override, dialog, edited, widgets, status, picked>>

RestoreEnds ==
  LET id == restoring
      ppd == IF id = Custom THEN kept[id].ppd ELSE StockProfiles[id]
      restored == [kept EXCEPT ![id] = FactoryDefaults(ppd)]
  IN /\ id # Nothing /\ restoring' = Nothing
     /\ kept' = restored /\ picked' = [picked EXCEPT ![id] = ppd]
     /\ IF edited = id /\ sameEditor THEN LoadProfile(restored, id)
        ELSE UNCHANGED <<edited, widgets, sameEditor>>
     /\ overtaken' = (overtaken \/ (edited = id /\ ~sameEditor))
     /\ UNCHANGED <<main, override, dialog, status, strokes>>

RestoreRefused ==
  /\ restoring # Nothing /\ restoring' = Nothing
  /\ UNCHANGED <<kept, main, override, dialog, edited, widgets, status, sameEditor, picked,
                 overtaken, strokes>>

----------------------------------------------------------------------------
(* The protection, and the daemon's capabilities.                          *)

AskToDisable ==
  /\ Stroke /\ ~override /\ dialog' = TRUE
  /\ UNCHANGED <<kept, main, override, edited, widgets, status, restoring, sameEditor, picked>>

AnswerDialog ==
  /\ dialog /\ dialog' = FALSE
  /\ \/ UNCHANGED <<override, widgets>>
     \/ override' = TRUE /\ widgets' = [widgets EXCEPT !.locked = FALSE]
  /\ UNCHANGED <<kept, main, edited, status, restoring, sameEditor, picked,
                 overtaken, strokes>>

EnableProtection ==
  /\ Stroke /\ override /\ override' = FALSE
  /\ widgets' = [widgets EXCEPT !.locked = HighPowerProtection(kept[edited], FALSE)]
  /\ UNCHANGED <<kept, main, dialog, edited, status, restoring, sameEditor, picked>>

\* show_status, sync_ppd_choices: the window was presented, and asked.
StatusKnown ==
  /\ Stroke /\ status' \in [ppds : {PPD_PROFILES, {"balanced"}}, direct : BOOLEAN]
  /\ widgets' = [widgets EXCEPT !.shows.ppd =
                   IF kept[edited].ppd \in status'.ppds THEN kept[edited].ppd ELSE Disabled]
  /\ UNCHANGED <<kept, main, override, dialog, edited, restoring, sameEditor, picked>>

\* The window opens on the active profile, with every choice listed.
ProfileEditorInit ==
  /\ kept = [id \in DOMAIN StockProfiles |-> FactoryDefaults(StockProfiles[id])]
  /\ picked = StockProfiles
  /\ main \in DOMAIN StockProfiles /\ edited = main
  /\ override \in BOOLEAN /\ dialog = FALSE
  /\ status = [ppds |-> PPD_PROFILES, direct |-> FALSE]
  /\ widgets = [shows |-> kept[main], limitsOpen |-> FALSE, curvesOpen |-> {}, locked |-> FALSE]
  /\ restoring = Nothing /\ sameEditor = TRUE /\ overtaken = FALSE /\ strokes = 0

ProfileEditorNext ==
  \/ \E i \in 1..3, watts \in Levels : MoveLimit(i, watts)
  \/ ToggleLimits \/ ToggleDirect
  \/ \E ppd \in PPD_PROFILES \cup {Disabled} : SelectPpd(ppd)
  \/ \E field \in {"curvesOn", "unified", "undervolt"} : ToggleField(field)
  \/ \E i \in {1, 2} : DrawCurve(i)
  \/ \E id \in DOMAIN kept : SelectProfileToEdit(id) \/ SelectElsewhere(id)
  \/ AddProfile \/ RemoveEdited \/ RestoreBegins \/ RestoreEnds \/ RestoreRefused
  \/ AskToDisable \/ AnswerDialog \/ EnableProtection \/ StatusKnown

EditorSpec == ProfileEditorInit /\ [][ProfileEditorNext]_editorWindowVars

----------------------------------------------------------------------------
(* Direct mode without curves: one stroke on either checkbox makes such a  *)
(* profile (fans_window.rs:358), and its own validation refuses it         *)
(* (profile.rs:187) until one of the two is changed again.                 *)
Unfinished(p) == p.direct /\ ~p.curvesOn

(* The window shows the profile it edits and the lock it is under: edits   *)
(* must target what it shows (fans_window.rs).                             *)
EditorShowsItsProfile ==
  /\ [widgets.shows EXCEPT !.ppd = kept[edited].ppd] = kept[edited]
  /\ widgets.locked = HighPowerProtection(kept[edited], override)

(* Whatever is done to the widgets, save refuses a profile for one thing   *)
(* only, direct mode without curves, and never for its limits or its PPD   *)
(* profile; the daemon refuses its request for the same and nothing else,  *)
(* and takes even that where the fan protection brings curves of its own.  *)
(* The PPD profile is the one chosen for it, though rows that do not list  *)
(* it show another, and the window shows what it edits. All of it but for  *)
(* restores that end behind the back of an editor that went away and       *)
(* returned.                                                               *)
EditsAreSound ==
  strokes > 0 /\ ~overtaken =>
    /\ EditorShowsItsProfile
    /\ \A id \in DOMAIN kept :
         LET p == kept[id]
         IN /\ ProfileValid(p) <=> ~Unfinished(p)
            /\ RequestValid(FromProfile(p, override))
                 <=> (Unfinished(p) => HighPowerProtection(p, override))
            /\ p.ppd = picked[id]
=============================================================================
