---------------------------- MODULE MC_Desktop ----------------------------
(* Four parts of the GUI process: the profiles it keeps the daemon at, the *)
(* overlay, the profile editor and the configuration file. They share no   *)
(* state here, so a behaviour moves one and leaves the others as they      *)
(* start.                                                                  *)
EXTENDS Profiles, Overlay, MC_ProfileEditor, ConfigFile

VARIABLE part

DesktopInit ==
  /\ part \in {"profiles", "overlay", "editor", "file"}
  /\ ProfilesInit
  /\ part # "profiles" => events = 0 /\ applied = NoRequest /\ gui.config.active = Fallback
  /\ OverlayInit
  /\ part # "overlay" => ~gamescope /\ ~visible
  /\ ProfileEditorInit
  /\ part # "editor" => main = "balanced" /\ ~override
  /\ ConfigFileInit
  /\ part # "file" => directories = <<Untouched>>

DesktopNext ==
  /\ UNCHANGED part
  /\ \/ part = "profiles" /\ ProfilesNext /\ UNCHANGED <<overlayVars, editorWindowVars, configVars>>
     \/ part = "overlay" /\ OverlayNext /\ UNCHANGED <<profileVars, editorWindowVars, configVars>>
     \/ part = "editor" /\ ProfileEditorNext /\ UNCHANGED <<profileVars, overlayVars, configVars>>
     \/ part = "file" /\ ConfigFileNext /\ UNCHANGED <<profileVars, overlayVars, editorWindowVars>>

DesktopSpec ==
  DesktopInit /\ [][DesktopNext]_<<part, profileVars, overlayVars, editorWindowVars, configVars>>
=============================================================================
