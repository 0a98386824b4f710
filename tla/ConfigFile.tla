----------------------------- MODULE ConfigFile -----------------------------
(***************************************************************************)
(* The GUI's config.json on disk (config.rs): a save copies the old file   *)
(* to .bak and puts the new one in its place, each by a private temporary  *)
(* file, an fsync, a rename and an fsync of the directory; a load writes   *)
(* the defaults when there is no file, and first keeps a copy of one that  *)
(* is not JSON. Any of these may fail, and the machine may crash between   *)
(* any two: renames that the directory was not synced for may be lost,     *)
(* the latest first, and so may the data of a file that was not synced.    *)
(*                                                                         *)
(* A configuration is a number, later ones greater. Operators named Bug... *)
(* are mistaken forms of the ones they precede; no specification uses them.*)
(***************************************************************************)
EXTENDS Integers, Sequences

CONSTANTS MaxRevisions, MaxCrashes, MaxDiskFaults  \* bounds of the model

ASSUME ConfigFileAssumption ==
  MaxRevisions \in Nat /\ MaxCrashes \in Nat /\ MaxDiskFaults \in Nat

Missing == -1
Foreign == -2  \* JSON, but not a valid configuration of this version
Garbage == -3  \* not JSON: somebody else wrote it
Torn    == -4  \* not JSON: part of a file that was not synced
Default == 0
Contents == Missing..MaxRevisions \cup {Foreign, Garbage, Torn}

Names == {"config", "bak", "corrupt"}
Untouched == [name \in Names |-> Missing]

VARIABLES
  directories, \* what the names held after each rename: the first of them
               \* is on the disk for sure, the last is what programs see
  temporary, \* the temporary file: its content, and whether it is synced
  program,   \* the GUI: where it is, and the configuration in memory
  revisions, \* the latest configuration made
  promised,  \* history: the latest one of which the caller was told Ok
  tampered,  \* history: the file was written by somebody else
  crashes, diskFaults

configVars ==
  <<directories, temporary, program, revisions, promised, tampered, crashes, diskFaults>>

Visible == directories[Len(directories)]

\* What a crash may leave of it.
Survivors == {directories[i] : i \in DOMAIN directories}

ConfigFileInit ==
  /\ \E found \in {Missing, Default, Foreign} :
       directories = <<[Untouched EXCEPT !["config"] = found]>>
  /\ temporary = [content |-> Missing, synced |-> FALSE]
  /\ program = [at |-> "down", memory |-> Missing]
  /\ revisions = Default
  /\ promised = Visible["config"] /\ tampered = FALSE /\ crashes = 0 /\ diskFaults = 0

----------------------------------------------------------------------------
(* Steps on files.                                                         *)

At(place) == program.at = place
Go(place) == program' = [program EXCEPT !.at = place]
Settled == UNCHANGED <<revisions, promised, tampered, crashes, diskFaults>>

BugWriteTemporary(from, content, to) ==
  /\ At(from) /\ temporary' = [content |-> content, synced |-> FALSE] /\ Go(to)
  /\ UNCHANGED directories /\ Settled

\* write_unique_sibling: create, write, chmod, fsync.
WriteTemporary(from, content, to) ==
  /\ At(from) /\ temporary' = [content |-> content, synced |-> TRUE] /\ Go(to)
  /\ UNCHANGED directories /\ Settled

Renamed(name, content) ==
  directories' = Append(directories, [Visible EXCEPT ![name] = content])

\* rename; a crash may leave the new name with data that was not synced.
Rename(from, name, to) ==
  /\ At(from) /\ Go(to)
  /\ \E content \in {temporary.content} \cup (IF temporary.synced THEN {} ELSE {Torn}) :
       Renamed(name, content)
  /\ UNCHANGED temporary /\ Settled

SyncParent(from, to) ==
  At(from) /\ Go(to) /\ directories' = <<Visible>> /\ UNCHANGED temporary

----------------------------------------------------------------------------
(* Config::load_or_default.                                                *)

StartProgram ==
  /\ At("down") /\ crashes <= MaxCrashes
  /\ program' = [program EXCEPT !.at = "load"]
  /\ UNCHANGED <<directories, temporary>> /\ Settled

Load ==
  LET found == Visible["config"]
  IN /\ At("load") /\ found # Foreign
     /\ program' = IF found >= Default THEN [at |-> "up", memory |-> found]
                   ELSE [at |-> IF found = Missing THEN "save" ELSE "preserve", memory |-> Default]
     /\ UNCHANGED <<directories, temporary>> /\ Settled

\* Any other version, or a configuration that does not validate: the program
\* goes on with defaults in memory and config_writable off (app.rs:60), so
\* that nothing is written from here on.
LoadRefused ==
  /\ At("load") /\ Visible["config"] = Foreign /\ Go("refused")
  /\ UNCHANGED <<directories, temporary>> /\ Settled

\* preserve_corrupt creates the copy under a name that is free.
Preserve ==
  /\ At("preserve") /\ Go("preserved")
  /\ Renamed("corrupt", Visible["config"])
  /\ UNCHANGED temporary /\ Settled
Preserved == SyncParent("preserved", "save") /\ Settled

----------------------------------------------------------------------------
(* Config::save.                                                           *)

Change ==
  /\ At("up") /\ revisions < MaxRevisions /\ revisions' = revisions + 1
  /\ program' = [at |-> "save", memory |-> revisions + 1]
  /\ UNCHANGED <<directories, temporary, promised, tampered, crashes, diskFaults>>

SaveBegins ==
  /\ At("save") /\ Go(IF Visible["config"] = Missing THEN "write" ELSE "copy")
  /\ UNCHANGED <<directories, temporary>> /\ Settled
CopyOld       == WriteTemporary("copy", Visible["config"], "rotate")
RotateBackup  == Rename("rotate", "bak", "rotated")
BackupSynced  == SyncParent("rotated", "write") /\ Settled
WriteNew      == WriteTemporary("write", program.memory, "replace")
ReplaceConfig == Rename("replace", "config", "replaced")
SaveEnds ==
  /\ SyncParent("replaced", "up") /\ promised' = program.memory
  /\ UNCHANGED <<revisions, tampered, crashes, diskFaults>>

\* Any step reports an error. While loading it makes the program go on
\* without writing; later the change stays in memory, to be saved with the
\* next.
Loading == program.memory = Default
StepFails ==
  /\ program.at \in {"preserve", "preserved", "save", "copy", "rotate", "rotated",
                     "write", "replace", "replaced"}
  /\ diskFaults < MaxDiskFaults /\ diskFaults' = diskFaults + 1
  /\ Go(IF Loading THEN "refused" ELSE "up")
  /\ UNCHANGED <<directories, temporary, revisions, promised, tampered, crashes>>

\* The directory reaches the disk by itself at any time.
WriteBack ==
  /\ Len(directories) > 1 /\ directories' = Tail(directories)
  /\ UNCHANGED <<temporary, program>> /\ Settled

\* The program ends, or is killed: nothing on the disk changes.
ProgramEnds ==
  /\ program.at \in {"up", "refused"} /\ crashes < MaxCrashes /\ crashes' = crashes + 1
  /\ program' = [at |-> "down", memory |-> Missing]
  /\ UNCHANGED <<directories, temporary, revisions, promised, tampered, diskFaults>>

Crash ==
  /\ crashes < MaxCrashes /\ crashes' = crashes + 1
  /\ \E left \in Survivors : directories' = <<left>>
  /\ temporary' = [content |-> Missing, synced |-> FALSE]
  /\ program' = [at |-> "down", memory |-> Missing]
  /\ UNCHANGED <<revisions, promised, tampered, diskFaults>>

\* Somebody else writes the file while the program is down.
Tamper ==
  /\ At("down") /\ ~tampered /\ tampered' = TRUE /\ Len(directories) = 1
  /\ directories' = <<[Visible EXCEPT !["config"] = Garbage]>>
  /\ UNCHANGED <<temporary, program, revisions, promised, crashes, diskFaults>>

ConfigFileNext ==
  \/ StartProgram \/ Load \/ LoadRefused \/ Preserve \/ Preserved \/ Change \/ SaveBegins
  \/ CopyOld \/ RotateBackup \/ BackupSynced \/ WriteNew \/ ReplaceConfig \/ SaveEnds
  \/ StepFails \/ WriteBack \/ ProgramEnds \/ Crash \/ Tamper

ConfigFileSpec == ConfigFileInit /\ [][ConfigFileNext]_configVars

----------------------------------------------------------------------------
(* A configuration of which the caller was told that it is saved is what   *)
(* the next start finds, or a later one: whatever crash comes now.         *)
PromisedIsKept ==
  ~tampered /\ promised # Missing =>
    \A left \in Survivors :
      left["config"] = promised \/ (promised >= Default /\ left["config"] \in promised..revisions)

\* A file that is not JSON is not lost to the defaults that replace it.
GarbageIsKept ==
  tampered => \A left \in Survivors : Garbage \in {left["config"], left["corrupt"]}

\* The file before the last one is a whole file too.
BackupIsWhole == \A left \in Survivors : Torn \notin {left["config"], left["bak"]}

\* Every crash leaves a configuration the user would recognise (save and
\* load_or_default).
ConfigurationIsKept == PromisedIsKept /\ GarbageIsKept /\ BackupIsWhole
=============================================================================
