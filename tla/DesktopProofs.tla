--------------------------- MODULE DesktopProofs ---------------------------
(***************************************************************************)
(* Theorems of four parts of the GUI, for any bounds and any profiles.     *)
(*                                                                         *)
(* Part 1. The configuration that the caller was told is saved is what the *)
(* next start finds, or a later one, whatever crash comes now. The         *)
(* invariant follows it through a save: what is renamed into place is      *)
(* whole (Whole), each state the directory may be left in holds the        *)
(* promised configuration or a later one, and so does the save on its way  *)
(* (Keeping); a file that somebody else wrote is copied before it is       *)
(* replaced (Preserves).                                                   *)
(*                                                                         *)
(* Part 2. The profile editor edits what it shows, and a profile is        *)
(* refused for nothing but direct mode without curves. What the sliders do *)
(* to each other is a matter of three numbers (RaisedIsOrdered,            *)
(* PushedIsOrdered); the rest is that the profile and the window change    *)
(* together (StoreKeeps), or the window is loaded anew (LoadKeeps), or     *)
(* neither matters (AloneKeeps).                                           *)
(*                                                                         *)
(* Part 3. Once everything is answered the daemon runs the selected        *)
(* profile. The invariant says what will bring this about while it is not  *)
(* yet so: a commit that is due, the answer of a restore or of a reading   *)
(* (Followed), or an apply that is under way and of the profile as it is   *)
(* now (ApplyFits), or else stale, with another to follow. A change either *)
(* carries what is due (Carries), or ends in an apply behind whatever is   *)
(* queued, which settles it whatever was before (StartSettles); the worker *)
(* moves the head of the queue to the answers (PopKeeps, ApplyRan,         *)
(* RestoreRan), and the GTK thread takes them (TailKeeps, ApplyDoneKeeps). *)
(*                                                                         *)
(* Part 4. The capture worker and the notification owner end up where the  *)
(* GTK thread last wanted them. For each the invariant says what is still  *)
(* on its way to it (Informed, Awoken), and for the worker what became of  *)
(* what it asked for (Leased).                                             *)
(*                                                                         *)
(* Part 5. So does the X11 owner, and on the way the input never goes to a *)
(* window that is not shown, nor to two. A snapshot is a picture that has  *)
(* one window with the input (SnapshotIsPicture) as long as the GTK thread *)
(* keeps its list in order (GtkKeepsWindows). What is due leads to the last*)
(* picture taken (PlanLeads, DoneWith), and whatever must give the input   *)
(* up comes before whatever gets it (GivesUpFirst): the window that had it *)
(* in the owner's last picture is not shown in the next, or is shown there *)
(* and hidden first because it was hidden in between (MailboxFits).        *)
(***************************************************************************)
EXTENDS ConfigFile, ProfileEditor, Profiles, Overlay, FiniteSetTheorems, SequenceTheorems,
        WellFoundedInduction, TLAPS

(***************************************************************************)
(* Part 1. The configuration file.                                         *)
(***************************************************************************)
Held == {Missing, Foreign, Garbage, Torn} \cup Nat
Directory == [Names -> Held]
Saving == {"save", "copy", "rotate", "rotated", "write", "replace", "replaced"}
Preserving == {"preserve", "preserved"}

FileTypes ==
  /\ directories \in Seq(Directory) /\ Len(directories) > 0
  /\ temporary \in [content : Held, synced : BOOLEAN]
  /\ program \in [at : {"down", "load", "up", "refused"} \cup Saving \cup Preserving,
                  memory : Int]
  /\ program.memory >= Missing
  /\ revisions \in Nat /\ promised \in {Missing, Foreign} \cup Nat /\ tampered \in BOOLEAN
  /\ program.at \in Preserving => program.memory = Default

(* No name ever holds part of a file: what is renamed was synced before. *)
Whole ==
  /\ \A left \in Survivors : Torn \notin {left["config"], left["bak"]}
  /\ program.at \in {"rotate", "replace"} => temporary.synced /\ temporary.content # Torn

(* What a start may find where nobody else wrote the file. *)
Recognised(found) ==
  found = promised \/ (promised # Foreign /\ found >= promised /\ found \in Default .. revisions)

(* The configuration on its way to the file is none older than the one     *)
(* that was promised.                                                      *)
Keeping ==
  ~tampered =>
    /\ promised <= revisions
    /\ \A left \in Survivors : Recognised(left["config"])
    /\ promised = Foreign => program.at \in {"down", "load", "refused"}
    /\ program.at \notin Preserving
    /\ program.at \in Saving => program.memory \in Default .. revisions
    /\ program.at \in Saving => program.memory >= promised
    /\ program.at = "replace" => temporary.content = program.memory
    /\ program.at = "replaced" => Visible["config"] = program.memory

(* What somebody else wrote is in its place until the directory with its   *)
(* copy was synced, which is before anything is saved.                     *)
Preserves ==
  tampered =>
    /\ \/ \A left \in Survivors : left["config"] = Garbage
       \/ \A left \in Survivors : left["corrupt"] = Garbage
    /\ program.at \in Saving \cup {"up"} => \A left \in Survivors : left["corrupt"] = Garbage
    /\ program.at = "preserve" => Visible["config"] = Garbage
    /\ program.at = "preserved" => Visible["corrupt"] = Garbage

FileInv == FileTypes /\ Whole /\ Keeping /\ Preserves

(* What a crash may leave after each kind of step on the directory. *)
LEMMA VisibleSurvives == ASSUME FileTypes PROVE Visible \in Survivors /\ Survivors \subseteq Directory
<1>1. Len(directories) \in DOMAIN directories /\ \A i \in DOMAIN directories : directories[i] \in Directory
  BY DEF FileTypes
<1> QED BY <1>1 DEF Visible, Survivors

LEMMA RenameLeaves ==
  ASSUME FileTypes, NEW name \in Names, NEW content \in Held, Renamed(name, content)
  PROVE  /\ directories' \in Seq(Directory) /\ Len(directories') > 0
         /\ Visible' = [Visible EXCEPT ![name] = content]
         /\ Survivors' = Survivors \cup {Visible'}
<1> DEFINE new == [Visible EXCEPT ![name] = content]
<1>1. new \in Directory
  BY VisibleSurvives DEF Directory
<1> HIDE DEF new
<1>2. directories \in Seq(Directory) /\ directories' = Append(directories, new)
  BY DEF FileTypes, Renamed, new
<1>3. /\ directories' \in Seq(Directory) /\ Len(directories') = Len(directories) + 1
      /\ directories'[Len(directories) + 1] = new
      /\ \A i \in 1 .. Len(directories) : directories'[i] = directories[i]
  BY <1>1, <1>2
<1>4. Visible' = new
  BY <1>3 DEF Visible
<1>5. DOMAIN directories' = 1 .. Len(directories) + 1 /\ DOMAIN directories = 1 .. Len(directories)
      /\ Len(directories) \in Nat
  BY <1>2, <1>3
<1>6. Survivors' = Survivors \cup {new}
  BY <1>3, <1>5 DEF Survivors
<1> QED BY <1>1, <1>3, <1>4, <1>5, <1>6 DEF new

LEMMA OneLeft ==
  ASSUME NEW left \in Directory, directories' = <<left>>
  PROVE  /\ directories' \in Seq(Directory) /\ Len(directories') > 0
         /\ Visible' = left /\ Survivors' = {left}
<1>1. directories' \in Seq(Directory) /\ Len(directories') = 1 /\ directories'[1] = left
  OBVIOUS
<1>2. DOMAIN directories' = {1}
  BY <1>1
<1> QED BY <1>1, <1>2 DEF Visible, Survivors

LEMMA WrittenBack ==
  ASSUME FileTypes, WriteBack
  PROVE  /\ directories' \in Seq(Directory) /\ Len(directories') > 0
         /\ Visible' = Visible /\ Survivors' \subseteq Survivors
<1>1. /\ directories \in Seq(Directory) /\ directories' = Tail(directories) /\ Len(directories) > 1
  BY DEF FileTypes, WriteBack
<1>2. /\ directories' \in Seq(Directory) /\ Len(directories') = Len(directories) - 1
      /\ \A i \in 1 .. Len(directories') : directories'[i] = directories[i + 1]
      /\ Len(directories) \in Nat
  BY <1>1
<1>3. DOMAIN directories' = 1 .. Len(directories) - 1 /\ DOMAIN directories = 1 .. Len(directories)
  BY <1>1, <1>2
<1>4. Visible' = Visible
  BY <1>1, <1>2 DEF Visible
<1>5. Survivors' \subseteq Survivors
  <2> SUFFICES ASSUME NEW i \in 1 .. Len(directories) - 1 PROVE directories'[i] \in Survivors
    BY <1>3 DEF Survivors
  <2>1. directories'[i] = directories[i + 1] /\ i + 1 \in DOMAIN directories
    BY <1>2, <1>3
  <2> QED BY <2>1 DEF Survivors
<1>6. Len(directories') > 0
  BY <1>1, <1>2
<1> QED BY <1>1, <1>2, <1>4, <1>5, <1>6

LEMMA Going ==
  ASSUME FileTypes, NEW place, Go(place)
  PROVE  program'.at = place /\ program'.memory = program.memory
PROOF BY DEF FileTypes, Go

LEMMA Unchanging ==
  ASSUME UNCHANGED <<directories, revisions, promised>>
  PROVE  /\ Visible' = Visible /\ Survivors' = Survivors
         /\ \A found : Recognised(found)' <=> Recognised(found)
PROOF BY DEF Visible, Survivors, Recognised

(* The program starts, and finds what is there. *)
LEMMA LoadHolds ==
  ASSUME FileInv, StartProgram \/ Load \/ LoadRefused
  PROVE  FileInv'
<1>1. UNCHANGED <<directories, temporary, revisions, promised, tampered>>
  BY DEF StartProgram, Load, LoadRefused, Settled
<1>2. /\ Visible' = Visible /\ Survivors' = Survivors
      /\ \A found : Recognised(found)' <=> Recognised(found)
  BY <1>1, Unchanging
<1>3. Visible \in Survivors /\ Visible \in Directory /\ Visible["config"] \in Int
  BY VisibleSurvives DEF FileInv, Directory, Names, Held, Missing, Foreign, Garbage, Torn
<1>4. CASE StartProgram \/ LoadRefused
  <2>1. program'.at \in {"load", "refused"} /\ program'.memory = program.memory
    BY <1>4, Going DEF FileInv, StartProgram, LoadRefused, Go, FileTypes
  <2>2. program' = [at |-> program'.at, memory |-> program'.memory]
    BY <1>4 DEF FileInv, FileTypes, StartProgram, LoadRefused, Go
  <2>3. FileTypes'
    BY <1>1, <2>1, <2>2 DEF FileInv, FileTypes, Saving, Preserving
  <2>4. Whole' /\ Keeping' /\ Preserves'
    BY <1>1, <1>2, <2>1 DEF FileInv, Whole, Keeping, Preserves, Saving, Preserving
  <2> QED BY <2>3, <2>4 DEF FileInv
<1>5. CASE Load
  <2> DEFINE found == Visible["config"]
  <2>1. /\ found # Foreign /\ found # Torn
        /\ program' = IF found >= Default THEN [at |-> "up", memory |-> found]
                      ELSE [at |-> IF found = Missing THEN "save" ELSE "preserve",
                            memory |-> Default]
    BY <1>3, <1>5 DEF Load, FileInv, Whole
  <2>2. found \in Int /\ (~tampered => Recognised(found) /\ promised <= revisions)
    BY <1>3 DEF FileInv, Keeping
  <2> HIDE DEF found
  <2>3. CASE found >= Default
    <3>1. program'.at = "up" /\ program'.memory = found /\ program' = [at |-> "up", memory |-> found]
      BY <2>1, <2>3
    <3>2. FileTypes'
      BY <1>1, <2>2, <2>3, <3>1 DEF FileInv, FileTypes, Saving, Preserving, Default, Missing
    <3>3. Whole' /\ Keeping'
      BY <1>1, <1>2, <2>2, <2>3, <3>1
         DEF FileInv, Whole, Keeping, Saving, Preserving, Recognised, Foreign, Default
    <3>4. Preserves'
      BY <1>1, <1>2, <1>3, <2>3, <3>1
         DEF FileInv, Preserves, Saving, Preserving, Garbage, Default, found
    <3> QED BY <3>2, <3>3, <3>4 DEF FileInv
  <2>4. CASE found = Missing
    <3>1. /\ program'.at = "save" /\ program'.memory = Default
          /\ program' = [at |-> "save", memory |-> Default]
      BY <2>1, <2>4 DEF Missing, Default
    <3>2. FileTypes'
      BY <1>1, <2>2, <2>4, <3>1 DEF FileInv, FileTypes, Saving, Preserving, Default, Missing
    <3>3. Whole' /\ Keeping'
      BY <1>1, <1>2, <2>2, <2>4, <3>1
         DEF FileInv, FileTypes, Whole, Keeping, Saving, Preserving, Recognised, Foreign, Default,
             Missing
    <3>4. Preserves'
      BY <1>1, <1>2, <1>3, <2>4, <3>1
         DEF FileInv, Preserves, Saving, Preserving, Garbage, Missing, found
    <3> QED BY <3>2, <3>3, <3>4 DEF FileInv
  <2>5. CASE found < Default /\ found # Missing
    <3>1. /\ program'.at = "preserve" /\ program'.memory = Default
          /\ program' = [at |-> "preserve", memory |-> Default]
      BY <2>1, <2>2, <2>5 DEF Default
    <3>2. tampered /\ found = Garbage
      <4>1. found \in Held
        BY <1>3 DEF Directory, Names, found
      <4>2. found = Garbage
        BY <2>1, <2>5, <4>1 DEF Held, Default
      <4>3. ~Recognised(Garbage)
        BY DEF Recognised, FileInv, FileTypes, Garbage, Missing, Foreign, Default
      <4> QED BY <2>2, <4>2, <4>3 DEF FileInv, FileTypes
    <3>3. FileTypes'
      BY <1>1, <2>2, <3>1 DEF FileInv, FileTypes, Saving, Preserving, Default, Missing
    <3>4. Whole' /\ Keeping' /\ Preserves'
      BY <1>1, <1>2, <3>1, <3>2 DEF FileInv, Whole, Keeping, Preserves, Saving, Preserving, found
    <3> QED BY <3>3, <3>4 DEF FileInv
  <2> QED BY <2>2, <2>3, <2>4, <2>5 DEF Default
<1> QED BY <1>4, <1>5

(* A save, up to each rename: only the temporary file is written. *)
LEMMA WriteHolds ==
  ASSUME FileInv, SaveBegins \/ CopyOld \/ WriteNew
  PROVE  FileInv'
<1>1. UNCHANGED <<directories, revisions, promised, tampered>>
  BY DEF SaveBegins, CopyOld, WriteNew, WriteTemporary, Settled
<1>2. /\ Visible' = Visible /\ Survivors' = Survivors
      /\ \A found : Recognised(found)' <=> Recognised(found)
  BY <1>1, Unchanging
<1>3. Visible \in Survivors /\ Visible \in Directory /\ Visible["config"] \in Held
  BY VisibleSurvives DEF FileInv, Directory, Names
<1>4. /\ program.at \in Saving /\ program'.at \in Saving \ {"replaced"}
      /\ program'.memory = program.memory
      /\ program' = [at |-> program'.at, memory |-> program'.memory]
  BY Going
     DEF FileInv, FileTypes, SaveBegins, CopyOld, WriteNew, WriteTemporary, At, Go, Saving
<1>5. /\ temporary' \in [content : Held, synced : BOOLEAN]
      /\ program'.at \in {"rotate", "replace"} =>
           temporary'.synced /\ temporary'.content # Torn
      /\ program'.at = "replace" => temporary'.content = program.memory
  <2>1. CASE SaveBegins
    <3>1. temporary' = temporary /\ program'.at \in {"write", "copy"}
      BY <2>1, Going DEF SaveBegins, FileInv, Go
    <3> QED BY <3>1 DEF FileInv, FileTypes
  <2>2. CASE CopyOld
    <3>1. /\ temporary' = [content |-> Visible["config"], synced |-> TRUE]
          /\ program'.at = "rotate"
      BY <2>2, Going DEF CopyOld, WriteTemporary, FileInv
    <3>2. Visible["config"] # Torn
      BY <1>3 DEF FileInv, Whole
    <3> QED BY <1>3, <3>1, <3>2
  <2>3. CASE WriteNew
    <3>1. /\ temporary' = [content |-> program.memory, synced |-> TRUE]
          /\ program'.at = "replace"
      BY <2>3, Going DEF WriteNew, WriteTemporary, FileInv
    <3>2. program.memory \in Held /\ program.memory # Torn
      BY DEF FileInv, FileTypes, Held, Missing, Torn
    <3> QED BY <3>1, <3>2
  <2> QED BY <2>1, <2>2, <2>3
<1>6. FileTypes'
  BY <1>1, <1>4, <1>5 DEF FileInv, FileTypes, Saving, Preserving
<1>7. Whole'
  BY <1>2, <1>5 DEF FileInv, Whole
<1>8. Keeping' /\ Preserves'
  BY <1>1, <1>2, <1>4, <1>5 DEF FileInv, Keeping, Preserves, Saving, Preserving
<1> QED BY <1>6, <1>7, <1>8 DEF FileInv

LEMMA RenameHolds ==
  ASSUME FileInv, Preserve \/ RotateBackup \/ ReplaceConfig
  PROVE  FileInv'
<1>1. UNCHANGED <<temporary, revisions, promised, tampered>>
  BY DEF Preserve, RotateBackup, ReplaceConfig, Rename, Settled
<1>2. \A found : Recognised(found)' <=> Recognised(found)
  BY <1>1 DEF Recognised
<1>3. Visible \in Survivors /\ Visible \in Directory /\ Visible["config"] \in Held
  BY VisibleSurvives DEF FileInv, Directory, Names
<1>4. PICK name \in Names, content \in Held :
        /\ Renamed(name, content)
        /\ \/ Preserve /\ name = "corrupt" /\ content = Visible["config"]
           \/ RotateBackup /\ name = "bak" /\ content = temporary.content
           \/ ReplaceConfig /\ name = "config" /\ content = temporary.content
  <2>1. CASE Preserve
    BY <1>3, <2>1 DEF Preserve, Names
  <2>2. CASE RotateBackup \/ ReplaceConfig
    <3>1. temporary.synced /\ temporary.content \in Held
      BY <2>2 DEF FileInv, FileTypes, Whole, RotateBackup, ReplaceConfig, Rename, At
    <3> QED BY <2>2, <3>1 DEF RotateBackup, ReplaceConfig, Rename, Names
  <2> QED BY <2>1, <2>2
<1>5. /\ directories' \in Seq(Directory) /\ Len(directories') > 0
      /\ Survivors' = Survivors \cup {Visible'}
      /\ Visible'[name] = content
      /\ \A other \in Names \ {name} : Visible'[other] = Visible[other]
  BY <1>3, <1>4, RenameLeaves DEF FileInv, Directory
<1>6. /\ program'.at = (IF name = "corrupt" THEN "preserved"
                        ELSE IF name = "bak" THEN "rotated" ELSE "replaced")
      /\ program.at = (IF name = "corrupt" THEN "preserve"
                       ELSE IF name = "bak" THEN "rotate" ELSE "replace")
      /\ program'.memory = program.memory
      /\ program' = [at |-> program'.at, memory |-> program'.memory]
  BY <1>4, Going
     DEF FileInv, FileTypes, Preserve, RotateBackup, ReplaceConfig, Rename, At, Go
<1>7. FileTypes'
  BY <1>1, <1>4, <1>5, <1>6 DEF FileInv, FileTypes, Saving, Preserving, Names
<1>8. Whole'
  <2>1. name \in {"config", "bak"} => content # Torn
    BY <1>4, <1>6 DEF FileInv, Whole
  <2>2. Torn \notin {Visible["config"], Visible["bak"]}
    BY <1>3 DEF FileInv, Whole
  <2>3. Torn \notin {Visible'["config"], Visible'["bak"]}
    BY <1>5, <2>1, <2>2 DEF Names
  <2> QED BY <1>5, <1>6, <2>3 DEF FileInv, Whole
<1>9. Keeping'
  <2> SUFFICES ASSUME ~tampered PROVE Keeping'
    BY <1>1 DEF Keeping
  <2>1. name # "corrupt" /\ program'.at \in Saving
    BY <1>4, <1>6 DEF FileInv, Keeping, Preserving, Saving, Names
  <2>2. CASE name = "config"
    <3>1. content = program.memory
      BY <1>4, <1>6, <2>2 DEF FileInv, Keeping
    <3>2. promised # Foreign /\ Recognised(content)
      BY <1>6, <2>2, <3>1 DEF FileInv, Keeping, Saving, Recognised
    <3>3. Recognised(Visible'["config"])
      BY <1>5, <2>2, <3>2
    <3> QED BY <1>1, <1>2, <1>5, <1>6, <2>1, <2>2, <3>1, <3>2, <3>3
            DEF FileInv, Keeping, Saving, Preserving
  <2>3. CASE name = "bak"
    <3>1. Visible'["config"] = Visible["config"] /\ Recognised(Visible["config"])
      BY <1>3, <1>5, <2>3 DEF FileInv, Keeping, Names
    <3> QED BY <1>1, <1>2, <1>5, <1>6, <2>1, <2>3, <3>1
            DEF FileInv, Keeping, Saving, Preserving
  <2> QED BY <2>1, <2>2, <2>3 DEF Names
<1>10. Preserves'
  <2> SUFFICES ASSUME tampered PROVE Preserves'
    BY <1>1 DEF Preserves
  <2>1. CASE name = "corrupt"
    <3>1. Visible'["corrupt"] = Garbage /\ Visible'["config"] = Garbage
      BY <1>4, <1>5, <1>6, <2>1 DEF FileInv, Preserves, Names
    <3> QED BY <1>5, <1>6, <2>1, <3>1 DEF FileInv, Preserves, Saving
  <2>2. CASE name # "corrupt"
    <3>1. program.at \in Saving
      BY <1>6, <2>2 DEF Saving
    <3>2. \A left \in Survivors : left["corrupt"] = Garbage
      BY <3>1 DEF FileInv, Preserves
    <3>3. Visible'["corrupt"] = Garbage
      BY <1>3, <1>5, <2>2, <3>2 DEF Names
    <3> QED BY <1>5, <1>6, <2>2, <3>2, <3>3 DEF Preserves
  <2> QED BY <2>1, <2>2
<1> QED BY <1>7, <1>8, <1>9, <1>10 DEF FileInv

(* An fsync of the directory: of what a crash may leave, what is visible.  *)
LEMMA SyncHolds ==
  ASSUME FileInv, Preserved \/ BackupSynced \/ SaveEnds
  PROVE  FileInv'
<1>1. UNCHANGED <<temporary, revisions, tampered>> /\ directories' = <<Visible>>
  BY DEF Preserved, BackupSynced, SaveEnds, SyncParent, Settled
<1>2. Visible \in Survivors /\ Visible \in Directory
  BY VisibleSurvives DEF FileInv
<1>3. /\ directories' \in Seq(Directory) /\ Len(directories') > 0
      /\ Visible' = Visible /\ Survivors' = {Visible}
  BY <1>1, <1>2, OneLeft
<1>4. /\ \/ program.at = "preserved" /\ program'.at = "save" /\ promised' = promised
         \/ program.at = "rotated" /\ program'.at = "write" /\ promised' = promised
         \/ /\ program.at = "replaced" /\ program'.at = "up" /\ promised' = program.memory
      /\ program'.memory = program.memory
      /\ program' = [at |-> program'.at, memory |-> program'.memory]
  BY Going
     DEF FileInv, FileTypes, Preserved, BackupSynced, SaveEnds, SyncParent, Settled, At, Go
<1>5. promised' \in {Missing, Foreign} \cup Nat
  BY <1>4 DEF FileInv, FileTypes, Missing, Foreign
<1>6. FileTypes'
  BY <1>1, <1>3, <1>4, <1>5 DEF FileInv, FileTypes, Saving, Preserving
<1>7. Whole'
  BY <1>2, <1>3, <1>4 DEF FileInv, Whole
<1>8. Keeping'
  <2> SUFFICES ASSUME ~tampered PROVE Keeping'
    BY <1>1 DEF Keeping
  <2>1. program.at \in Saving
    BY <1>4 DEF FileInv, Keeping, Preserving, Saving
  <2>2. promised' <= revisions /\ promised' # Foreign
    BY <1>4, <2>1 DEF FileInv, Keeping, Saving, Default, Foreign
  <2>3. Recognised(Visible["config"])'
    <3>1. CASE promised' = promised
      BY <1>1, <1>2, <1>3, <3>1 DEF FileInv, Keeping, Recognised
    <3>2. CASE program.at = "replaced"
      BY <1>3, <1>4, <3>2 DEF FileInv, Keeping, Recognised
    <3> QED BY <1>4, <3>1, <3>2
  <2> QED BY <1>1, <1>3, <1>4, <2>1, <2>2, <2>3 DEF FileInv, Keeping, Saving, Preserving
<1>9. Preserves'
  <2> SUFFICES ASSUME tampered PROVE Preserves'
    BY <1>1 DEF Preserves
  <2>1. Visible["corrupt"] = Garbage
    BY <1>2, <1>4 DEF FileInv, Preserves, Saving
  <2> QED BY <1>3, <1>4, <2>1 DEF Preserves, Saving
<1> QED BY <1>6, <1>7, <1>8, <1>9 DEF FileInv

LEMMA ProgramHolds ==
  ASSUME FileInv, Change \/ StepFails \/ ProgramEnds
  PROVE  FileInv'
<1>1. UNCHANGED <<directories, temporary, promised, tampered>>
  BY DEF Change, StepFails, ProgramEnds
<1>2. Visible' = Visible /\ Survivors' = Survivors
  BY <1>1 DEF Visible, Survivors
<1>3. CASE Change
  <2>1. /\ program.at = "up" /\ program' = [at |-> "save", memory |-> revisions + 1]
        /\ program'.at = "save" /\ program'.memory = revisions + 1
        /\ revisions' = revisions + 1 /\ revisions \in Nat
    BY <1>3 DEF Change, At, FileInv, FileTypes
  <2>2. FileTypes'
    BY <1>1, <2>1 DEF FileInv, FileTypes, Saving, Preserving, Missing
  <2>3. \A found : ~tampered /\ Recognised(found) => Recognised(found)'
    BY <1>1, <2>1 DEF Recognised, Default
  <2>4. Keeping'
    BY <1>1, <1>2, <2>1, <2>3
       DEF FileInv, FileTypes, Keeping, Saving, Preserving, Default, Missing, Foreign
  <2>5. Whole' /\ Preserves'
    BY <1>1, <1>2, <2>1 DEF FileInv, Whole, Preserves, Saving
  <2> QED BY <2>2, <2>4, <2>5 DEF FileInv
<1>4. CASE StepFails \/ ProgramEnds
  <2>1. /\ revisions' = revisions /\ program'.at \in {"refused", "up", "down"}
        /\ program'.at = "up" =>
             program.at \in Saving \cup Preserving /\ program.memory # Default
        /\ program'.memory \in {program.memory, Missing}
        /\ program' = [at |-> program'.at, memory |-> program'.memory]
    BY <1>4 DEF FileInv, FileTypes, StepFails, ProgramEnds, Go, Loading, Saving, Preserving
  <2>2. FileTypes'
    BY <1>1, <2>1 DEF FileInv, FileTypes, Saving, Preserving, Missing
  <2>3. \A found : Recognised(found)' <=> Recognised(found)
    BY <1>1, <2>1 DEF Recognised
  <2>4. program'.at = "up" => program.at \in Saving
    BY <2>1 DEF FileInv, FileTypes
  <2>5. Keeping' /\ Whole' /\ Preserves'
    BY <1>1, <1>2, <2>1, <2>3, <2>4 DEF FileInv, Keeping, Whole, Preserves, Saving, Preserving
  <2> QED BY <2>2, <2>5 DEF FileInv
<1> QED BY <1>3, <1>4

(* What the machine and others do with the file. *)
LEMMA MachineHolds ==
  ASSUME FileInv, WriteBack \/ Crash \/ Tamper
  PROVE  FileInv'
<1>1. UNCHANGED <<revisions, promised>>
  BY DEF WriteBack, Crash, Tamper, Settled
<1>2. \A found : Recognised(found)' <=> Recognised(found)
  BY <1>1 DEF Recognised
<1>3. Visible \in Survivors /\ Survivors \subseteq Directory
  BY VisibleSurvives DEF FileInv
<1>4. CASE WriteBack
  <2>1. /\ UNCHANGED <<temporary, program, tampered>>
        /\ directories' \in Seq(Directory) /\ Len(directories') > 0
        /\ Visible' = Visible /\ Survivors' \subseteq Survivors
    BY <1>4, WrittenBack DEF FileInv, WriteBack, Settled
  <2>2. FileTypes'
    BY <1>1, <2>1 DEF FileInv, FileTypes
  <2>3. Whole' /\ Keeping' /\ Preserves'
    BY <1>1, <1>2, <2>1 DEF FileInv, Whole, Keeping, Preserves
  <2> QED BY <2>2, <2>3 DEF FileInv
<1>5. CASE Crash
  <2>1. PICK left \in Survivors : directories' = <<left>>
    BY <1>5 DEF Crash
  <2>2. /\ directories' \in Seq(Directory) /\ Len(directories') > 0
        /\ Visible' = left /\ Survivors' = {left}
    BY <1>3, <2>1, OneLeft
  <2>3. /\ program' = [at |-> "down", memory |-> Missing] /\ tampered' = tampered
        /\ program'.at = "down" /\ program'.memory = Missing
        /\ temporary' = [content |-> Missing, synced |-> FALSE]
    BY <1>5 DEF Crash
  <2>4. FileTypes'
    BY <1>1, <2>2, <2>3 DEF FileInv, FileTypes, Held, Preserving, Missing
  <2>5. Whole' /\ Keeping' /\ Preserves'
    BY <1>1, <1>2, <2>2, <2>3
       DEF FileInv, Whole, Keeping, Preserves, Saving, Preserving
  <2> QED BY <2>4, <2>5 DEF FileInv
<1>6. CASE Tamper
  <2> DEFINE left == [Visible EXCEPT !["config"] = Garbage]
  <2>1. /\ left \in Directory /\ left["config"] = Garbage /\ left["bak"] = Visible["bak"]
    BY <1>3 DEF Directory, Held, Names
  <2>2. /\ directories' = <<left>> /\ UNCHANGED <<temporary, program>>
        /\ program.at = "down" /\ tampered' = TRUE
    BY <1>6 DEF Tamper, At
  <2> HIDE DEF left
  <2>3. /\ directories' \in Seq(Directory) /\ Len(directories') > 0
        /\ Visible' = left /\ Survivors' = {left}
    BY <2>1, <2>2, OneLeft
  <2>4. FileTypes'
    BY <1>1, <2>2, <2>3 DEF FileInv, FileTypes
  <2>5. Whole'
    BY <1>3, <2>1, <2>2, <2>3 DEF FileInv, Whole, Garbage, Torn
  <2>6. Keeping' /\ Preserves'
    BY <2>1, <2>2, <2>3 DEF Keeping, Preserves, Saving
  <2> QED BY <2>4, <2>5, <2>6 DEF FileInv
<1> QED BY <1>4, <1>5, <1>6

LEMMA FileInvHolds == FileInv /\ [ConfigFileNext]_configVars => FileInv'
<1> SUFFICES ASSUME FileInv, [ConfigFileNext]_configVars PROVE FileInv'
  OBVIOUS
<1>1. CASE UNCHANGED configVars
  BY <1>1, Unchanging DEF configVars, FileInv, FileTypes, Whole, Keeping, Preserves
<1> QED
  BY <1>1, LoadHolds, WriteHolds, RenameHolds, SyncHolds, ProgramHolds, MachineHolds
     DEF ConfigFileNext

LEMMA FileInvStarts == ConfigFileInit => FileInv
<1> SUFFICES ASSUME ConfigFileInit PROVE FileInv
  OBVIOUS
<1>1. PICK found \in {Missing, Default, Foreign} :
        directories = <<[Untouched EXCEPT !["config"] = found]>>
  BY DEF ConfigFileInit
<1> DEFINE left == [Untouched EXCEPT !["config"] = found]
<1>2. left \in Directory /\ left["config"] = found /\ left["bak"] = Missing
  BY DEF Directory, Untouched, Held, Names, Default
<1> HIDE DEF left
<1>3. directories = <<left>>
  BY <1>1 DEF left
<1>4. directories \in Seq(Directory) /\ Len(directories) = 1 /\ directories[1] = left
  BY <1>2, <1>3
<1>5. DOMAIN directories = {1}
  BY <1>4
<1>6. Visible = left /\ Survivors = {left}
  BY <1>4, <1>5 DEF Visible, Survivors
<1>7. /\ program = [at |-> "down", memory |-> Missing] /\ revisions = Default
      /\ temporary = [content |-> Missing, synced |-> FALSE]
      /\ promised = found /\ tampered = FALSE
  BY <1>2, <1>6 DEF ConfigFileInit
<1>8. FileTypes
  <2>1. temporary \in [content : Held, synced : BOOLEAN]
    BY <1>7 DEF Held
  <2>2. /\ program \in [at : {"down"}, memory : Int] /\ program.memory >= Missing
        /\ program.at = "down"
    BY <1>7 DEF Missing
  <2>3. revisions \in Nat /\ promised \in {Missing, Foreign} \cup Nat /\ tampered \in BOOLEAN
    <3>1. found \in {Missing, Foreign} \cup Nat /\ Default \in Nat
      BY <1>1 DEF Default
    <3> QED BY <1>7, <3>1
  <2> QED BY <1>4, <2>1, <2>2, <2>3 DEF FileTypes, Preserving
<1>9. Whole /\ Keeping /\ Preserves
  BY <1>2, <1>6, <1>7
     DEF Whole, Keeping, Preserves, Recognised, Saving, Preserving, Missing, Foreign, Default, Torn
<1> QED BY <1>8, <1>9 DEF FileInv

(* Every crash leaves a configuration the user would recognise: the one    *)
(* that was promised or a later one, a backup that is whole, and of a file *)
(* that was not JSON its copy (save, load_or_default, preserve_corrupt).   *)
THEOREM FileIsKept == ConfigFileSpec => []ConfigurationIsKept
<1>1. FileInv => ConfigurationIsKept
  <2> SUFFICES ASSUME FileInv PROVE ConfigurationIsKept
    OBVIOUS
  <2>1. PromisedIsKept
    BY DEF FileInv, FileTypes, Keeping, Recognised, PromisedIsKept, Missing, Foreign, Default
  <2>2. GarbageIsKept
    BY DEF FileInv, Preserves, GarbageIsKept
  <2>3. BackupIsWhole
    BY DEF FileInv, Whole, BackupIsWhole
  <2> QED BY <2>1, <2>2, <2>3 DEF ConfigurationIsKept
<1> QED BY <1>1, FileInvStarts, FileInvHolds, PTL DEF ConfigFileSpec

(***************************************************************************)
(* Part 2. The profile editor.                                             *)
(***************************************************************************)
PpdChoices == PPD_PROFILES \cup {Disabled}
Limits == Nat \X Nat \X Nat
CurvePairs == [1 .. 2 -> PPD_PROFILES \cup {Own}]

ProfileTypes ==
  [ppd : PpdChoices, limitsOn : BOOLEAN, limits : Limits, curvesOn : BOOLEAN,
   direct : BOOLEAN, unified : BOOLEAN, curves : CurvePairs, undervolt : BOOLEAN]

WindowTypes ==
  [shows : ProfileTypes, limitsOpen : BOOLEAN, curvesOpen : SUBSET {1, 2}, locked : BOOLEAN]

EditorTypes ==
  /\ DOMAIN StockProfiles \subseteq DOMAIN kept
  /\ DOMAIN kept \subseteq DOMAIN StockProfiles \cup {Custom}
  /\ kept \in [DOMAIN kept -> ProfileTypes] /\ picked \in [DOMAIN kept -> PpdChoices]
  /\ main \in DOMAIN kept /\ edited \in DOMAIN kept
  /\ widgets \in WindowTypes
  /\ status \in [ppds : SUBSET PPD_PROFILES, direct : BOOLEAN]
  /\ restoring = Nothing \/ restoring \in DOMAIN kept
  /\ override \in BOOLEAN /\ overtaken \in BOOLEAN

(* A profile that is one to save, but for direct mode without curves. *)
Sound(id) ==
  LimitsValid(kept[id].limits, kept[id].limitsOn) /\ kept[id].ppd = picked[id]

EditorInv ==
  /\ EditorTypes
  /\ ~overtaken =>
       /\ EditorShowsItsProfile
       /\ widgets.limitsOpen = widgets.shows.limitsOn
       /\ \A id \in DOMAIN kept : Sound(id)

----------------------------------------------------------------------------
(* The limits: what the sliders do to each other keeps them in order, and  *)
(* leaves limits that are in order as they are.                            *)

LEMMA MaxOfTwo ==
  ASSUME NEW a \in Nat, NEW b \in Nat
  PROVE  Max({a, b}) = (IF a <= b THEN b ELSE a)
<1> DEFINE m == IF a <= b THEN b ELSE a
<1>1. m \in {a, b} /\ \A y \in {a, b} : m >= y
  OBVIOUS
<1>2. \A n \in {a, b} : (\A y \in {a, b} : n >= y) => n = m
  OBVIOUS
<1> QED BY <1>1, <1>2, Zenon DEF Max

LEMMA MaxOfThree ==
  ASSUME NEW a \in Nat, NEW b \in Nat, NEW c \in Nat
  PROVE  Max({a, b, c}) = (IF a <= b THEN IF b <= c THEN c ELSE b
                           ELSE IF a <= c THEN c ELSE a)
<1> DEFINE m == IF a <= b THEN IF b <= c THEN c ELSE b ELSE IF a <= c THEN c ELSE a
<1>1. m \in {a, b, c} /\ \A y \in {a, b, c} : m >= y
  OBVIOUS
<1>2. \A n \in {a, b, c} : (\A y \in {a, b, c} : n >= y) => n = m
  OBVIOUS
<1> QED BY <1>1, <1>2, Zenon DEF Max

LEMMA RaisedIsOrdered ==
  ASSUME NEW l \in Limits
  PROVE  /\ Raised(l) \in Limits /\ InOrder(Raised(l))
         /\ InOrder(l) => Raised(l) = l
         /\ LimitsValid(l, FALSE) => LimitsValid(Raised(l), TRUE)
<1>1. l = <<l[1], l[2], l[3]>> /\ l[1] \in Nat /\ l[2] \in Nat /\ l[3] \in Nat
  BY DEF Limits
<1>2. PICK a \in Nat, b \in Nat, c \in Nat : l = <<a, b, c>>
  BY <1>1
<1>3. Max({b, a}) = (IF b <= a THEN a ELSE b)
  BY MaxOfTwo
<1>4. Max({c, b, a}) = (IF c <= b THEN IF b <= a THEN a ELSE b
                        ELSE IF c <= a THEN a ELSE c)
  BY MaxOfThree
<1>5. Raised(l) = <<a, Max({b, a}), Max({c, b, a})>>
  BY <1>2 DEF Raised
<1>6. Raised(l) \in Limits /\ InOrder(Raised(l))
  BY <1>3, <1>4, <1>5 DEF InOrder, Limits
<1>7. InOrder(l) => Raised(l) = l
  BY <1>2, <1>3, <1>4, <1>5 DEF InOrder
<1>8. ASSUME LimitsValid(l, FALSE) PROVE LimitsValid(Raised(l), TRUE)
  <2>1. a \in 5..93 /\ b \in 5..93 /\ c \in 5..120
    BY <1>2, <1>8 DEF LimitsValid, MIN_PPT_WATTS, MAX_PPT_WATTS, MAX_FPPT_WATTS
  <2>2. \A i \in 1..3 : Raised(l)[i] \in 5..(IF i = 3 THEN 120 ELSE 93)
    BY <2>1, <1>3, <1>4, <1>5
  <2> QED BY <2>2, <1>6 DEF LimitsValid, MIN_PPT_WATTS, MAX_PPT_WATTS, MAX_FPPT_WATTS
<1> QED BY <1>6, <1>7, <1>8

LEMMA PushedIsOrdered ==
  ASSUME NEW l \in Limits, NEW i \in 1..3, NEW watts \in MIN_PPT_WATTS..MAX_FPPT_WATTS,
         i # 3 => watts <= MAX_PPT_WATTS
  PROVE  /\ Pushed(l, i, watts) \in Limits
         /\ LimitsValid(l, TRUE) => LimitsValid(Pushed(l, i, watts), TRUE)
<1>1. l = <<l[1], l[2], l[3]>> /\ l[1] \in Nat /\ l[2] \in Nat /\ l[3] \in Nat
  BY DEF Limits
<1>2. watts \in Nat /\ watts \in 5..120 /\ (i # 3 => watts <= 93)
  BY DEF MIN_PPT_WATTS, MAX_PPT_WATTS, MAX_FPPT_WATTS
<1>3. LimitsValid(l, TRUE) =>
        l[1] \in 5..93 /\ l[2] \in 5..93 /\ l[3] \in 5..120 /\ InOrder(l)
  BY DEF LimitsValid, MIN_PPT_WATTS, MAX_PPT_WATTS, MAX_FPPT_WATTS
<1>4. \A k \in Limits : k[1] \in 5..93 /\ k[2] \in 5..93 /\ k[3] \in 5..120 =>
        LimitsValid(k, FALSE)
  BY DEF Limits, LimitsValid, MIN_PPT_WATTS, MAX_PPT_WATTS, MAX_FPPT_WATTS
<1>5. CASE i = 1
  <2> DEFINE k == <<watts, l[2], l[3]>>
  <2>1. k \in Limits /\ Pushed(l, i, watts) = Raised(k)
    BY <1>1, <1>2, <1>5 DEF Limits, Pushed
  <2>2. k[1] = watts /\ k[2] = l[2] /\ k[3] = l[3]
    OBVIOUS
  <2>3. LimitsValid(l, TRUE) => k[1] \in 5..93 /\ k[2] \in 5..93 /\ k[3] \in 5..120
    BY <1>2, <1>3, <1>5, <2>2
  <2> HIDE DEF k
  <2>4. LimitsValid(l, TRUE) => LimitsValid(k, FALSE)
    BY <1>4, <2>1, <2>3
  <2> QED BY <2>1, <2>4, RaisedIsOrdered
<1>6. CASE i = 2
  <2> DEFINE k == <<l[1], watts, l[3]>>
  <2>1. k \in Limits /\ Pushed(l, i, watts) = Raised(k)
    BY <1>1, <1>2, <1>6 DEF Limits, Pushed
  <2>2. k[1] = l[1] /\ k[2] = watts /\ k[3] = l[3]
    OBVIOUS
  <2>3. LimitsValid(l, TRUE) => k[1] \in 5..93 /\ k[2] \in 5..93 /\ k[3] \in 5..120
    BY <1>2, <1>3, <1>6, <2>2
  <2> HIDE DEF k
  <2>4. LimitsValid(l, TRUE) => LimitsValid(k, FALSE)
    BY <1>4, <2>1, <2>3
  <2> QED BY <2>1, <2>4, RaisedIsOrdered
<1>7. CASE i = 3
  <2> DEFINE m == Max({watts, l[2]})
             k == <<l[1], l[2], m>>
  <2>1. m = (IF watts <= l[2] THEN l[2] ELSE watts)
    BY <1>1, <1>2, MaxOfTwo
  <2>2. Pushed(l, i, watts) = k
    BY <1>7 DEF Pushed
  <2> HIDE DEF m
  <2>3. m \in Nat
    BY <2>1, <1>1, <1>2
  <2>4. k \in Limits
    BY <1>1, <2>3 DEF Limits
  <2>5. ASSUME LimitsValid(l, TRUE) PROVE LimitsValid(k, TRUE)
    <3>1. \A n \in 1..3 : k[n] \in 5..(IF n = 3 THEN 120 ELSE 93)
      BY <1>2, <1>3, <2>1, <2>3, <2>5
    <3>2. InOrder(k)
      BY <1>1, <1>2, <1>3, <2>1, <2>3, <2>5 DEF InOrder
    <3> QED BY <3>1, <3>2 DEF LimitsValid, MIN_PPT_WATTS, MAX_PPT_WATTS, MAX_FPPT_WATTS
  <2> QED BY <2>2, <2>4, <2>5
<1>8. i = 1 \/ i = 2 \/ i = 3
  OBVIOUS
<1> QED BY <1>5, <1>6, <1>7, <1>8

LEMMA StockIsValid ==
  ASSUME NEW ppd \in PpdChoices
  PROVE  /\ StockPpt(ppd) \in Limits
         /\ LimitsValid(StockPpt(ppd), FALSE)
         /\ StockCurves(ppd) \in CurvePairs
<1>1. StockPpt(ppd) \in {<<40, 55, 55>>, <<70, 86, 86>>, <<52, 71, 70>>}
  BY DEF StockPpt
<1>2. \A l \in {<<40, 55, 55>>, <<70, 86, 86>>, <<52, 71, 70>>} :
        l \in Limits /\ \A i \in 1..3 : l[i] \in 5..(IF i = 3 THEN 120 ELSE 93)
  BY DEF Limits
<1>3. StockCurves(ppd) \in CurvePairs
  <2>1. StockCurves(ppd) = IF ppd = Disabled THEN <<"balanced", "balanced">> ELSE <<ppd, ppd>>
    BY DEF StockCurves
  <2>2. \A name \in PPD_PROFILES : <<name, name>> \in CurvePairs
    BY DEF CurvePairs
  <2>3. ppd # Disabled => ppd \in PPD_PROFILES
    BY DEF PpdChoices
  <2>4. "balanced" \in PPD_PROFILES
    BY DEF PPD_PROFILES
  <2> QED BY <2>1, <2>2, <2>3, <2>4
<1> QED BY <1>1, <1>2, <1>3 DEF LimitsValid, MIN_PPT_WATTS, MAX_PPT_WATTS, MAX_FPPT_WATTS

----------------------------------------------------------------------------
(* What an edit keeps: the profile in the editor and the window change     *)
(* together, and to a profile that is sound.                               *)

FieldsButPpd(p, q) ==
  /\ p.limitsOn = q.limitsOn /\ p.limits = q.limits /\ p.curvesOn = q.curvesOn
  /\ p.direct = q.direct /\ p.unified = q.unified /\ p.curves = q.curves
  /\ p.undervolt = q.undervolt

LEMMA ShowsFields ==
  ASSUME NEW p \in ProfileTypes, NEW q \in ProfileTypes
  PROVE  ([q EXCEPT !.ppd = p.ppd] = p) <=> FieldsButPpd(q, p)
BY DEF ProfileTypes, FieldsButPpd

EditorFits ==
  /\ FieldsButPpd(widgets.shows, kept[edited])
  /\ widgets.locked = HighPowerProtection(kept[edited], override)
  /\ widgets.limitsOpen = widgets.shows.limitsOn

EditorTrue == EditorFits /\ \A id \in DOMAIN kept : Sound(id)

LEMMA FitsIsShows ==
  ASSUME EditorTypes
  PROVE  EditorInv <=> (~overtaken => EditorTrue)
<1>1. kept[edited] \in ProfileTypes /\ widgets.shows \in ProfileTypes
  BY DEF EditorTypes, WindowTypes
<1>2. EditorShowsItsProfile /\ widgets.limitsOpen = widgets.shows.limitsOn <=> EditorFits
  BY <1>1, ShowsFields DEF EditorShowsItsProfile, EditorFits
<1> QED BY <1>2 DEF EditorInv, EditorTrue

LEMMA FitsIsShowsNext ==
  ASSUME EditorTypes'
  PROVE  EditorInv' <=> (~overtaken => EditorTrue)'
<1>1. kept'[edited'] \in ProfileTypes /\ widgets'.shows \in ProfileTypes
  BY DEF EditorTypes, WindowTypes
<1>2. (EditorShowsItsProfile /\ widgets.limitsOpen = widgets.shows.limitsOn)' <=> EditorFits'
  BY <1>1, ShowsFields DEF EditorShowsItsProfile, EditorFits
<1> QED BY <1>2 DEF EditorInv, EditorTrue

LEMMA ProtectionIsBoolean ==
  ASSUME NEW p, NEW disabled
  PROVE  HighPowerProtection(p, disabled) \in BOOLEAN
BY DEF HighPowerProtection

(* An edit that stores a profile p which fits what the window then shows,  *)
(* under the PPD profile that is picked for it, keeps the invariant.       *)
LEMMA StoreKeeps ==
  ASSUME EditorInv, NEW p \in ProfileTypes, NEW w, NEW locked, Store(p, w, locked),
         w \in WindowTypes,
         locked \in BOOLEAN,
         \/ picked' = [picked EXCEPT ![edited] = p.ppd]
         \/ picked' = picked /\ p.ppd = kept[edited].ppd,
         ~overtaken =>
           /\ FieldsButPpd(w.shows, p) /\ w.limitsOpen = w.shows.limitsOn
           /\ locked = HighPowerProtection(p, override)
           /\ LimitsValid(p.limits, p.limitsOn)
  PROVE  EditorInv'
<1>1. /\ EditorTypes /\ edited \in DOMAIN kept
      /\ kept \in [DOMAIN kept -> ProfileTypes] /\ picked \in [DOMAIN kept -> PpdChoices]
  BY DEF EditorInv, EditorTypes
<1>2. /\ kept' = [kept EXCEPT ![edited] = p] /\ widgets' = [w EXCEPT !.locked = locked]
      /\ restoring' \in {restoring, Nothing}
      /\ UNCHANGED <<main, override, dialog, edited, status, sameEditor, overtaken>>
  BY DEF Store, Stroke
<1>3. p.ppd \in PpdChoices
  BY DEF ProfileTypes
<1>4. /\ DOMAIN kept' = DOMAIN kept /\ kept' \in [DOMAIN kept -> ProfileTypes]
      /\ picked' \in [DOMAIN kept -> PpdChoices]
  BY <1>1, <1>2, <1>3
<1>5. /\ widgets' \in WindowTypes
      /\ widgets'.shows = w.shows /\ widgets'.limitsOpen = w.limitsOpen
      /\ widgets'.locked = locked
  BY <1>2 DEF WindowTypes
<1>6. EditorTypes'
  BY <1>1, <1>2, <1>4, <1>5 DEF EditorTypes
<1>7. ASSUME ~overtaken PROVE EditorTrue'
  <2>1. kept'[edited'] = p
    BY <1>1, <1>2
  <2>2. EditorFits'
    BY <1>2, <1>5, <1>7, <2>1 DEF EditorFits
  <2>3. ASSUME NEW id \in DOMAIN kept PROVE Sound(id)'
    <3>1. Sound(id)
      BY <1>1, <1>7 DEF EditorInv
    <3>2. CASE id = edited
      <4>1. kept'[id] = p
        BY <1>1, <1>2, <3>2
      <4>2. picked'[id] = p.ppd
        BY <1>1, <3>1, <3>2 DEF Sound
      <4> QED BY <4>1, <4>2, <1>7 DEF Sound
    <3>3. CASE id # edited
      <4>1. kept'[id] = kept[id] /\ picked'[id] = picked[id]
        BY <1>1, <1>2, <3>3
      <4> QED BY <4>1, <3>1 DEF Sound
    <3> QED BY <3>2, <3>3
  <2> QED BY <1>4, <2>2, <2>3 DEF EditorTrue
<1> QED BY <1>2, <1>6, <1>7, FitsIsShowsNext

(* Loading a sound profile.                                                *)
LEMMA LoadedFits ==
  ASSUME NEW w, NEW p \in ProfileTypes, EditorTypes,
         w \in WindowTypes
  PROVE  /\ Loaded(w, p) \in WindowTypes
         /\ Loaded(w, p).limitsOpen = Loaded(w, p).shows.limitsOn
         /\ Loaded(w, p).locked = HighPowerProtection(p, override)
         /\ LimitsValid(p.limits, p.limitsOn) => FieldsButPpd(Loaded(w, p).shows, p)
<1> DEFINE ppd == Row(w.shows.ppd, p.ppd)
           limits == IF p.limitsOn /\ ~w.shows.limitsOn THEN Raised(p.limits) ELSE p.limits
           seen == [p EXCEPT !.ppd = ppd, !.limits = limits]
           open == CurvesOpen(p)
           lock == HighPowerProtection(p, override)
<1>1. Loaded(w, p) = [shows |-> seen, limitsOpen |-> p.limitsOn, curvesOpen |-> open,
                      locked |-> lock]
  BY DEF Loaded
<1>2. ppd \in PpdChoices
  BY DEF Row, ProfileTypes, WindowTypes
<1>3. p.limits \in Limits /\ p.limitsOn \in BOOLEAN
  BY DEF ProfileTypes
<1>4. limits \in Limits
  BY <1>3, RaisedIsOrdered
<1>5. LimitsValid(p.limits, p.limitsOn) => limits = p.limits
  BY <1>3, RaisedIsOrdered DEF LimitsValid
<1>6. open \in SUBSET {1, 2}
  BY DEF CurvesOpen
<1>7. lock \in BOOLEAN
  BY ProtectionIsBoolean
<1> HIDE DEF ppd, limits, open, lock
<1>8. seen \in ProfileTypes /\ seen.limitsOn = p.limitsOn
  BY <1>2, <1>4 DEF ProfileTypes
<1>9. LimitsValid(p.limits, p.limitsOn) => FieldsButPpd(seen, p)
  BY <1>2, <1>4, <1>5 DEF ProfileTypes, FieldsButPpd
<1> HIDE DEF seen
<1>10. lock = HighPowerProtection(p, override)
  BY DEF lock
<1> QED BY <1>1, <1>3, <1>6, <1>7, <1>8, <1>9, <1>10 DEF WindowTypes

LEMMA EditorFacts ==
  ASSUME EditorInv
  PROVE  /\ edited \in DOMAIN kept /\ main \in DOMAIN kept
         /\ kept \in [DOMAIN kept -> ProfileTypes] /\ picked \in [DOMAIN kept -> PpdChoices]
         /\ kept[edited] \in ProfileTypes /\ widgets \in WindowTypes
         /\ widgets.shows \in ProfileTypes
         /\ status \in [ppds : SUBSET PPD_PROFILES, direct : BOOLEAN]
         /\ ~overtaken => EditorTrue /\ LimitsValid(kept[edited].limits, kept[edited].limitsOn)
<1>1. EditorTypes
  BY DEF EditorInv
<1>2. ~overtaken => EditorTrue
  BY <1>1, FitsIsShows
<1>3. edited \in DOMAIN kept /\ kept[edited] \in ProfileTypes /\ widgets.shows \in ProfileTypes
  BY <1>1 DEF EditorTypes, WindowTypes
<1>4. ~overtaken => LimitsValid(kept[edited].limits, kept[edited].limitsOn)
  BY <1>2, <1>3 DEF EditorTrue, Sound
<1> QED BY <1>1, <1>2, <1>3, <1>4 DEF EditorTypes, WindowTypes

(* The sliders and the checkbox of the power limits.                       *)
LEMMA StoreLimitsKeeps ==
  ASSUME EditorInv, NEW on \in BOOLEAN, NEW limits \in Limits, NEW open \in BOOLEAN,
         StoreLimits([widgets EXCEPT !.shows.limitsOn = on, !.limitsOpen = open,
                                     !.shows.limits = limits]),
         ~overtaken => open = on /\ LimitsValid(limits, on)
  PROVE  EditorInv'
<1> DEFINE shows == [widgets.shows EXCEPT !.limitsOn = on, !.limits = limits]
           w == [widgets EXCEPT !.shows.limitsOn = on, !.limitsOpen = open,
                                !.shows.limits = limits]
           p == [kept[edited] EXCEPT !.limitsOn = on, !.limits = limits]
           lock == HighPowerProtection(p, override)
<1>1. kept[edited] \in ProfileTypes /\ widgets \in WindowTypes /\ widgets.shows \in ProfileTypes
  BY EditorFacts
<1>2. w.shows = shows /\ w.limitsOpen = open /\ w \in WindowTypes
  BY <1>1 DEF WindowTypes, ProfileTypes
<1>3. shows.limitsOn = on /\ shows.limits = limits
  BY <1>1 DEF ProfileTypes
<1>4. /\ p \in ProfileTypes /\ p.ppd = kept[edited].ppd
      /\ p.limits = limits /\ p.limitsOn = on
  BY <1>1 DEF ProfileTypes
<1>5. Store(p, w, lock) /\ picked' = picked
  BY <1>2, <1>3 DEF StoreLimits
<1>6. ~overtaken => FieldsButPpd(shows, p)
  <2>1. ~overtaken => FieldsButPpd(widgets.shows, kept[edited])
    BY EditorFacts DEF EditorTrue, EditorFits
  <2> QED BY <1>1, <2>1 DEF FieldsButPpd, ProfileTypes
<1>7. lock \in BOOLEAN
  BY ProtectionIsBoolean
<1> HIDE DEF w, p, shows
<1> QED BY <1>2, <1>3, <1>4, <1>5, <1>6, <1>7, StoreKeeps DEF WindowTypes

LEMMA MoveLimitKeeps ==
  ASSUME EditorInv, NEW i \in 1..3, NEW watts \in Levels, MoveLimit(i, watts)
  PROVE  EditorInv'
<1> DEFINE on == widgets.shows.limitsOn
           limits == Pushed(widgets.shows.limits, i, watts)
<1>1. /\ widgets \in WindowTypes /\ widgets.shows \in ProfileTypes
      /\ ~overtaken => EditorTrue /\ LimitsValid(kept[edited].limits, kept[edited].limitsOn)
  BY EditorFacts
<1>2. on \in BOOLEAN /\ widgets.shows.limits \in Limits /\ widgets.limitsOpen = TRUE
  BY <1>1 DEF WindowTypes, ProfileTypes, MoveLimit
<1>3. watts \in MIN_PPT_WATTS..MAX_FPPT_WATTS /\ (i # 3 => watts <= MAX_PPT_WATTS)
  BY ProfileEditorAssumption DEF MoveLimit
<1>4. /\ limits \in Limits
      /\ LimitsValid(widgets.shows.limits, TRUE) => LimitsValid(limits, TRUE)
  BY <1>2, <1>3, PushedIsOrdered
<1>5. ~overtaken => TRUE = on /\ LimitsValid(limits, on)
  BY <1>1, <1>2, <1>4 DEF EditorTrue, EditorFits, FieldsButPpd
<1>6. [widgets EXCEPT !.shows.limits = Pushed(@, i, watts)]
        = [widgets EXCEPT !.shows.limitsOn = on, !.limitsOpen = TRUE, !.shows.limits = limits]
  BY <1>1, <1>2 DEF WindowTypes, ProfileTypes
<1>7. StoreLimits([widgets EXCEPT !.shows.limitsOn = on, !.limitsOpen = TRUE,
                                  !.shows.limits = limits])
  BY <1>6 DEF MoveLimit
<1> HIDE DEF limits, on
<1> QED BY <1>2, <1>4, <1>5, <1>7, StoreLimitsKeeps

LEMMA ToggleLimitsKeeps ==
  ASSUME EditorInv, ToggleLimits
  PROVE  EditorInv'
<1> DEFINE on == ~widgets.shows.limitsOn
           old == widgets.shows.limits
           limits == IF on THEN Raised(old) ELSE old
<1>1. /\ widgets \in WindowTypes /\ widgets.shows \in ProfileTypes
      /\ ~overtaken => EditorTrue /\ LimitsValid(kept[edited].limits, kept[edited].limitsOn)
  BY EditorFacts
<1>2. on \in BOOLEAN /\ old \in Limits
  BY <1>1 DEF ProfileTypes
<1>3. limits \in Limits
  BY <1>2, RaisedIsOrdered
<1>4. ~overtaken => LimitsValid(old, FALSE)
  BY <1>1 DEF EditorTrue, EditorFits, FieldsButPpd, LimitsValid
<1>5. ~overtaken => LimitsValid(limits, on)
  BY <1>2, <1>4, RaisedIsOrdered
<1>6. [widgets EXCEPT !.shows.limitsOn = on, !.limitsOpen = on,
                      !.shows.limits = IF on THEN Raised(@) ELSE @]
        = [widgets EXCEPT !.shows.limitsOn = on, !.limitsOpen = on, !.shows.limits = limits]
  BY <1>1, <1>2 DEF WindowTypes, ProfileTypes
<1>7. StoreLimits([widgets EXCEPT !.shows.limitsOn = on, !.limitsOpen = on,
                                  !.shows.limits = limits])
  BY <1>6 DEF ToggleLimits
<1> HIDE DEF limits, on
<1> QED BY <1>2, <1>3, <1>5, <1>7, StoreLimitsKeeps

(* The row of the PPD profiles.                                            *)
LEMMA SelectPpdKeeps ==
  ASSUME EditorInv, NEW ppd \in PpdChoices, SelectPpd(ppd)
  PROVE  EditorInv'
<1> DEFINE old == kept[edited]
           fresh == old.ppd # ppd
           curves == IF fresh /\ ~old.curvesOn THEN StockCurves(ppd) ELSE old.curves
           limits == IF fresh /\ ~old.limitsOn THEN StockPpt(ppd) ELSE widgets.shows.limits
           seen == IF fresh /\ ~old.curvesOn THEN curves ELSE widgets.shows.curves
           p == [old EXCEPT !.ppd = ppd, !.curves = curves, !.limits = limits,
                            !.limitsOn = widgets.shows.limitsOn]
           shows == [widgets.shows EXCEPT !.ppd = ppd, !.limits = limits, !.curves = seen]
           w == [widgets EXCEPT !.shows = shows]
           lock == HighPowerProtection(p, override)
<1>1. /\ old \in ProfileTypes /\ widgets \in WindowTypes /\ widgets.shows \in ProfileTypes
      /\ ~overtaken => EditorTrue /\ LimitsValid(old.limits, old.limitsOn)
  BY EditorFacts
<1>2. Store(p, w, lock) /\ picked' = [picked EXCEPT ![edited] = ppd]
  <2>1. [widgets.shows EXCEPT !.ppd = ppd, !.limits = limits,
                              !.curves = IF fresh /\ ~old.curvesOn THEN curves ELSE @] = shows
    BY <1>1 DEF ProfileTypes
  <2> QED BY <2>1 DEF SelectPpd
<1>3. /\ StockPpt(ppd) \in Limits /\ LimitsValid(StockPpt(ppd), FALSE)
      /\ StockCurves(ppd) \in CurvePairs
  BY StockIsValid
<1>4. limits \in Limits /\ curves \in CurvePairs /\ seen \in CurvePairs
  BY <1>1, <1>3 DEF ProfileTypes
<1>5. ~overtaken => /\ widgets.limitsOpen = widgets.shows.limitsOn
                    /\ FieldsButPpd(widgets.shows, old)
  BY <1>1 DEF EditorTrue, EditorFits
<1>6. ~overtaken => LimitsValid(limits, widgets.shows.limitsOn) /\ seen = curves
  <2>1. CASE fresh /\ ~old.limitsOn
    BY <1>1, <1>3, <1>5, <2>1 DEF FieldsButPpd, ProfileTypes
  <2>2. CASE ~(fresh /\ ~old.limitsOn)
    BY <1>1, <1>5, <2>2 DEF FieldsButPpd
  <2> QED BY <2>1, <2>2
<1>7. lock \in BOOLEAN
  BY ProtectionIsBoolean
<1> HIDE DEF curves, limits, seen
<1>8. /\ p \in ProfileTypes /\ p.ppd = ppd /\ p.limits = limits
      /\ p.limitsOn = widgets.shows.limitsOn
  BY <1>1, <1>4 DEF ProfileTypes
<1>9. shows \in ProfileTypes /\ shows.limitsOn = widgets.shows.limitsOn
  BY <1>1, <1>4 DEF ProfileTypes
<1>10. ~overtaken => FieldsButPpd(shows, p)
  BY <1>1, <1>5, <1>6 DEF FieldsButPpd, ProfileTypes
<1> HIDE DEF p, shows
<1>11. w \in WindowTypes /\ w.shows = shows /\ w.limitsOpen = widgets.limitsOpen
  BY <1>1, <1>9 DEF WindowTypes
<1>12. lock = HighPowerProtection(p, override)
  OBVIOUS
<1>13. picked' = [picked EXCEPT ![edited] = p.ppd]
  BY <1>2, <1>8
<1> HIDE DEF w, lock, old
<1>14. ~overtaken =>
         /\ FieldsButPpd(w.shows, p) /\ w.limitsOpen = w.shows.limitsOn
         /\ lock = HighPowerProtection(p, override)
         /\ LimitsValid(p.limits, p.limitsOn)
  BY <1>5, <1>6, <1>8, <1>9, <1>10, <1>11, <1>12
<1> QED BY <1>2, <1>7, <1>8, <1>11, <1>13, <1>14, StoreKeeps DEF WindowTypes

(* The other checkboxes and the charts: what they write leaves the limits, *)
(* and so the lock, as they were.                                          *)
LEMMA WriteKeeps ==
  ASSUME EditorInv, NEW p \in ProfileTypes, NEW w \in WindowTypes,
         Store(p, w, widgets.locked), picked' = picked,
         p.ppd = kept[edited].ppd, p.limits = kept[edited].limits,
         p.limitsOn = kept[edited].limitsOn,
         w.limitsOpen = widgets.limitsOpen,
         ~overtaken => FieldsButPpd(w.shows, p)
  PROVE  EditorInv'
<1>1. /\ kept[edited] \in ProfileTypes /\ widgets \in WindowTypes
      /\ ~overtaken => EditorTrue /\ LimitsValid(kept[edited].limits, kept[edited].limitsOn)
  BY EditorFacts
<1>2. HighPowerProtection(p, override) = HighPowerProtection(kept[edited], override)
  BY DEF HighPowerProtection, EffectiveLimits
<1>3. widgets.locked \in BOOLEAN
  BY <1>1 DEF WindowTypes
<1>4. ~overtaken =>
        /\ FieldsButPpd(w.shows, p) /\ w.limitsOpen = w.shows.limitsOn
        /\ widgets.locked = HighPowerProtection(p, override)
        /\ LimitsValid(p.limits, p.limitsOn)
  BY <1>1, <1>2 DEF EditorTrue, EditorFits, FieldsButPpd
<1> QED BY <1>3, <1>4, StoreKeeps DEF WindowTypes

LEMMA SetField ==
  ASSUME NEW p \in ProfileTypes, NEW q \in ProfileTypes, NEW value \in BOOLEAN,
         NEW field \in {"direct", "curvesOn", "unified", "undervolt"}
  PROVE  /\ [p EXCEPT ![field] = value] \in ProfileTypes
         /\ [p EXCEPT ![field] = value].ppd = p.ppd
         /\ [p EXCEPT ![field] = value].limits = p.limits
         /\ [p EXCEPT ![field] = value].limitsOn = p.limitsOn
         /\ FieldsButPpd(q, p) =>
              FieldsButPpd([q EXCEPT ![field] = value], [p EXCEPT ![field] = value])
<1>1. CASE field = "direct"
  BY <1>1 DEF ProfileTypes, FieldsButPpd
<1>2. CASE field = "curvesOn"
  BY <1>2 DEF ProfileTypes, FieldsButPpd
<1>3. CASE field = "unified"
  BY <1>3 DEF ProfileTypes, FieldsButPpd
<1>4. CASE field = "undervolt"
  BY <1>4 DEF ProfileTypes, FieldsButPpd
<1> QED BY <1>1, <1>2, <1>3, <1>4

LEMMA ToggleFieldKeeps ==
  ASSUME EditorInv, NEW field \in {"direct", "curvesOn", "unified", "undervolt"},
         ToggleField(field)
  PROVE  EditorInv'
<1> DEFINE value == ~widgets.shows[field]
           shows == [widgets.shows EXCEPT ![field] = value]
           plain == [widgets EXCEPT !.shows = shows]
           w == IF field \in {"curvesOn", "unified"}
                THEN [plain EXCEPT !.curvesOpen = CurvesOpen(plain.shows)] ELSE plain
           p == [kept[edited] EXCEPT ![field] = value]
<1>1. /\ kept[edited] \in ProfileTypes /\ widgets \in WindowTypes
      /\ widgets.shows \in ProfileTypes
      /\ ~overtaken => EditorTrue
  BY EditorFacts
<1>2. Shown(field, value) = plain
  BY <1>1 DEF WindowTypes, Shown
<1>3. Store(p, w, widgets.locked) /\ picked' = picked
  BY <1>2 DEF ToggleField, Write
<1>4. value \in BOOLEAN
  OBVIOUS
<1> HIDE DEF value
<1>5. /\ p \in ProfileTypes /\ p.ppd = kept[edited].ppd /\ p.limits = kept[edited].limits
      /\ p.limitsOn = kept[edited].limitsOn /\ shows \in ProfileTypes
      /\ FieldsButPpd(widgets.shows, kept[edited]) => FieldsButPpd(shows, p)
  <2>1. /\ p \in ProfileTypes /\ p.ppd = kept[edited].ppd /\ p.limits = kept[edited].limits
        /\ p.limitsOn = kept[edited].limitsOn
    <3>1. p \in ProfileTypes
      BY <1>1, <1>4, SetField, Zenon
    <3>2. p.ppd = kept[edited].ppd
      BY <1>1 DEF ProfileTypes
    <3>3. p.limits = kept[edited].limits
      BY <1>1 DEF ProfileTypes
    <3>4. p.limitsOn = kept[edited].limitsOn
      BY <1>1 DEF ProfileTypes
    <3> QED BY <3>1, <3>2, <3>3, <3>4
  <2>2. shows \in ProfileTypes
    BY <1>1, <1>4, SetField, Zenon
  <2>3. FieldsButPpd(widgets.shows, kept[edited]) => FieldsButPpd(shows, p)
    BY <1>1, <1>4, SetField, Zenon
  <2> QED BY <2>1, <2>2, <2>3
<1>6. ~overtaken => FieldsButPpd(shows, p)
  BY <1>1, <1>5 DEF EditorTrue, EditorFits
<1> HIDE DEF p, shows
<1>7. /\ plain \in WindowTypes /\ plain.shows = shows
      /\ plain.limitsOpen = widgets.limitsOpen
  BY <1>1, <1>5 DEF WindowTypes
<1>8. CurvesOpen(plain.shows) \in SUBSET {1, 2}
  BY DEF CurvesOpen
<1> HIDE DEF plain
<1>9. w \in WindowTypes /\ w.shows = shows /\ w.limitsOpen = widgets.limitsOpen
  BY <1>7, <1>8 DEF WindowTypes
<1> HIDE DEF w
<1> QED BY <1>3, <1>5, <1>6, <1>9, WriteKeeps

LEMMA DrawCurveKeeps ==
  ASSUME EditorInv, NEW i \in {1, 2}, DrawCurve(i)
  PROVE  EditorInv'
<1> DEFINE drawn == [kept[edited].curves EXCEPT ![i] = Own]
           seen == [widgets.shows.curves EXCEPT ![i] = Own]
           p == [kept[edited] EXCEPT !["curves"] = drawn]
           shows == [widgets.shows EXCEPT !["curves"] = seen]
           w == [widgets EXCEPT !.shows = shows]
<1>1. /\ kept[edited] \in ProfileTypes /\ widgets \in WindowTypes
      /\ widgets.shows \in ProfileTypes
      /\ ~overtaken => EditorTrue
  BY EditorFacts
<1>2. Shown("curves", seen) = w
  BY <1>1 DEF WindowTypes, Shown
<1>3. Store(p, w, widgets.locked) /\ picked' = picked
  BY <1>2 DEF DrawCurve, Write
<1>4. drawn \in CurvePairs /\ seen \in CurvePairs
  <2>1. kept[edited].curves \in CurvePairs /\ widgets.shows.curves \in CurvePairs
    BY <1>1 DEF ProfileTypes
  <2> QED BY <2>1 DEF CurvePairs
<1>5. ~overtaken => FieldsButPpd(widgets.shows, kept[edited]) /\ seen = drawn
  BY <1>1 DEF EditorTrue, EditorFits, FieldsButPpd
<1> HIDE DEF drawn, seen
<1>6. /\ p \in ProfileTypes /\ p.ppd = kept[edited].ppd /\ p.limits = kept[edited].limits
      /\ p.limitsOn = kept[edited].limitsOn
  BY <1>1, <1>4 DEF ProfileTypes
<1>7. shows \in ProfileTypes
  BY <1>1, <1>4 DEF ProfileTypes
<1>8. ~overtaken => FieldsButPpd(shows, p)
  BY <1>1, <1>5 DEF FieldsButPpd, ProfileTypes
<1> HIDE DEF p, shows
<1>9. w \in WindowTypes /\ w.shows = shows /\ w.limitsOpen = widgets.limitsOpen
  BY <1>1, <1>7 DEF WindowTypes
<1> HIDE DEF w
<1> QED BY <1>3, <1>6, <1>8, <1>9, WriteKeeps

(* What leaves the profiles alone, or makes the editor show another.       *)
LEMMA LoadKeeps ==
  ASSUME EditorInv, NEW profiles, NEW id, LoadProfile(profiles, id),
         kept' = profiles, id \in DOMAIN profiles, main' \in DOMAIN profiles,
         DOMAIN StockProfiles \subseteq DOMAIN profiles,
         DOMAIN profiles \subseteq DOMAIN StockProfiles \cup {Custom},
         profiles \in [DOMAIN profiles -> ProfileTypes],
         picked' \in [DOMAIN profiles -> PpdChoices],
         restoring' = Nothing \/ restoring' \in DOMAIN profiles,
         overtaken' \in BOOLEAN, UNCHANGED <<override, status>>,
         ~overtaken' => \A other \in DOMAIN profiles : Sound(other)'
  PROVE  EditorInv'
<1> DEFINE p == profiles[id]
           w == Loaded(widgets, p)
<1>1. widgets \in WindowTypes /\ EditorTypes
  BY EditorFacts DEF EditorInv
<1>2. p \in ProfileTypes
  OBVIOUS
<1>3. /\ w \in WindowTypes /\ w.limitsOpen = w.shows.limitsOn
      /\ w.locked = HighPowerProtection(p, override)
      /\ LimitsValid(p.limits, p.limitsOn) => FieldsButPpd(w.shows, p)
  BY <1>1, <1>2, LoadedFits DEF WindowTypes
<1>4. edited' = id /\ widgets' = w
  BY DEF LoadProfile
<1> HIDE DEF w
<1>5. EditorTypes'
  BY <1>1, <1>3, <1>4 DEF EditorTypes, WindowTypes
<1>6. ASSUME ~overtaken' PROVE EditorTrue'
  <2>1. Sound(id)'
    BY <1>6
  <2>2. LimitsValid(p.limits, p.limitsOn)
    BY <2>1 DEF Sound
  <2>3. EditorFits'
    BY <2>2, <1>3, <1>4 DEF EditorFits
  <2> QED BY <2>3, <1>6 DEF EditorTrue
<1> QED BY <1>5, <1>6, FitsIsShowsNext

LEMMA AloneKeeps ==
  ASSUME EditorInv, UNCHANGED <<kept, picked, edited, overtaken>>,
         main' \in DOMAIN kept, override' \in BOOLEAN,
         status' \in [ppds : SUBSET PPD_PROFILES, direct : BOOLEAN],
         restoring' \in {Nothing, restoring, edited}, widgets' \in WindowTypes,
         widgets'.limitsOpen = widgets.limitsOpen,
         FieldsButPpd(widgets'.shows, widgets.shows),
         ~overtaken => widgets'.locked = HighPowerProtection(kept[edited], override')
  PROVE  EditorInv'
<1>1. /\ EditorTypes /\ edited \in DOMAIN kept
      /\ ~overtaken => EditorTrue
  BY EditorFacts DEF EditorInv
<1>2. EditorTypes'
  BY <1>1 DEF EditorTypes, WindowTypes
<1>3. ASSUME ~overtaken PROVE EditorTrue'
  <2>1. EditorFits'
    BY <1>1, <1>3 DEF EditorTrue, EditorFits, FieldsButPpd
  <2>2. \A id \in DOMAIN kept : Sound(id) => Sound(id)'
    BY DEF Sound
  <2> QED BY <1>1, <1>3, <2>1, <2>2 DEF EditorTrue
<1> QED BY <1>2, <1>3, FitsIsShowsNext

LEMMA QuietStepsKeep ==
  ASSUME EditorInv,
         \/ \E id \in DOMAIN kept : SelectElsewhere(id)
         \/ RestoreBegins \/ RestoreRefused \/ AskToDisable \/ AnswerDialog
         \/ EnableProtection \/ StatusKnown
  PROVE  EditorInv'
<1>1. /\ EditorTypes /\ edited \in DOMAIN kept /\ main \in DOMAIN kept
      /\ widgets \in WindowTypes /\ widgets.shows \in ProfileTypes
      /\ kept[edited] \in ProfileTypes
      /\ ~overtaken => EditorTrue
  BY EditorFacts DEF EditorInv
<1>2. /\ DOMAIN StockProfiles \subseteq DOMAIN kept /\ override \in BOOLEAN
      /\ status \in [ppds : SUBSET PPD_PROFILES, direct : BOOLEAN]
  BY <1>1 DEF EditorTypes
<1>3. FieldsButPpd(widgets.shows, widgets.shows)
  BY DEF FieldsButPpd
<1>4. ~overtaken => widgets.locked = HighPowerProtection(kept[edited], override)
  BY <1>1 DEF EditorTrue, EditorFits
<1>5. CASE \E id \in DOMAIN kept : SelectElsewhere(id)
  BY <1>1, <1>2, <1>3, <1>4, <1>5, AloneKeeps DEF SelectElsewhere, Stroke
<1>6. CASE RestoreBegins
  BY <1>1, <1>2, <1>3, <1>4, <1>6, AloneKeeps DEF RestoreBegins, Stroke
<1>7. CASE RestoreRefused
  BY <1>1, <1>2, <1>3, <1>4, <1>7, AloneKeeps DEF RestoreRefused
<1>8. CASE AskToDisable
  BY <1>1, <1>2, <1>3, <1>4, <1>8, AloneKeeps DEF AskToDisable, Stroke
<1>9. CASE AnswerDialog
  <2>1. UNCHANGED <<kept, main, edited, status, restoring, picked, overtaken>>
    BY <1>9 DEF AnswerDialog
  <2>2. CASE UNCHANGED <<override, widgets>>
    BY <2>1, <2>2, <1>1, <1>2, <1>3, <1>4, AloneKeeps
  <2>3. CASE override' = TRUE /\ widgets' = [widgets EXCEPT !.locked = FALSE]
    <3>1. /\ widgets' \in WindowTypes /\ widgets'.limitsOpen = widgets.limitsOpen
          /\ widgets'.shows = widgets.shows /\ widgets'.locked = FALSE
      BY <1>1, <2>3 DEF WindowTypes
    <3>2. ~HighPowerProtection(kept[edited], TRUE)
      BY DEF HighPowerProtection
    <3>3. HighPowerProtection(kept[edited], override') = FALSE
      BY <2>3, <3>2, ProtectionIsBoolean
    <3> QED BY <2>1, <2>3, <3>1, <3>3, <1>1, <1>2, <1>3, AloneKeeps
  <2> QED BY <1>9, <2>2, <2>3 DEF AnswerDialog
<1>10. CASE EnableProtection
  <2> DEFINE lock == HighPowerProtection(kept[edited], FALSE)
  <2>1. /\ UNCHANGED <<kept, main, edited, status, restoring, picked, overtaken>>
        /\ override' = FALSE /\ widgets' = [widgets EXCEPT !.locked = lock]
    BY <1>10 DEF EnableProtection, Stroke
  <2>2. lock \in BOOLEAN /\ lock = HighPowerProtection(kept[edited], override')
    BY <2>1, ProtectionIsBoolean
  <2> HIDE DEF lock
  <2>3. /\ widgets' \in WindowTypes /\ widgets'.limitsOpen = widgets.limitsOpen
        /\ widgets'.shows = widgets.shows /\ widgets'.locked = lock
    BY <1>1, <2>1, <2>2 DEF WindowTypes
  <2> QED BY <2>1, <2>2, <2>3, <1>1, <1>2, <1>3, AloneKeeps
<1>11. CASE StatusKnown
  <2> DEFINE ppd == IF kept[edited].ppd \in status'.ppds THEN kept[edited].ppd ELSE Disabled
  <2>1. /\ UNCHANGED <<kept, main, edited, override, restoring, picked, overtaken>>
        /\ status' \in [ppds : {PPD_PROFILES, {"balanced"}}, direct : BOOLEAN]
        /\ widgets' = [widgets EXCEPT !.shows.ppd = ppd]
    BY <1>11 DEF StatusKnown, Stroke
  <2>2. status' \in [ppds : SUBSET PPD_PROFILES, direct : BOOLEAN]
    BY <2>1 DEF PPD_PROFILES
  <2>3. ppd \in PpdChoices
    BY <1>1 DEF ProfileTypes, PpdChoices
  <2> HIDE DEF ppd
  <2>4. /\ widgets' \in WindowTypes /\ widgets'.limitsOpen = widgets.limitsOpen
        /\ widgets'.shows = [widgets.shows EXCEPT !.ppd = ppd]
        /\ widgets'.locked = widgets.locked
    BY <1>1, <2>1, <2>3 DEF WindowTypes, ProfileTypes
  <2>5. FieldsButPpd(widgets'.shows, widgets.shows)
    BY <1>1, <2>4 DEF FieldsButPpd, ProfileTypes
  <2> QED BY <2>1, <2>2, <2>4, <2>5, <1>1, <1>2, <1>4, AloneKeeps
<1> QED BY <1>5, <1>6, <1>7, <1>8, <1>9, <1>10, <1>11

LEMMA SelectProfileKeeps ==
  ASSUME EditorInv, NEW id \in DOMAIN kept, SelectProfileToEdit(id)
  PROVE  EditorInv'
<1>1. /\ EditorTypes /\ (~overtaken => EditorTrue)
  BY EditorFacts DEF EditorInv
<1>2. /\ LoadProfile(kept, id) /\ main' = id
      /\ UNCHANGED <<kept, override, status, restoring, picked, overtaken>>
  BY DEF SelectProfileToEdit, Stroke
<1>3. \A other \in DOMAIN kept : Sound(other) => Sound(other)'
  BY <1>2 DEF Sound
<1>4. ~overtaken' => \A other \in DOMAIN kept : Sound(other)'
  BY <1>1, <1>2, <1>3 DEF EditorTrue
<1>5. /\ DOMAIN StockProfiles \subseteq DOMAIN kept
      /\ DOMAIN kept \subseteq DOMAIN StockProfiles \cup {Custom}
      /\ kept \in [DOMAIN kept -> ProfileTypes] /\ picked' \in [DOMAIN kept -> PpdChoices]
      /\ (restoring' = Nothing \/ restoring' \in DOMAIN kept)
      /\ overtaken' \in BOOLEAN
  BY <1>1, <1>2 DEF EditorTypes
<1> QED BY <1>2, <1>4, <1>5, LoadKeeps

LEMMA AddProfileKeeps ==
  ASSUME EditorInv, AddProfile
  PROVE  EditorInv'
<1> DEFINE profiles ==
             [id \in DOMAIN kept \cup {Custom} |-> IF id = Custom THEN kept[main] ELSE kept[id]]
           chosen == [id \in DOMAIN profiles |-> picked[IF id = Custom THEN main ELSE id]]
<1>1. /\ EditorTypes /\ (~overtaken => EditorTrue) /\ main \in DOMAIN kept
      /\ kept \in [DOMAIN kept -> ProfileTypes] /\ picked \in [DOMAIN kept -> PpdChoices]
  BY EditorFacts DEF EditorInv
<1>2. /\ kept' = profiles /\ main' = Custom /\ LoadProfile(profiles, Custom)
      /\ picked' = chosen /\ UNCHANGED <<override, status, restoring, overtaken>>
  BY DEF AddProfile, Stroke
<1>3. /\ DOMAIN profiles = DOMAIN kept \cup {Custom}
      /\ \A id \in DOMAIN profiles : /\ profiles[id] = kept[IF id = Custom THEN main ELSE id]
                                     /\ chosen[id] = picked[IF id = Custom THEN main ELSE id]
                                     /\ (IF id = Custom THEN main ELSE id) \in DOMAIN kept
      /\ profiles \in [DOMAIN profiles -> ProfileTypes]
      /\ chosen \in [DOMAIN profiles -> PpdChoices]
  BY <1>1
<1> HIDE DEF profiles, chosen
<1>4. ASSUME ~overtaken', NEW other \in DOMAIN profiles PROVE Sound(other)'
  <2> DEFINE of == IF other = Custom THEN main ELSE other
  <2>1. of \in DOMAIN kept /\ kept'[other] = kept[of] /\ picked'[other] = picked[of]
    BY <1>2, <1>3
  <2> HIDE DEF of
  <2>2. Sound(of)
    BY <1>1, <1>2, <1>4, <2>1 DEF EditorTrue
  <2> QED BY <2>1, <2>2 DEF Sound
<1>5. /\ DOMAIN StockProfiles \subseteq DOMAIN profiles
      /\ DOMAIN profiles \subseteq DOMAIN StockProfiles \cup {Custom}
      /\ (restoring' = Nothing \/ restoring' \in DOMAIN profiles)
      /\ overtaken' \in BOOLEAN
  BY <1>1, <1>2, <1>3 DEF EditorTypes
<1> QED BY <1>2, <1>3, <1>4, <1>5, LoadKeeps

LEMMA RemoveEditedKeeps ==
  ASSUME EditorInv, RemoveEdited
  PROVE  EditorInv'
<1> DEFINE left == [id \in DOMAIN kept \ {Custom} |-> kept[id]]
           chosen == [id \in DOMAIN left |-> picked[id]]
<1>1. /\ EditorTypes /\ (~overtaken => EditorTrue) /\ main \in DOMAIN kept
      /\ kept \in [DOMAIN kept -> ProfileTypes] /\ picked \in [DOMAIN kept -> PpdChoices]
  BY EditorFacts DEF EditorInv
<1>2. /\ kept' = left /\ main' = (IF main = Custom THEN "balanced" ELSE main)
      /\ LoadProfile(left, main') /\ picked' = chosen
      /\ restoring' = (IF restoring = Custom THEN Nothing ELSE restoring)
      /\ UNCHANGED <<override, status, overtaken>>
  BY DEF RemoveEdited, Stroke
<1>3. /\ DOMAIN left = DOMAIN kept \ {Custom}
      /\ \A id \in DOMAIN left : left[id] = kept[id] /\ chosen[id] = picked[id]
      /\ left \in [DOMAIN left -> ProfileTypes] /\ chosen \in [DOMAIN left -> PpdChoices]
  BY <1>1
<1>4. /\ DOMAIN StockProfiles \subseteq DOMAIN kept
      /\ DOMAIN kept \subseteq DOMAIN StockProfiles \cup {Custom}
      /\ (restoring = Nothing \/ restoring \in DOMAIN kept) /\ overtaken \in BOOLEAN
  BY <1>1 DEF EditorTypes
<1> HIDE DEF left, chosen
<1>5. /\ DOMAIN StockProfiles \subseteq DOMAIN left
      /\ DOMAIN left \subseteq DOMAIN StockProfiles \cup {Custom}
      /\ (restoring' = Nothing \/ restoring' \in DOMAIN left)
      /\ overtaken' \in BOOLEAN
  BY <1>2, <1>3, <1>4, ProfileEditorAssumption
<1>6. main' \in DOMAIN left
  BY <1>1, <1>2, <1>3, <1>5, ProfileEditorAssumption
<1>7. ASSUME ~overtaken', NEW other \in DOMAIN left PROVE Sound(other)'
  <2>1. Sound(other)
    BY <1>1, <1>2, <1>3, <1>7 DEF EditorTrue
  <2> QED BY <2>1, <1>2, <1>3 DEF Sound
<1> QED BY <1>2, <1>3, <1>5, <1>6, <1>7, LoadKeeps

(* The answer of a restore: the defaults of the built-in profile, or those *)
(* of the PPD profile that a custom one has.                               *)
LEMMA FactoryDefaultsTypes ==
  ASSUME NEW ppd \in PpdChoices
  PROVE  /\ FactoryDefaults(ppd) \in ProfileTypes
         /\ FactoryDefaults(ppd).ppd = ppd
         /\ LimitsValid(FactoryDefaults(ppd).limits, FactoryDefaults(ppd).limitsOn)
<1>1. /\ StockPpt(ppd) \in Limits /\ LimitsValid(StockPpt(ppd), FALSE)
      /\ StockCurves(ppd) \in CurvePairs
  BY StockIsValid
<1>2. /\ FactoryDefaults(ppd).limits = StockPpt(ppd)
      /\ FactoryDefaults(ppd).limitsOn = FALSE /\ FactoryDefaults(ppd).ppd = ppd
  BY DEF FactoryDefaults
<1>3. FactoryDefaults(ppd) \in ProfileTypes
  BY <1>1 DEF FactoryDefaults, ProfileTypes
<1> QED BY <1>1, <1>2, <1>3

LEMMA RestoreEndsKeeps ==
  ASSUME EditorInv, RestoreEnds
  PROVE  EditorInv'
<1> DEFINE id == restoring
           ppd == IF id = Custom THEN kept[id].ppd ELSE StockProfiles[id]
           fresh == FactoryDefaults(ppd)
           restored == [kept EXCEPT ![id] = fresh]
           chosen == [picked EXCEPT ![id] = ppd]
<1>1. /\ EditorTypes /\ (~overtaken => EditorTrue)
      /\ edited \in DOMAIN kept /\ main \in DOMAIN kept
      /\ kept \in [DOMAIN kept -> ProfileTypes] /\ picked \in [DOMAIN kept -> PpdChoices]
  BY EditorFacts DEF EditorInv
<1>2. /\ id # Nothing /\ restoring' = Nothing /\ kept' = restored /\ picked' = chosen
      /\ overtaken' = (overtaken \/ (edited = id /\ ~sameEditor))
      /\ UNCHANGED <<main, override, dialog, status, strokes>>
      /\ IF edited = id /\ sameEditor THEN LoadProfile(restored, id)
         ELSE UNCHANGED <<edited, widgets, sameEditor>>
  BY DEF RestoreEnds
<1>3. /\ id \in DOMAIN kept /\ overtaken' \in BOOLEAN
      /\ DOMAIN StockProfiles \subseteq DOMAIN kept
      /\ DOMAIN kept \subseteq DOMAIN StockProfiles \cup {Custom}
  BY <1>1, <1>2 DEF EditorTypes
<1>4. ppd \in PpdChoices
  <2>1. CASE id = Custom
    BY <1>1, <1>3, <2>1 DEF ProfileTypes
  <2>2. CASE id # Custom
    BY <1>3, <2>2, ProfileEditorAssumption DEF PpdChoices
  <2> QED BY <2>1, <2>2
<1>5. /\ fresh \in ProfileTypes /\ fresh.ppd = ppd
      /\ LimitsValid(fresh.limits, fresh.limitsOn)
  BY <1>4, FactoryDefaultsTypes
<1> HIDE DEF fresh, ppd
<1>6. /\ DOMAIN restored = DOMAIN kept /\ restored \in [DOMAIN kept -> ProfileTypes]
      /\ chosen \in [DOMAIN kept -> PpdChoices]
      /\ restored[id] = fresh /\ chosen[id] = ppd
      /\ \A other \in DOMAIN kept \ {id} :
           restored[other] = kept[other] /\ chosen[other] = picked[other]
  BY <1>1, <1>3, <1>4, <1>5
<1> HIDE DEF restored, chosen
<1>7. ASSUME ~overtaken', NEW other \in DOMAIN kept PROVE Sound(other)'
  <2>1. CASE other = id
    BY <2>1, <1>2, <1>5, <1>6 DEF Sound
  <2>2. CASE other # id
    <3>1. Sound(other)
      BY <1>1, <1>2, <1>7 DEF EditorTrue
    <3> QED BY <3>1, <2>2, <1>2, <1>6 DEF Sound
  <2> QED BY <2>1, <2>2
<1>8. CASE edited = id /\ sameEditor
  <2>1. LoadProfile(restored, id)
    BY <1>2, <1>8
  <2> QED BY <2>1, <1>1, <1>2, <1>3, <1>6, <1>7, LoadKeeps
<1>9. CASE ~(edited = id /\ sameEditor)
  <2>1. UNCHANGED <<edited, widgets>>
    BY <1>2, <1>9
  <2>2. EditorTypes'
    BY <2>1, <1>1, <1>2, <1>3, <1>6 DEF EditorTypes
  <2>3. ASSUME ~overtaken' PROVE EditorTrue'
    <3>1. edited # id /\ ~overtaken
      BY <1>2, <1>9, <2>3
    <3>2. kept'[edited] = kept[edited]
      BY <3>1, <1>1, <1>2, <1>6
    <3>3. EditorFits'
      BY <3>1, <3>2, <2>1, <1>1, <1>2 DEF EditorTrue, EditorFits
    <3> QED BY <3>3, <1>2, <1>6, <1>7, <2>3 DEF EditorTrue
  <2> QED BY <2>2, <2>3, FitsIsShowsNext
<1> QED BY <1>8, <1>9

LEMMA EditorInit == ProfileEditorInit => EditorInv
<1> SUFFICES ASSUME ProfileEditorInit PROVE EditorInv
  OBVIOUS
<1>1. /\ DOMAIN kept = DOMAIN StockProfiles /\ picked = StockProfiles
      /\ main \in DOMAIN StockProfiles /\ edited = main
      /\ override \in BOOLEAN /\ overtaken = FALSE /\ restoring = Nothing
      /\ status = [ppds |-> PPD_PROFILES, direct |-> FALSE]
      /\ widgets = [shows |-> kept[main], limitsOpen |-> FALSE, curvesOpen |-> {},
                    locked |-> FALSE]
      /\ \A id \in DOMAIN StockProfiles : kept[id] = FactoryDefaults(StockProfiles[id])
      /\ kept = [id \in DOMAIN StockProfiles |-> FactoryDefaults(StockProfiles[id])]
  BY DEF ProfileEditorInit
<1>2. \A id \in DOMAIN StockProfiles :
        StockProfiles[id] \in PPD_PROFILES /\ StockProfiles[id] \in PpdChoices
  BY ProfileEditorAssumption DEF PpdChoices
<1>3. \A id \in DOMAIN kept :
        /\ kept[id] \in ProfileTypes /\ kept[id].ppd = StockProfiles[id]
        /\ LimitsValid(kept[id].limits, kept[id].limitsOn)
  BY <1>1, <1>2, FactoryDefaultsTypes
<1>4. kept \in [DOMAIN kept -> ProfileTypes] /\ picked \in [DOMAIN kept -> PpdChoices]
  <2>1. picked \in [DOMAIN kept -> PPD_PROFILES]
    BY <1>1, ProfileEditorAssumption
  <2> QED BY <1>1, <1>3, <2>1 DEF PpdChoices
<1>5. widgets \in WindowTypes
  BY <1>1, <1>3 DEF WindowTypes
<1>6. EditorTypes
  BY <1>1, <1>4, <1>5 DEF EditorTypes, WindowTypes
<1>7. kept[edited] = FactoryDefaults(StockProfiles[edited])
  BY <1>1
<1>8. ~HighPowerProtection(kept[edited], override)
  <2> DEFINE ppd == StockProfiles[edited]
  <2>1. ppd \in PPD_PROFILES
    BY <1>1, <1>2
  <2> HIDE DEF ppd
  <2>2. EffectiveLimits(FactoryDefaults(ppd)) = StockPpt(ppd)
    BY <2>1 DEF EffectiveLimits, FactoryDefaults, PPD_PROFILES, Disabled
  <2>3. StockPpt(ppd)[1] \in {40, 70, 52}
    BY DEF StockPpt
  <2>4. ~HighPowerProtection(FactoryDefaults(ppd), override)
    BY <2>2, <2>3 DEF HighPowerProtection
  <2> QED BY <2>4, <1>7 DEF ppd
<1>9. EditorFits
  <2>1. HighPowerProtection(kept[edited], override) = FALSE
    BY <1>8, ProtectionIsBoolean
  <2>2. kept[edited].limitsOn = FALSE
    BY <1>7 DEF FactoryDefaults
  <2> QED BY <1>1, <2>1, <2>2 DEF EditorFits, FieldsButPpd
<1>10. \A id \in DOMAIN kept : Sound(id)
  BY <1>1, <1>3 DEF Sound
<1> QED BY <1>6, <1>9, <1>10, FitsIsShows DEF EditorTrue

(* A profile that is sound is refused for direct mode without curves only. *)
LEMMA SoundIsAccepted ==
  ASSUME NEW p \in ProfileTypes, LimitsValid(p.limits, p.limitsOn)
  PROVE  /\ ProfileValid(p) <=> ~Unfinished(p)
         /\ RequestValid(FromProfile(p, override))
              <=> (Unfinished(p) => HighPowerProtection(p, override))
<1> DEFINE r == FromProfile(p, override)
<1>1. /\ p.ppd \in PpdChoices
      /\ p.direct \in BOOLEAN /\ p.curvesOn \in BOOLEAN /\ p.limitsOn \in BOOLEAN
  BY DEF ProfileTypes
<1>2. ProfileValid(p) <=> ~Unfinished(p)
  BY <1>1 DEF ProfileValid, PpdChoices, Unfinished
<1>3. p.curves # <<>> /\ <<p.curves[1], p.curves[1]>> # <<>>
  <2>1. p.curves \in CurvePairs
    BY DEF ProfileTypes
  <2>2. 1 \in DOMAIN p.curves
    BY <2>1 DEF CurvePairs
  <2> QED BY <2>2
<1>4. (r.curves # <<>>) <=> (p.curvesOn \/ HighPowerProtection(p, override))
  BY <1>3 DEF FromProfile
<1>5. r.direct = p.direct /\ r.limits = (IF p.limitsOn THEN p.limits ELSE <<>>)
  BY DEF FromProfile
<1>6. p.limitsOn => LimitsValid(p.limits, TRUE)
  BY <1>1 DEF LimitsValid
<1> HIDE DEF r
<1>7. r.limits # <<>> => LimitsValid(r.limits, TRUE)
  BY <1>1, <1>5, <1>6
<1>8. RequestValid(r) <=> (Unfinished(p) => HighPowerProtection(p, override))
  <2>1. RequestValid(r) <=> (r.direct => r.curves # <<>>)
    BY <1>7 DEF RequestValid
  <2>2. (Unfinished(p) => HighPowerProtection(p, override)) <=> (p.direct => r.curves # <<>>)
    BY <1>1, <1>4 DEF Unfinished
  <2> QED BY <1>5, <2>1, <2>2
<1> QED BY <1>2, <1>8 DEF r

LEMMA EditorInvIsSound == EditorInv => EditsAreSound
<1> SUFFICES ASSUME EditorInv, ~overtaken PROVE
        /\ EditorShowsItsProfile
        /\ \A id \in DOMAIN kept :
             /\ ProfileValid(kept[id]) <=> ~Unfinished(kept[id])
             /\ RequestValid(FromProfile(kept[id], override))
                  <=> (Unfinished(kept[id]) => HighPowerProtection(kept[id], override))
             /\ kept[id].ppd = picked[id]
  BY DEF EditsAreSound
<1>1. EditorShowsItsProfile
  BY DEF EditorInv
<1>2. ASSUME NEW id \in DOMAIN kept PROVE
        /\ kept[id] \in ProfileTypes /\ LimitsValid(kept[id].limits, kept[id].limitsOn)
        /\ kept[id].ppd = picked[id]
  BY EditorFacts DEF EditorTrue, Sound
<1> QED BY <1>1, <1>2, SoundIsAccepted

(* Whatever is done to the widgets of the profile editor, in whatever      *)
(* order, with whatever profiles and levels: the window shows the profile  *)
(* it edits and its lock, every profile has the PPD profile chosen for it, *)
(* and save and the daemon refuse one for direct mode without curves only  *)
(* (fans_window.rs).                                                       *)
THEOREM EditorKeepsProfilesSound == EditorSpec => []EditsAreSound
<1>1. EditorInv /\ [ProfileEditorNext]_editorWindowVars => EditorInv'
  <2> SUFFICES ASSUME EditorInv, [ProfileEditorNext]_editorWindowVars PROVE EditorInv'
    OBVIOUS
  <2>1. ASSUME NEW i \in 1..3, NEW watts \in Levels, MoveLimit(i, watts) PROVE EditorInv'
    BY <2>1, MoveLimitKeeps
  <2>2. CASE ToggleLimits
    BY <2>2, ToggleLimitsKeeps
  <2>3. CASE ToggleDirect
    BY <2>3, ToggleFieldKeeps DEF ToggleDirect
  <2>4. ASSUME NEW ppd \in PpdChoices, SelectPpd(ppd) PROVE EditorInv'
    BY <2>4, SelectPpdKeeps
  <2>5. ASSUME NEW field \in {"curvesOn", "unified", "undervolt"}, ToggleField(field)
        PROVE  EditorInv'
    BY <2>5, ToggleFieldKeeps
  <2>6. ASSUME NEW i \in {1, 2}, DrawCurve(i) PROVE EditorInv'
    BY <2>6, DrawCurveKeeps
  <2>7. ASSUME NEW id \in DOMAIN kept, SelectProfileToEdit(id) PROVE EditorInv'
    BY <2>7, SelectProfileKeeps
  <2>8. CASE AddProfile
    BY <2>8, AddProfileKeeps
  <2>9. CASE RemoveEdited
    BY <2>9, RemoveEditedKeeps
  <2>10. CASE RestoreEnds
    BY <2>10, RestoreEndsKeeps
  <2>11. CASE \/ \E id \in DOMAIN kept : SelectElsewhere(id)
              \/ RestoreBegins \/ RestoreRefused \/ AskToDisable \/ AnswerDialog
              \/ EnableProtection \/ StatusKnown
    BY <2>11, QuietStepsKeep
  <2>12. CASE UNCHANGED editorWindowVars
    BY <2>12 DEF editorWindowVars, EditorInv, EditorTypes, EditorShowsItsProfile, Sound
  <2> QED
    BY <2>1, <2>2, <2>3, <2>4, <2>5, <2>6, <2>7, <2>8, <2>9, <2>10, <2>11, <2>12
    DEF ProfileEditorNext, PpdChoices
<1> QED BY <1>1, EditorInit, EditorInvIsSound, PTL DEF EditorSpec

(***************************************************************************)
(* Part 3. The profiles.                                                   *)
(***************************************************************************)
Ids == Builtins \cup Customs
Partial(S) == UNION {[ids -> S] : ids \in SUBSET Ids}
ProfileContents == [base : Builtins, edit : Nat]
Configs ==
  [profiles : Partial(ProfileContents), active : Ids, remembered : [Sources -> Ids],
   always : BOOLEAN, override : BOOLEAN]
Requests == [id : Ids, content : ProfileContents, override : BOOLEAN]
Tokens == [id : Ids, revision : Nat, source : Sources]
Operations == [id : Ids, revision : Nat, serial : Nat]

Applies == [do : {"apply"}, token : Tokens, request : Requests]
Restores ==
  [do : {"restore"}, token : Operations, stock : ProfileContents,
   request : Requests \cup {NoRequest}]
Saves == [do : {"save"}, config : Configs]
Panels == [do : {"panel"}, on : BOOLEAN]
States == [do : {"state"}]
Seeds == [do : {"seed"}, tokens : [Builtins -> Operations]]
Jobs == Applies \cup Restores \cup Saves \cup Panels \cup States \cup Seeds

Results ==
  [job : Jobs, is : {"ok", "error"}]
    \cup [job : States, is : {"ok"}, label : Builtins \cup {None, "custom"}]

GuiRecords ==
  [config : Configs, editing : Ids, epoch : Nat, revision : Partial(Nat),
   serial : Partial(Nat), applying : Tokens \cup {NoToken}, pending : BOOLEAN,
   scheduled : Ids \cup {None}, displaced : BOOLEAN, jobs : Seq(Jobs)]

GuiTypes(g) ==
  /\ g \in GuiRecords
  /\ Builtins \subseteq DOMAIN g.config.profiles
  /\ DOMAIN g.revision = DOMAIN g.config.profiles
  /\ g.config.active \in DOMAIN g.config.profiles
  /\ g.editing \in DOMAIN g.config.profiles
  /\ \A s \in Sources : g.config.remembered[s] \in DOMAIN g.config.profiles

(* One apply at most is under way, and it is the one that is waited for. *)
IsApply(job) == job.do = "apply"
OneApply(g, a) ==
  /\ \A i \in DOMAIN g.jobs : IsApply(g.jobs[i]) =>
       /\ g.applying = g.jobs[i].token
       /\ \A j \in DOMAIN g.jobs : IsApply(g.jobs[j]) => j = i
       /\ \A j \in DOMAIN a : ~IsApply(a[j].job)
  /\ \A i \in DOMAIN a : IsApply(a[i].job) =>
       /\ g.applying = a[i].job.token
       /\ \A j \in DOMAIN a : IsApply(a[j].job) => j = i
  /\ g.pending => g.applying # NoToken

Shape(g, a) == GuiTypes(g) /\ a \in Seq(Results) /\ OneApply(g, a)

(* The active profile as it is now; the apply under way was started before *)
(* that, so another will follow it.                                        *)
Active(g) == g.config.profiles[g.config.active]
Stale(g) ==
  /\ g.applying # NoToken
  /\ \/ g.pending \/ g.applying.id # g.config.active
     \/ g.applying.revision < g.revision[g.config.active]
NotAhead(g) ==
  g.applying # NoToken /\ g.applying.id = g.config.active =>
    g.pending \/ g.applying.revision <= g.revision[g.config.active]

(* Behind the first k answers is that of a restore of the active profile   *)
(* that the daemon has run: it applies the profile once more. Or there is  *)
(* what the daemon says it runs, which is compared with the selection.     *)
Real(job) == job.do = "restore" /\ job.request # NoRequest
Restoring(g, a, k) ==
  \E j \in DOMAIN a :
    j > k /\ Real(a[j].job) /\ a[j].is = "ok" /\ a[j].job.token.id = g.config.active
Reading(a, k, w) ==
  /\ w.trust = "label"
  /\ \E j \in DOMAIN a : /\ j > k /\ a[j].job.do = "state" /\ a[j].is = "ok"
                         /\ a[j].label = Label(w.applied.content)

(* What the daemon runs, as far as it is known, is the active profile; or a *)
(* commit is due that will tell it.                                        *)
SameProfile(g, w) ==
  IF w.trust = "content"
  THEN w.applied.id = g.config.active /\ w.applied.content = Active(g)
  ELSE Label(w.applied.content) = Label(Active(g))
SameOverride(g, w) == w.trust = "content" => w.applied.override = g.config.override
ProfileDue(g) == g.scheduled = g.config.active /\ g.editing = g.config.active
OverrideDue(g) == g.scheduled = g.config.active \/ g.displaced
Followed(g, a, w, k) ==
  w.trust # None =>
    /\ SameProfile(g, w) \/ ProfileDue(g) \/ Restoring(g, a, k) \/ Reading(a, k, w)
    /\ SameOverride(g, w) \/ OverrideDue(g) \/ Restoring(g, a, k)

(* A restore in the queue is of the active profile, or the apply of the    *)
(* active profile comes after it.                                          *)
RestoresFirst(g) ==
  \A i \in DOMAIN g.jobs : Real(g.jobs[i]) =>
    \/ g.jobs[i].token.id = g.config.active
    \/ g.pending
    \/ \E j \in DOMAIN g.jobs : j > i /\ IsApply(g.jobs[j])

(* An apply in the queue is of the active profile as it is now, or stale.  *)
Fits(g, r, w) ==
  /\ r.id = g.config.active
  /\ r.content = Active(g) \/ ProfileDue(g)
  /\ r.override = g.config.override \/ OverrideDue(g)
ApplyFits(g, w) ==
  \A i \in DOMAIN g.jobs : IsApply(g.jobs[i]) => Stale(g) \/ Fits(g, g.jobs[i].request, w)

Due(g, a, w) ==
  /\ NotAhead(g) /\ RestoresFirst(g) /\ ApplyFits(g, w)
  /\ g.applying = NoToken => Followed(g, a, w, 0)
  /\ \A k \in DOMAIN a : IsApply(a[k].job) => Stale(g) \/ Followed(g, a, w, k)

(* config.json: the last save in the queue, or the file if there is none,  *)
(* is the configuration as it is now; or a save is still to come.          *)
IsSave(job) == job.do = "save"
Stored(g, d) ==
  /\ \A i \in DOMAIN g.jobs :
       IsSave(g.jobs[i]) /\ (\A j \in DOMAIN g.jobs : IsSave(g.jobs[j]) => j <= i) =>
         g.jobs[i].config = g.config
  /\ (\A i \in DOMAIN g.jobs : ~IsSave(g.jobs[i])) /\ d.saved => d.file = g.config
SaveDue(g, a, d, k) == Stored(g, d) \/ g.scheduled # None \/ Restoring(g, a, k)
Storing(g, a, w, d) ==
  w.trust = "content" =>
    /\ g.applying = NoToken => SaveDue(g, a, d, 0)
    /\ \A k \in DOMAIN a :
         IsApply(a[k].job) /\ a[k].is # "ok" => Stale(g) \/ SaveDue(g, a, d, k)

Fine(g, a, w, d) == Shape(g, a) /\ Due(g, a, w) /\ Storing(g, a, w, d)

World == [applied |-> applied, trust |-> trust]
Disk == [file |-> file, saved |-> saved]

ProfilesTypes ==
  /\ applied \in Requests \cup {NoRequest} /\ late \in Seq(Requests)
  /\ late # <<>> => trust = None
  /\ trust \in {None, "label", "content"}
  /\ source \in Sources /\ observed \in Sources \cup {Unknown, None}
  /\ debounce.pending \in Sources \cup {None}
  /\ made \in Nat

ProfilesInv == ProfilesTypes /\ Fine(gui, answers, World, Disk)

----------------------------------------------------------------------------
(* Types of what the handlers make. *)

LEMMA PartialFunction ==
  ASSUME NEW S, NEW f \in Partial(S)
  PROVE  DOMAIN f \subseteq Ids /\ f \in [DOMAIN f -> S]
BY DEF Partial

LEMMA IsPartial ==
  ASSUME NEW S, NEW D \in SUBSET Ids, NEW f \in [D -> S]
  PROVE  f \in Partial(S)
BY DEF Partial

LEMMA GuiFacts ==
  ASSUME NEW g, GuiTypes(g)
  PROVE  /\ g.config \in Configs /\ g.config.active \in Ids /\ g.editing \in Ids
         /\ g.jobs \in Seq(Jobs) /\ g.applying \in Tokens \cup {NoToken}
         /\ g.pending \in BOOLEAN /\ g.scheduled \in Ids \cup {None} /\ g.displaced \in BOOLEAN
         /\ DOMAIN g.config.profiles \subseteq Ids
         /\ g.config.profiles \in [DOMAIN g.config.profiles -> ProfileContents]
         /\ g.revision \in [DOMAIN g.config.profiles -> Nat]
         /\ g.revision[g.config.active] \in Nat
         /\ g.revision \in Partial(Nat) /\ g.serial \in Partial(Nat)
         /\ g.config.remembered \in [Sources -> Ids] /\ g.epoch \in Nat
         /\ g.config.always \in BOOLEAN /\ g.config.override \in BOOLEAN
         /\ Active(g) \in ProfileContents
<1>1. /\ g.config \in Configs /\ g.editing \in Ids /\ g.epoch \in Nat
      /\ g.jobs \in Seq(Jobs) /\ g.applying \in Tokens \cup {NoToken}
      /\ g.pending \in BOOLEAN /\ g.scheduled \in Ids \cup {None} /\ g.displaced \in BOOLEAN
      /\ g.revision \in Partial(Nat) /\ g.serial \in Partial(Nat)
  BY DEF GuiTypes, GuiRecords
<1>2. /\ g.config.profiles \in Partial(ProfileContents) /\ g.config.active \in Ids
      /\ g.config.remembered \in [Sources -> Ids]
      /\ g.config.always \in BOOLEAN /\ g.config.override \in BOOLEAN
  BY <1>1 DEF Configs
<1>3. /\ DOMAIN g.config.profiles \subseteq Ids
      /\ g.config.profiles \in [DOMAIN g.config.profiles -> ProfileContents]
      /\ g.revision \in [DOMAIN g.revision -> Nat]
  BY <1>1, <1>2, PartialFunction
<1>4. DOMAIN g.revision = DOMAIN g.config.profiles /\ g.config.active \in DOMAIN g.config.profiles
  BY DEF GuiTypes
<1> QED BY <1>1, <1>2, <1>3, <1>4 DEF Active

(* A record that is changed in fields that are typed is typed. *)
LEMMA SameConfigTypes ==
  ASSUME NEW g, GuiTypes(g), NEW h \in GuiRecords, h.config = g.config,
         DOMAIN h.revision = DOMAIN g.revision, h.editing \in DOMAIN g.config.profiles
  PROVE  GuiTypes(h)
BY DEF GuiTypes

LEMMA AppendFacts ==
  ASSUME NEW S, NEW s \in Seq(S), NEW z \in S
  PROVE  /\ Append(s, z) \in Seq(S) /\ DOMAIN Append(s, z) = 1 .. Len(s) + 1
         /\ DOMAIN s = 1 .. Len(s) /\ Len(s) \in Nat
         /\ \A i \in DOMAIN s : Append(s, z)[i] = s[i]
         /\ Append(s, z)[Len(s) + 1] = z
OBVIOUS

LEMMA TailFacts ==
  ASSUME NEW S, NEW s \in Seq(S), s # << >>
  PROVE  /\ Tail(s) \in Seq(S) /\ Head(s) = s[1] /\ s[1] \in S /\ 1 \in DOMAIN s
         /\ DOMAIN s \subseteq Nat /\ DOMAIN Tail(s) \subseteq Nat
         /\ \A i \in DOMAIN Tail(s) : i >= 1 /\ i + 1 \in DOMAIN s /\ Tail(s)[i] = s[i + 1]
         /\ \A i \in DOMAIN s : i >= 1 /\ (i # 1 => i - 1 \in DOMAIN Tail(s) /\ Tail(s)[i - 1] = s[i])
OBVIOUS

LEMMA PushEffect ==
  ASSUME NEW g, GuiTypes(g), NEW job \in Jobs
  PROVE  /\ GuiTypes(Push(g, job)) /\ Push(g, job).jobs = Append(g.jobs, job)
         /\ Push(g, job).config = g.config /\ Push(g, job).revision = g.revision
         /\ Push(g, job).applying = g.applying /\ Push(g, job).pending = g.pending
         /\ Push(g, job).scheduled = g.scheduled
         /\ Push(g, job).displaced = g.displaced /\ Push(g, job).editing = g.editing
         /\ Push(g, job).epoch = g.epoch /\ Push(g, job).serial = g.serial
<1>1. g \in GuiRecords /\ g.jobs \in Seq(Jobs)
  BY GuiFacts DEF GuiTypes
<1>2. Append(g.jobs, job) \in Seq(Jobs)
  BY <1>1, AppendFacts
<1>3. /\ Push(g, job) \in GuiRecords /\ Push(g, job).jobs = Append(g.jobs, job)
      /\ Push(g, job).config = g.config /\ Push(g, job).revision = g.revision
      /\ Push(g, job).applying = g.applying /\ Push(g, job).pending = g.pending
      /\ Push(g, job).scheduled = g.scheduled
      /\ Push(g, job).displaced = g.displaced /\ Push(g, job).editing = g.editing
      /\ Push(g, job).epoch = g.epoch /\ Push(g, job).serial = g.serial
  BY <1>1, <1>2 DEF Push, GuiRecords
<1> QED BY <1>3, SameConfigTypes DEF GuiTypes

LEMMA RequestTypes ==
  ASSUME NEW g, GuiTypes(g)
  PROVE  /\ RequestOf(g, g.config.active) \in Requests
         /\ RequestOf(g, g.config.active) # NoRequest
         /\ \A on \in Sources : NewApplyToken(g, on) \in Tokens
<1>1. /\ g.config.active \in Ids /\ g.config.override \in BOOLEAN
      /\ g.config.profiles[g.config.active] \in ProfileContents
      /\ g.revision[g.config.active] \in Nat
  BY GuiFacts DEF Active
<1>2. g.config.active # None
  BY <1>1, ProfilesAssumption DEF Ids
<1> QED BY <1>1, <1>2 DEF RequestOf, Requests, NoRequest, NewApplyToken, Tokens

LEMMA TokenIsNew ==
  ASSUME NEW token \in Tokens
  PROVE  token # NoToken
BY ProfilesAssumption DEF Tokens, NoToken, Ids

----------------------------------------------------------------------------
(* What the GTK thread does to its record, step by step. *)

(* A change that does not start an apply: the active profile stays, and    *)
(* what changes of it is due.                                              *)
Carries(g, w, h, v) ==
  /\ h.jobs = g.jobs /\ h.applying = g.applying /\ h.pending = g.pending
  /\ h.config.active = g.config.active
  /\ g.revision[g.config.active] <= h.revision[g.config.active]
  /\ v.applied = w.applied /\ v.trust = w.trust
  /\ ProfileDue(h) \/ (Active(h) = Active(g) /\ ~ProfileDue(g))
  /\ OverrideDue(h) \/ (h.config.override = g.config.override /\ ~OverrideDue(g))

LEMMA CarriesStale ==
  ASSUME NEW g, GuiTypes(g), NEW h, GuiTypes(h), NEW w, NEW v, Carries(g, w, h, v)
  PROVE  /\ Stale(g) => Stale(h)
         /\ NotAhead(g) => NotAhead(h)
<1>1. /\ g.revision[g.config.active] \in Nat /\ h.revision[h.config.active] \in Nat
      /\ g.applying \in Tokens \cup {NoToken}
  BY GuiFacts
<1>2. g.applying # NoToken => g.applying.revision \in Nat
  BY <1>1 DEF Tokens
<1> QED BY <1>1, <1>2 DEF Carries, Stale, NotAhead

LEMMA CarriesFollowed ==
  ASSUME NEW g, NEW h, NEW w, NEW v, Carries(g, w, h, v), NEW a, NEW k, Followed(g, a, w, k)
  PROVE  Followed(h, a, v, k)
<1>1. Restoring(g, a, k) => Restoring(h, a, k)
  BY DEF Restoring, Carries
<1>2. Reading(a, k, w) => Reading(a, k, v)
  BY DEF Reading, Carries
<1>3. SameProfile(g, w) /\ Active(h) = Active(g) => SameProfile(h, v)
  BY DEF SameProfile, Carries
<1>4. SameOverride(g, w) /\ h.config.override = g.config.override => SameOverride(h, v)
  BY DEF SameOverride, Carries
<1>5. v.trust = w.trust
  BY DEF Carries
<1>6. ProfileDue(h) \/ (Active(h) = Active(g) /\ ~ProfileDue(g))
  BY DEF Carries
<1>7. OverrideDue(h) \/ (h.config.override = g.config.override /\ ~OverrideDue(g))
  BY DEF Carries
<1> QED BY <1>1, <1>2, <1>3, <1>4, <1>5, <1>6, <1>7 DEF Followed

LEMMA CarriesDue ==
  ASSUME NEW g, GuiTypes(g), NEW h, GuiTypes(h), NEW w, NEW v, Carries(g, w, h, v),
         NEW a, Due(g, a, w)
  PROVE  Due(h, a, v)
<1>1. /\ Stale(g) => Stale(h)
      /\ NotAhead(h)
  BY CarriesStale DEF Due
<1>2. RestoresFirst(h)
  BY DEF RestoresFirst, Carries, Due
<1>3. \A r : Fits(g, r, w) => Fits(h, r, v)
  BY DEF Fits, Carries
<1>4. ApplyFits(h, v)
  BY <1>1, <1>3 DEF ApplyFits, Due, Carries
<1>5. \A k : Followed(g, a, w, k) => Followed(h, a, v, k)
  BY CarriesFollowed
<1>6. h.applying = g.applying
  BY DEF Carries
<1> QED BY <1>1, <1>2, <1>4, <1>5, <1>6 DEF Due

LEMMA CarriesOne ==
  ASSUME NEW g, NEW h, NEW w, NEW v, Carries(g, w, h, v), NEW a, OneApply(g, a)
  PROVE  OneApply(h, a)
BY DEF Carries, OneApply

(* A job behind the others that is no apply, nor a restore of a profile    *)
(* that is not active.                                                     *)
LEMMA PushKeeps ==
  ASSUME NEW g, NEW a, Shape(g, a), NEW job \in Jobs, ~IsApply(job),
         Real(job) => job.token.id = g.config.active
  PROVE  LET h == Push(g, job)
         IN /\ Shape(h, a)
            /\ \A w : Due(g, a, w) => Due(h, a, w)
            /\ \A w, d : ~IsSave(job) /\ Storing(g, a, w, d) => Storing(h, a, w, d)
            /\ \A d : IsSave(job) /\ job.config = g.config => Stored(h, d)
            /\ \A d : ~IsSave(job) /\ Stored(g, d) => Stored(h, d)
<1> DEFINE h == Push(g, job)
           n == Len(g.jobs) + 1
<1>1. /\ GuiTypes(h) /\ h.jobs = Append(g.jobs, job) /\ h.config = g.config
      /\ h.revision = g.revision /\ h.applying = g.applying /\ h.pending = g.pending
      /\ h.scheduled = g.scheduled /\ h.displaced = g.displaced /\ h.editing = g.editing
  BY PushEffect DEF Shape
<1>2. g.jobs \in Seq(Jobs)
  BY GuiFacts DEF Shape
<1> HIDE DEF h
<1>3. /\ DOMAIN g.jobs = 1 .. n - 1 /\ DOMAIN h.jobs = 1 .. n /\ n \in Nat /\ n > 0
      /\ h.jobs[n] = job /\ \A i \in DOMAIN g.jobs : h.jobs[i] = g.jobs[i]
  BY <1>1, <1>2, AppendFacts
<1> HIDE DEF n
<1>4. \A i \in DOMAIN h.jobs : i = n \/ (i \in DOMAIN g.jobs /\ h.jobs[i] = g.jobs[i])
  BY <1>3
<1>5. DOMAIN g.jobs \subseteq DOMAIN h.jobs /\ DOMAIN h.jobs \subseteq Nat
  BY <1>3
<1>6. OneApply(h, a)
  BY <1>1, <1>3, <1>4 DEF Shape, OneApply
<1>7. Stale(h) = Stale(g) /\ NotAhead(h) = NotAhead(g) /\ Active(h) = Active(g)
  BY <1>1 DEF Stale, NotAhead, Active
<1>8. ASSUME NEW w, Due(g, a, w) PROVE Due(h, a, w)
  <2>1. RestoresFirst(h)
    BY <1>1, <1>3, <1>4, <1>5, <1>8 DEF RestoresFirst, Due
  <2>2. \A r : Fits(g, r, w) => Fits(h, r, w)
    BY <1>1, <1>7 DEF Fits, ProfileDue, OverrideDue
  <2>3. ApplyFits(h, w)
    BY <1>3, <1>4, <1>7, <1>8, <2>2 DEF ApplyFits, Due
  <2>4. \A k : Followed(g, a, w, k) => Followed(h, a, w, k)
    BY <1>1, <1>7 DEF Followed, SameProfile, SameOverride, ProfileDue, OverrideDue, Restoring
  <2> QED BY <1>1, <1>7, <1>8, <2>1, <2>3, <2>4 DEF Due
<1>9. ASSUME NEW d, ~IsSave(job), Stored(g, d) PROVE Stored(h, d)
  <2>1. ASSUME NEW i \in DOMAIN h.jobs, IsSave(h.jobs[i]),
               \A j \in DOMAIN h.jobs : IsSave(h.jobs[j]) => j <= i
        PROVE  h.jobs[i].config = h.config
    BY <1>1, <1>3, <1>4, <1>5, <1>9, <2>1 DEF Stored
  <2>2. (\A i \in DOMAIN h.jobs : ~IsSave(h.jobs[i])) /\ d.saved => d.file = h.config
    BY <1>1, <1>3, <1>5, <1>9 DEF Stored
  <2> QED BY <2>1, <2>2 DEF Stored
<1>10. ASSUME NEW d, IsSave(job), job.config = g.config PROVE Stored(h, d)
  <2>1. ASSUME NEW i \in DOMAIN h.jobs, IsSave(h.jobs[i]),
               \A j \in DOMAIN h.jobs : IsSave(h.jobs[j]) => j <= i
        PROVE  h.jobs[i].config = h.config
    BY <1>1, <1>3, <1>4, <1>10, <2>1
  <2>2. n \in DOMAIN h.jobs /\ IsSave(h.jobs[n])
    BY <1>3, <1>10
  <2> QED BY <2>1, <2>2 DEF Stored
<1>11. ASSUME NEW w, NEW d, ~IsSave(job), Storing(g, a, w, d) PROVE Storing(h, a, w, d)
  <2>1. \A k : SaveDue(g, a, d, k) => SaveDue(h, a, d, k)
    BY <1>1, <1>9, <1>11 DEF SaveDue, Restoring
  <2> QED BY <2>1, <1>1, <1>7, <1>11 DEF Storing
<1> QED BY <1>1, <1>6, <1>8, <1>9, <1>10, <1>11 DEF Shape, h

(* save_config: whatever was changed will be stored. *)
LEMMA StoredIsStoring ==
  ASSUME NEW g, NEW a, NEW w, NEW d, Stored(g, d) \/ g.scheduled # None
  PROVE  Storing(g, a, w, d)
BY DEF Storing, SaveDue

LEMMA SaveConfigKeeps ==
  ASSUME NEW g, NEW a, Shape(g, a)
  PROVE  LET h == SaveConfig(g)
         IN /\ Shape(h, a)
            /\ \A w : Due(g, a, w) => Due(h, a, w)
            /\ \A d : Stored(h, d)
            /\ h.config = g.config /\ h.revision = g.revision /\ h.applying = g.applying
            /\ h.pending = g.pending /\ h.scheduled = g.scheduled
            /\ h.displaced = g.displaced /\ h.editing = g.editing
<1> DEFINE job == [do |-> "save", config |-> g.config]
<1>1. GuiTypes(g) /\ g.config \in Configs
  BY GuiFacts DEF Shape
<1>2. job \in Jobs /\ ~IsApply(job) /\ ~Real(job) /\ IsSave(job) /\ job.config = g.config
  BY <1>1 DEF Jobs, Saves, IsApply, Real, IsSave
<1>3. SaveConfig(g) = Push(g, job)
  BY DEF SaveConfig
<1> HIDE DEF job
<1> QED BY <1>1, <1>2, <1>3, PushKeeps, PushEffect

(* An apply of the active profile as it is now, behind whatever is queued. *)
LEMMA StartSettles ==
  ASSUME NEW g, GuiTypes(g), NEW a \in Seq(Results), NEW on \in Sources,
         g.applying = NewApplyToken(g, on),
         \A i \in DOMAIN g.jobs : ~IsApply(g.jobs[i]),
         \A i \in DOMAIN a : ~IsApply(a[i].job)
  PROVE  \A w, d : Fine(StartApply(g, g.applying), a, w, d)
<1> DEFINE r == RequestOf(g, g.config.active)
           job == [do |-> "apply", token |-> g.applying, request |-> r]
           e == [g EXCEPT !.displaced = FALSE]
           h == Push(e, job)
           n == Len(g.jobs) + 1
<1>1. /\ g.applying.id = g.config.active
      /\ g.applying.revision = g.revision[g.config.active]
      /\ g.applying \in Tokens /\ r \in Requests
  BY RequestTypes DEF NewApplyToken
<1>2. Known(g, g.applying.id)
  BY <1>1 DEF Known, GuiTypes
<1>3. StartApply(g, g.applying) = h
  BY <1>1, <1>2 DEF StartApply
<1>3a. /\ e \in GuiRecords /\ e.config = g.config /\ e.revision = g.revision /\ e.jobs = g.jobs
      /\ e.applying = g.applying /\ e.pending = g.pending /\ e.editing = g.editing
  BY DEF GuiTypes, GuiRecords
<1> HIDE DEF e
<1>3b. GuiTypes(e)
  BY <1>3a, SameConfigTypes DEF GuiTypes
<1>4. /\ job \in Jobs /\ IsApply(job) /\ ~Real(job) /\ ~IsSave(job)
      /\ job.token = g.applying /\ job.request = r
  BY <1>1 DEF Jobs, Applies, IsApply, Real, IsSave
<1>5. g.applying # NoToken
  BY <1>1, TokenIsNew
<1> HIDE DEF job
<1>6. /\ GuiTypes(h) /\ h.jobs = Append(g.jobs, job) /\ h.config = g.config
      /\ h.revision = g.revision /\ h.applying = g.applying /\ h.pending = g.pending
      /\ h.editing = g.editing
  BY <1>4, <1>3a, <1>3b, PushEffect
<1>7. g.jobs \in Seq(Jobs) /\ g.revision[g.config.active] \in Nat
  BY GuiFacts
<1> HIDE DEF h
<1>8. /\ DOMAIN g.jobs = 1 .. n - 1 /\ DOMAIN h.jobs = 1 .. n /\ n \in Nat /\ n > 0
      /\ h.jobs[n] = job /\ \A i \in DOMAIN g.jobs : h.jobs[i] = g.jobs[i]
  BY <1>6, <1>7, AppendFacts
<1> HIDE DEF n
<1>9. \A i \in DOMAIN h.jobs : i = n \/ (i \in DOMAIN g.jobs /\ h.jobs[i] = g.jobs[i] /\ n > i)
  BY <1>8
<1>10. n \in DOMAIN h.jobs
  BY <1>8
<1>11. OneApply(h, a)
  BY <1>4, <1>5, <1>6, <1>8, <1>9 DEF OneApply
<1>12. NotAhead(h)
  BY <1>1, <1>6, <1>7 DEF NotAhead
<1>13. RestoresFirst(h)
  BY <1>4, <1>8, <1>9, <1>10 DEF RestoresFirst
<1>14. ASSUME NEW w PROVE ApplyFits(h, w)
  <2>1. Fits(h, r, w)
    BY <1>6 DEF Fits, RequestOf, Active
  <2> QED BY <2>1, <1>4, <1>8, <1>9 DEF ApplyFits
<1>15. \A w : Due(h, a, w)
  BY <1>5, <1>6, <1>12, <1>13, <1>14 DEF Due
<1>16. \A w, d : Storing(h, a, w, d)
  BY <1>5, <1>6 DEF Storing
<1> QED BY <1>3, <1>6, <1>11, <1>15, <1>16 DEF Fine, Shape

LEMMA NothingUnderWay ==
  ASSUME NEW g, NEW a, Shape(g, a), g.applying = NoToken
  PROVE  /\ \A i \in DOMAIN g.jobs : ~IsApply(g.jobs[i])
         /\ \A i \in DOMAIN a : ~IsApply(a[i].job)
<1>1. g.jobs \in Seq(Jobs) /\ a \in Seq(Results)
  BY GuiFacts DEF Shape
<1>2. \A job \in Jobs : IsApply(job) => job.token \in Tokens
  BY DEF Jobs, Applies, Restores, Saves, Panels, States, Seeds, IsApply
<1>3. \A i \in DOMAIN a : a[i].job \in Jobs
  BY <1>1 DEF Results, Jobs
<1>4. \A i \in DOMAIN g.jobs : g.jobs[i] \in Jobs
  BY <1>1
<1>5. \A i \in DOMAIN g.jobs : IsApply(g.jobs[i]) => g.applying = g.jobs[i].token
  BY DEF Shape, OneApply
<1>6. \A i \in DOMAIN a : IsApply(a[i].job) => g.applying = a[i].job.token
  BY DEF Shape, OneApply
<1> QED BY <1>2, <1>3, <1>4, <1>5, <1>6, TokenIsNew

(* apply_active, and what select_profile does in its place. *)
Reapplied(g, on) ==
  IF g.applying # NoToken THEN [g EXCEPT !.pending = TRUE] ELSE Started(g, on)

LEMMA ReapplySettles ==
  ASSUME NEW g, NEW a, Shape(g, a), NEW on \in Sources
  PROVE  \A w, d : Fine(Reapplied(g, on), a, w, d)
<1>1. GuiTypes(g) /\ a \in Seq(Results) /\ OneApply(g, a)
  BY DEF Shape
<1>2. CASE g.applying # NoToken
  <2> DEFINE h == [g EXCEPT !.pending = TRUE]
  <2>1. /\ h \in GuiRecords /\ h.config = g.config /\ h.revision = g.revision
        /\ h.applying = g.applying /\ h.pending = TRUE /\ h.jobs = g.jobs
        /\ h.scheduled = g.scheduled /\ h.displaced = g.displaced /\ h.editing = g.editing
    BY <1>1 DEF GuiTypes, GuiRecords
  <2> HIDE DEF h
  <2>2. GuiTypes(h)
    BY <1>1, <2>1, SameConfigTypes DEF GuiTypes
  <2>3. OneApply(h, a)
    BY <1>1, <1>2, <2>1 DEF OneApply
  <2>4. Stale(h) /\ NotAhead(h) /\ RestoresFirst(h)
    BY <1>2, <2>1 DEF Stale, NotAhead, RestoresFirst
  <2>5. h.applying # NoToken
    BY <1>2, <2>1
  <2>6. \A w : Due(h, a, w)
    BY <2>4, <2>5 DEF Due, ApplyFits
  <2>7. \A w, d : Storing(h, a, w, d)
    BY <2>4, <2>5 DEF Storing
  <2>8. Reapplied(g, on) = h
    BY <1>2 DEF Reapplied, h
  <2> QED BY <1>1, <2>2, <2>3, <2>6, <2>7, <2>8 DEF Fine, Shape
<1>3. CASE g.applying = NoToken
  <2> DEFINE token == NewApplyToken(g, on)
             h == [g EXCEPT !.applying = token]
  <2>1. token \in Tokens
    BY <1>1, RequestTypes
  <2>2. /\ h \in GuiRecords /\ h.config = g.config /\ h.revision = g.revision
        /\ h.applying = token /\ h.jobs = g.jobs /\ h.editing = g.editing
    BY <1>1, <2>1 DEF GuiTypes, GuiRecords
  <2>3. Reapplied(g, on) = StartApply(h, token)
    BY <1>3 DEF Reapplied, Started
  <2>4. NewApplyToken(h, on) = token
    BY <2>2 DEF NewApplyToken
  <2> HIDE DEF h
  <2>5. GuiTypes(h)
    BY <1>1, <2>2, SameConfigTypes DEF GuiTypes
  <2>6. /\ \A i \in DOMAIN h.jobs : ~IsApply(h.jobs[i])
        /\ \A i \in DOMAIN a : ~IsApply(a[i].job)
    BY <1>3, <2>2, NothingUnderWay
  <2> HIDE DEF token
  <2>7. \A w, d : Fine(StartApply(h, h.applying), a, w, d)
    BY <1>1, <2>2, <2>4, <2>5, <2>6, StartSettles
  <2> QED BY <2>2, <2>3, <2>7
<1> QED BY <1>2, <1>3

LEMMA ApplySettles ==
  ASSUME NEW g, NEW a, Shape(g, a), source \in Sources
  PROVE  \A w, d : Fine(ApplyActive(g), a, w, d)
BY ReapplySettles DEF Reapplied, ApplyActive

(* Another profile is made active. *)
LEMMA ActiveChanges ==
  ASSUME NEW g, NEW a, Shape(g, a), NEW id \in DOMAIN g.config.profiles
  PROVE  LET h == [g EXCEPT !.config.active = id]
         IN Shape(h, a) /\ h.editing = g.editing /\ h.config.profiles = g.config.profiles
<1> DEFINE h == [g EXCEPT !.config.active = id]
<1>1. GuiTypes(g) /\ id \in Ids /\ g.config \in Configs /\ g \in GuiRecords
  BY GuiFacts DEF Shape, GuiTypes
<1>2. /\ h \in GuiRecords /\ h.config.active = id /\ h.config.profiles = g.config.profiles
      /\ h.config.remembered = g.config.remembered /\ h.revision = g.revision
      /\ h.jobs = g.jobs /\ h.applying = g.applying /\ h.pending = g.pending
      /\ h.editing = g.editing
  BY <1>1 DEF GuiRecords, Configs
<1> HIDE DEF h
<1>3. GuiTypes(h)
  BY <1>1, <1>2 DEF GuiTypes
<1>4. OneApply(h, a)
  BY <1>2 DEF OneApply, Shape
<1> QED BY <1>2, <1>3, <1>4 DEF Shape, h

LEMMA SelectKeeps ==
  ASSUME NEW g, NEW a, NEW w, NEW d, NEW id, NEW on \in Sources, Fine(g, a, w, d)
  PROVE  Fine(SelectProfile(g, id, on), a, w, d)
<1>1. CASE ~Known(g, id) \/ g.config.active = id
  BY <1>1 DEF SelectProfile
<1>2. CASE ~(~Known(g, id) \/ g.config.active = id)
  <2> DEFINE h == [g EXCEPT !.config.active = id]
  <2>1. Shape(h, a)
    BY <1>2, ActiveChanges DEF Known, Fine
  <2>2. SelectProfile(g, id, on) = Reapplied(h, on)
    BY <1>2 DEF SelectProfile, Reapplied
  <2> HIDE DEF h
  <2> QED BY <2>1, <2>2, ReapplySettles
<1> QED BY <1>1, <1>2

(* Three ways to end a change that carries what is due. *)
LEMMA CarriesSaved ==
  ASSUME NEW g, NEW a, NEW w, NEW d, NEW v, Fine(g, a, w, d),
         NEW h, GuiTypes(h), Carries(g, w, h, v)
  PROVE  /\ \A e : Fine(SaveConfig(h), a, v, e)
         /\ Shape(h, a)
<1>1. Shape(h, a)
  BY CarriesOne DEF Fine, Shape
<1>2. Due(h, a, v)
  BY CarriesDue DEF Fine, Shape
<1>3. /\ Shape(SaveConfig(h), a) /\ Due(SaveConfig(h), a, v)
      /\ \A e : Stored(SaveConfig(h), e)
  BY <1>1, <1>2, SaveConfigKeeps
<1>4. \A e : Storing(SaveConfig(h), a, v, e)
  BY <1>3, StoredIsStoring
<1> QED BY <1>1, <1>3, <1>4 DEF Fine

LEMMA CarriesScheduled ==
  ASSUME NEW g, NEW a, NEW w, NEW d, NEW v, Fine(g, a, w, d),
         NEW h, GuiTypes(h), Carries(g, w, h, v), h.scheduled # None
  PROVE  \A e : Fine(h, a, v, e)
<1>1. Shape(h, a)
  BY CarriesOne DEF Fine, Shape
<1>2. Due(h, a, v)
  BY CarriesDue DEF Fine, Shape
<1>3. \A e : Storing(h, a, v, e)
  BY StoredIsStoring
<1> QED BY <1>1, <1>2, <1>3 DEF Fine

LEMMA CarriesFine ==
  ASSUME NEW g, NEW a, NEW w, NEW d, Fine(g, a, w, d),
         NEW h, GuiTypes(h), Carries(g, w, h, w), h.config = g.config,
         h.scheduled = g.scheduled, h.displaced = g.displaced
  PROVE  Fine(h, a, w, d)
<1>1. Shape(h, a)
  BY CarriesOne DEF Fine, Shape
<1>2. Due(h, a, w)
  BY CarriesDue DEF Fine, Shape
<1>3. Stale(g) => Stale(h)
  BY CarriesStale DEF Fine, Shape
<1>4. h.jobs = g.jobs /\ h.applying = g.applying
  BY DEF Carries
<1>5. \A k : SaveDue(g, a, d, k) => SaveDue(h, a, d, k)
  BY <1>4 DEF SaveDue, Stored, Restoring
<1>6. Storing(h, a, w, d)
  BY <1>3, <1>4, <1>5 DEF Storing, Fine
<1> QED BY <1>1, <1>2, <1>6 DEF Fine

LEMMA ApplyEffect ==
  ASSUME NEW g, GuiTypes(g), source \in Sources
  PROVE  /\ ApplyActive(g).config = g.config /\ ApplyActive(g).scheduled = g.scheduled
         /\ ApplyActive(g).editing = g.editing /\ ApplyActive(g).revision = g.revision
<1>1. g \in GuiRecords
  BY DEF GuiTypes
<1>2. CASE g.applying # NoToken
  BY <1>1, <1>2 DEF ApplyActive, GuiRecords
<1>3. CASE g.applying = NoToken
  BY <1>1, <1>3 DEF ApplyActive, GuiRecords, Started, StartApply, Push
<1> QED BY <1>2, <1>3

(* A pending edit is committed. *)
LEMMA Unscheduled ==
  ASSUME NEW g, GuiTypes(g)
  PROVE  LET h == [g EXCEPT !.scheduled = None]
         IN /\ GuiTypes(h) /\ h.config = g.config /\ h.scheduled = None /\ h.editing = g.editing
            /\ h.revision = g.revision /\ h.jobs = g.jobs /\ h.applying = g.applying
            /\ h.pending = g.pending /\ h.displaced = g.displaced
<1> DEFINE h == [g EXCEPT !.scheduled = None]
<1>1. /\ h \in GuiRecords /\ h.config = g.config /\ h.scheduled = None /\ h.editing = g.editing
      /\ h.revision = g.revision /\ h.jobs = g.jobs /\ h.applying = g.applying
      /\ h.pending = g.pending /\ h.displaced = g.displaced
  BY DEF GuiTypes, GuiRecords
<1> HIDE DEF h
<1>2. GuiTypes(h)
  BY <1>1, SameConfigTypes DEF GuiTypes
<1> QED BY <1>1, <1>2 DEF h

LEMMA ActiveIsNotNone ==
  ASSUME NEW g, GuiTypes(g)
  PROVE  g.config.active # None /\ g.editing # None
BY GuiFacts, ProfilesAssumption DEF Ids

LEMMA FlushShape ==
  ASSUME NEW g, NEW a, Shape(g, a), source \in Sources
  PROVE  /\ Shape(Flush(g), a) /\ Flush(g).scheduled = None /\ Flush(g).config = g.config
         /\ Flush(g).editing = g.editing
<1> DEFINE h == [g EXCEPT !.scheduled = None]
           s == SaveConfig(h)
<1>1. /\ GuiTypes(h) /\ h.config = g.config /\ h.scheduled = None /\ h.editing = g.editing
      /\ h.revision = g.revision /\ h.jobs = g.jobs /\ h.applying = g.applying
      /\ h.pending = g.pending
  BY Unscheduled DEF Shape
<1>2. CASE g.scheduled = None
  BY <1>2 DEF Flush
<1>3. CASE g.scheduled # None
  <2>1. Flush(g) \in {ApplyActive(s), s}
    BY <1>3 DEF Flush, CommitEdit
  <2> HIDE DEF h
  <2>2. Shape(h, a)
    BY <1>1 DEF Shape, OneApply
  <2>3. Shape(s, a) /\ s.config = h.config /\ s.scheduled = h.scheduled /\ s.editing = h.editing
    BY <2>2, SaveConfigKeeps
  <2> HIDE DEF s
  <2>4. /\ \A w, d : Fine(ApplyActive(s), a, w, d)
        /\ ApplyActive(s).config = s.config /\ ApplyActive(s).scheduled = s.scheduled
        /\ ApplyActive(s).editing = s.editing
    BY <2>3, ApplySettles, ApplyEffect DEF Shape
  <2>5. Shape(ApplyActive(s), a)
    BY <2>4 DEF Fine
  <2> QED BY <1>1, <2>1, <2>3, <2>4, <2>5
<1> QED BY <1>2, <1>3

LEMMA FlushKeeps ==
  ASSUME NEW g, NEW a, NEW w, NEW d, Fine(g, a, w, d), source \in Sources
  PROVE  Fine(Flush(g), a, w, d)
<1> DEFINE h == [g EXCEPT !.scheduled = None]
<1>1. /\ GuiTypes(h) /\ h.config = g.config /\ h.scheduled = None /\ h.editing = g.editing
      /\ h.revision = g.revision /\ h.jobs = g.jobs /\ h.applying = g.applying
      /\ h.pending = g.pending /\ h.displaced = g.displaced
  BY Unscheduled DEF Shape, Fine
<1>2. CASE g.scheduled = None
  BY <1>2 DEF Flush
<1>3. CASE g.scheduled # None /\ g.config.active = g.scheduled
  <2>1. Flush(g) = ApplyActive(SaveConfig(h))
    BY <1>3, <1>1 DEF Flush, CommitEdit
  <2> HIDE DEF h
  <2>2. Shape(h, a)
    BY <1>1 DEF Shape, OneApply, Fine
  <2>3. Shape(SaveConfig(h), a)
    BY <2>2, SaveConfigKeeps
  <2> QED BY <2>1, <2>3, ApplySettles
<1>4. CASE g.scheduled # None /\ g.config.active # g.scheduled
  <2>1. Flush(g) = SaveConfig(h)
    BY <1>4, <1>1 DEF Flush, CommitEdit
  <2> HIDE DEF h
  <2>2. ~ProfileDue(g) /\ Active(h) = Active(g)
    BY <1>1, <1>4 DEF ProfileDue, Active
  <2>3. OverrideDue(h) \/ ~OverrideDue(g)
    BY <1>1, <1>4 DEF OverrideDue
  <2>4. g.revision[g.config.active] <= h.revision[h.config.active]
    BY <1>1, GuiFacts DEF Fine, Shape
  <2>5. Carries(g, w, h, w)
    BY <1>1, <2>2, <2>3, <2>4 DEF Carries
  <2> QED BY <2>1, <2>5, <1>1, CarriesSaved
<1> QED BY <1>2, <1>3, <1>4

LEMMA SelectEditingShape ==
  ASSUME NEW g, GuiTypes(g), NEW id \in DOMAIN g.config.profiles
  PROVE  LET h == SelectEditing(g, id)
         IN /\ GuiTypes(h) /\ h.config = g.config /\ h.scheduled = g.scheduled
            /\ h.displaced = g.displaced
            /\ h.revision = g.revision /\ h.jobs = g.jobs /\ h.applying = g.applying
            /\ h.pending = g.pending /\ h.editing = id
<1> DEFINE h == SelectEditing(g, id)
<1>1. g \in GuiRecords /\ id \in Ids /\ g.epoch \in Nat
  BY GuiFacts DEF GuiTypes
<1>2. /\ h \in GuiRecords /\ h.config = g.config /\ h.scheduled = g.scheduled
      /\ h.displaced = g.displaced
      /\ h.revision = g.revision /\ h.jobs = g.jobs /\ h.applying = g.applying
      /\ h.pending = g.pending /\ h.editing = id
  <2>1. CASE g.editing = id
    BY <1>1, <2>1 DEF SelectEditing
  <2>2. CASE g.editing # id
    <3>1. h = [g EXCEPT !.editing = id, !.epoch = @ + 1]
      BY <2>2 DEF SelectEditing
    <3>2. g.epoch + 1 \in Nat
      BY <1>1
    <3> HIDE DEF h
    <3> QED BY <1>1, <3>1, <3>2 DEF GuiRecords
  <2> QED BY <2>1, <2>2
<1> HIDE DEF h
<1>3. GuiTypes(h)
  BY <1>2, SameConfigTypes
<1> QED BY <1>2, <1>3 DEF h

LEMMA SelectEditingKeeps ==
  ASSUME NEW g, NEW a, NEW w, NEW d, Fine(g, a, w, d), g.scheduled = None,
         NEW id \in DOMAIN g.config.profiles
  PROVE  Fine(SelectEditing(g, id), a, w, d)
<1> DEFINE h == SelectEditing(g, id)
<1>1. GuiTypes(g)
  BY DEF Fine, Shape
<1>2. /\ GuiTypes(h) /\ h.config = g.config /\ h.scheduled = g.scheduled
      /\ h.displaced = g.displaced
      /\ h.revision = g.revision /\ h.jobs = g.jobs /\ h.applying = g.applying
      /\ h.pending = g.pending
  BY <1>1, SelectEditingShape
<1> HIDE DEF h
<1>3. ~ProfileDue(g) /\ Active(h) = Active(g) /\ OverrideDue(h) = OverrideDue(g)
  BY <1>1, <1>2, ActiveIsNotNone DEF ProfileDue, OverrideDue, Active
<1>4. g.revision[g.config.active] <= h.revision[h.config.active]
  BY <1>1, <1>2, GuiFacts
<1>5. Carries(g, w, h, w)
  BY <1>2, <1>3, <1>4 DEF Carries
<1> QED BY <1>2, <1>5, CarriesFine DEF h

----------------------------------------------------------------------------
(* The handlers of the windows. *)

LEMMA EditTypes ==
  ASSUME NEW g, GuiTypes(g), NEW id \in DOMAIN g.config.profiles, NEW content \in ProfileContents
  PROVE  LET h == EditProfile(g, id, content)
         IN /\ GuiTypes(h) /\ h.config.active = g.config.active
            /\ h.config.override = g.config.override
            /\ h.jobs = g.jobs /\ h.applying = g.applying /\ h.pending = g.pending
            /\ h.scheduled = g.scheduled
            /\ h.displaced = g.displaced /\ h.editing = g.editing
            /\ g.revision[g.config.active] <= h.revision[g.config.active]
            /\ id # g.config.active => Active(h) = Active(g)
            /\ id = g.config.active => Active(h) = content
            /\ id = g.config.active => g.revision[g.config.active] < h.revision[g.config.active]
<1> DEFINE p == [g.config.profiles EXCEPT ![id] = content]
           c == [g.config EXCEPT !.profiles = p]
           r == [g.revision EXCEPT ![id] = @ + 1]
           h == [g EXCEPT !.config = c, !.revision = r]
           D == DOMAIN g.config.profiles
<1>1. EditProfile(g, id, content) = h
  BY DEF EditProfile
<1>2. /\ g \in GuiRecords /\ g.config \in Configs /\ D \subseteq Ids
      /\ g.config.profiles \in [D -> ProfileContents] /\ g.revision \in [D -> Nat]
      /\ Builtins \subseteq D /\ g.config.active \in D /\ g.editing \in D
      /\ \A s \in Sources : g.config.remembered[s] \in D
      /\ id \in D
  BY GuiFacts DEF GuiTypes
<1> HIDE DEF D
<1>3. /\ p \in [D -> ProfileContents] /\ DOMAIN p = D /\ p[id] = content
      /\ \A z \in D : z # id => p[z] = g.config.profiles[z]
  BY <1>2
<1>4. /\ r \in [D -> Nat] /\ DOMAIN r = D
      /\ \A z \in D : g.revision[z] <= r[z]
      /\ g.revision[id] < r[id]
  BY <1>2
<1> HIDE DEF p, r
<1>5. p \in Partial(ProfileContents) /\ r \in Partial(Nat)
  BY <1>2, <1>3, <1>4, IsPartial
<1>6. /\ c \in Configs /\ c.active = g.config.active /\ c.override = g.config.override
      /\ c.remembered = g.config.remembered /\ c.profiles = p
  BY <1>2, <1>5 DEF Configs
<1> HIDE DEF c
<1>7. /\ h \in GuiRecords /\ h.config = c /\ h.revision = r
      /\ h.jobs = g.jobs /\ h.applying = g.applying /\ h.pending = g.pending
      /\ h.scheduled = g.scheduled /\ h.displaced = g.displaced /\ h.editing = g.editing
  BY <1>2, <1>5, <1>6 DEF GuiRecords
<1> HIDE DEF h
<1>8. GuiTypes(h)
  BY <1>2, <1>3, <1>4, <1>6, <1>7 DEF GuiTypes
<1> QED BY <1>1, <1>2, <1>3, <1>4, <1>6, <1>7, <1>8 DEF Active

LEMMA ScheduleTypes ==
  ASSUME NEW g, GuiTypes(g), NEW id \in Ids
  PROVE  LET h == ScheduleApply(g, id)
         IN /\ GuiTypes(h) /\ h.config = g.config /\ h.scheduled = id /\ h.editing = g.editing
            /\ h.revision = g.revision /\ h.jobs = g.jobs /\ h.applying = g.applying
            /\ h.pending = g.pending
            /\ g.displaced => h.displaced
            /\ g.scheduled = g.config.active => h.displaced \/ id = g.config.active
<1> DEFINE h == ScheduleApply(g, id)
<1>1. /\ h \in GuiRecords /\ h.config = g.config /\ h.scheduled = id /\ h.editing = g.editing
      /\ h.revision = g.revision /\ h.jobs = g.jobs /\ h.applying = g.applying
      /\ h.pending = g.pending
      /\ h.displaced = (g.displaced \/ (g.scheduled = g.config.active /\ g.scheduled # id))
  BY GuiFacts DEF GuiTypes, GuiRecords, ScheduleApply
<1> HIDE DEF h
<1>2. GuiTypes(h)
  BY <1>1, SameConfigTypes DEF GuiTypes
<1> QED BY <1>1, <1>2 DEF h

(* schedule_apply, of an edit of the profile in the editor. *)
LEMMA EditKeeps ==
  ASSUME NEW g, NEW a, NEW w, NEW d, Fine(g, a, w, d), NEW content \in ProfileContents
  PROVE  Fine(ScheduleApply(EditProfile(g, g.editing, content), g.editing), a, w, d)
<1> DEFINE e == EditProfile(g, g.editing, content)
           h == ScheduleApply(e, g.editing)
<1>1. GuiTypes(g) /\ g.editing \in DOMAIN g.config.profiles /\ g.editing \in Ids
  BY GuiFacts DEF Fine, Shape, GuiTypes
<1>2. /\ GuiTypes(e) /\ e.config.active = g.config.active
      /\ e.config.override = g.config.override
      /\ e.jobs = g.jobs /\ e.applying = g.applying /\ e.pending = g.pending
      /\ e.scheduled = g.scheduled /\ e.displaced = g.displaced /\ e.editing = g.editing
      /\ g.revision[g.config.active] <= e.revision[g.config.active]
      /\ g.editing # g.config.active => Active(e) = Active(g)
  BY <1>1, EditTypes
<1> HIDE DEF e
<1>3. /\ GuiTypes(h) /\ h.config = e.config /\ h.scheduled = g.editing /\ h.editing = e.editing
      /\ h.revision = e.revision /\ h.jobs = e.jobs /\ h.applying = e.applying
      /\ h.pending = e.pending
      /\ e.displaced => h.displaced
      /\ e.scheduled = e.config.active => h.displaced \/ g.editing = e.config.active
  BY <1>1, <1>2, ScheduleTypes
<1> HIDE DEF h
<1>4. ProfileDue(h) \/ (Active(h) = Active(g) /\ ~ProfileDue(g))
  BY <1>2, <1>3 DEF ProfileDue, Active
<1>5. OverrideDue(h) \/ (h.config.override = g.config.override /\ ~OverrideDue(g))
  BY <1>2, <1>3 DEF OverrideDue
<1>6. Carries(g, w, h, w)
  BY <1>2, <1>3, <1>4, <1>5 DEF Carries
<1>7. h.scheduled # None
  BY <1>1, <1>3, ActiveIsNotNone
<1>8. Fine(h, a, w, d)
  BY <1>3, <1>6, <1>7, CarriesScheduled
<1> QED BY <1>8 DEF e, h

LEMMA EditQuietlyKeeps ==
  ASSUME NEW g, NEW a, NEW w, NEW d, Fine(g, a, w, d)
  PROVE  Fine(SaveConfig(EditProfile(g, g.editing, g.config.profiles[g.editing])), a, w, d)
<1> DEFINE same == g.config.profiles[g.editing]
           h == EditProfile(g, g.editing, same)
<1>1. GuiTypes(g) /\ g.editing \in DOMAIN g.config.profiles /\ same \in ProfileContents
  BY GuiFacts DEF Fine, Shape, GuiTypes
<1>2. /\ GuiTypes(h) /\ h.config.active = g.config.active
      /\ h.config.override = g.config.override
      /\ h.jobs = g.jobs /\ h.applying = g.applying /\ h.pending = g.pending
      /\ h.scheduled = g.scheduled /\ h.displaced = g.displaced /\ h.editing = g.editing
      /\ g.revision[g.config.active] <= h.revision[g.config.active]
      /\ g.editing # g.config.active => Active(h) = Active(g)
      /\ g.editing = g.config.active => Active(h) = same
  BY <1>1, EditTypes
<1>3. Active(h) = Active(g)
  BY <1>2 DEF Active
<1> HIDE DEF h
<1>4. ProfileDue(h) = ProfileDue(g) /\ OverrideDue(h) = OverrideDue(g)
  BY <1>2 DEF ProfileDue, OverrideDue
<1>5. Carries(g, w, h, w)
  BY <1>2, <1>3, <1>4 DEF Carries
<1>6. Fine(SaveConfig(h), a, w, d)
  BY <1>2, <1>5, CarriesSaved
<1> QED BY <1>6 DEF h

LEMMA ToggleProtectionKeeps ==
  ASSUME NEW g, NEW a, NEW w, NEW d, Fine(g, a, w, d)
  PROVE  Fine(ScheduleApply([g EXCEPT !.config.override = ~@], g.config.active), a, w, d)
<1> DEFINE c == [g.config EXCEPT !.override = ~@]
           e == [g EXCEPT !.config = c]
           h == ScheduleApply(e, g.config.active)
<1>1. /\ GuiTypes(g) /\ g \in GuiRecords /\ g.config \in Configs /\ g.config.active \in Ids
      /\ g.revision[g.config.active] \in Nat
  BY GuiFacts DEF Fine, Shape, GuiTypes
<1>2. /\ c \in Configs /\ c.active = g.config.active /\ c.profiles = g.config.profiles
      /\ c.remembered = g.config.remembered
  BY <1>1 DEF Configs
<1> HIDE DEF c
<1>3. /\ e \in GuiRecords /\ e.config = c /\ e.editing = g.editing
      /\ e.revision = g.revision /\ e.jobs = g.jobs /\ e.applying = g.applying
      /\ e.pending = g.pending
  BY <1>1, <1>2 DEF GuiRecords
<1> HIDE DEF e
<1>4. GuiTypes(e)
  BY <1>1, <1>2, <1>3 DEF GuiTypes
<1>5. /\ GuiTypes(h) /\ h.config = e.config /\ h.scheduled = g.config.active
      /\ h.editing = e.editing
      /\ h.revision = e.revision /\ h.jobs = e.jobs /\ h.applying = e.applying
      /\ h.pending = e.pending
  BY <1>1, <1>4, ScheduleTypes
<1> HIDE DEF h
<1>6. ProfileDue(h) \/ (Active(h) = Active(g) /\ ~ProfileDue(g))
  BY <1>2, <1>3, <1>5 DEF ProfileDue, Active
<1>7. OverrideDue(h)
  BY <1>2, <1>3, <1>5 DEF OverrideDue
<1>8. Carries(g, w, h, w)
  BY <1>1, <1>2, <1>3, <1>5, <1>6, <1>7 DEF Carries
<1>9. h.scheduled # None
  BY <1>1, <1>5, ActiveIsNotNone
<1>10. Fine(h, a, w, d)
  BY <1>5, <1>8, <1>9, CarriesScheduled
<1> QED BY <1>10 DEF h, e, c

LEMMA SelectForEditingKeeps ==
  ASSUME NEW g, NEW a, NEW w, NEW d, Fine(g, a, w, d), source \in Sources,
         NEW id \in DOMAIN g.config.profiles
  PROVE  Fine(SelectProfile(SelectEditing(Flush(g), id), id, source), a, w, d)
<1>1. Fine(Flush(g), a, w, d)
  BY FlushKeeps
<1>2. Flush(g).scheduled = None /\ Flush(g).config = g.config
  BY FlushShape DEF Fine
<1>3. Fine(SelectEditing(Flush(g), id), a, w, d)
  BY <1>1, <1>2, SelectEditingKeeps
<1> QED BY <1>3, SelectKeeps

LEMMA WithDomain ==
  ASSUME NEW f, NEW id, NEW z
  PROVE  DOMAIN With(f, id, z) = DOMAIN f \cup {id}
BY DEF With

LEMMA WithFacts ==
  ASSUME NEW S, NEW f \in Partial(S), NEW id \in Ids, NEW z \in S
  PROVE  With(f, id, z) \in Partial(S)
<1>1. DOMAIN f \subseteq Ids /\ f \in [DOMAIN f -> S]
  BY PartialFunction
<1>2. With(f, id, z) \in [DOMAIN f \cup {id} -> S]
  BY <1>1 DEF With
<1>3. DOMAIN f \cup {id} \in SUBSET Ids
  BY <1>1
<1> HIDE DEF With
<1> QED BY <1>2, <1>3, IsPartial

LEMMA RestFacts ==
  ASSUME NEW S, NEW f \in Partial(S), NEW id
  PROVE  LET r == [z \in DOMAIN f \ {id} |-> f[z]]
         IN r \in Partial(S) /\ DOMAIN r = DOMAIN f \ {id} /\ \A z \in DOMAIN r : r[z] = f[z]
<1> DEFINE r == [z \in DOMAIN f \ {id} |-> f[z]]
<1>1. DOMAIN f \subseteq Ids /\ f \in [DOMAIN f -> S]
  BY PartialFunction
<1>2. /\ r \in [DOMAIN f \ {id} -> S] /\ DOMAIN r = DOMAIN f \ {id}
      /\ \A z \in DOMAIN r : r[z] = f[z]
  BY <1>1
<1> HIDE DEF r
<1>3. r \in Partial(S)
  BY <1>1, <1>2, IsPartial
<1> QED BY <1>2, <1>3 DEF r

LEMMA AddShape ==
  ASSUME NEW g, NEW a, Shape(g, a), NEW id \in Customs
  PROVE  LET copy == g.config.profiles[g.config.active]
         IN Shape([g EXCEPT !.config.profiles = With(@, id, copy), !.config.active = id,
                            !.revision = With(@, id, 0), !.editing = id, !.epoch = @ + 1], a)
<1> DEFINE copy == g.config.profiles[g.config.active]
           p == With(g.config.profiles, id, copy)
           c == [g.config EXCEPT !.profiles = p, !.active = id]
           r == With(g.revision, id, 0)
           e == g.epoch + 1
           h == [g EXCEPT !.config = c, !.revision = r, !.editing = id, !.epoch = e]
<1>1. /\ GuiTypes(g) /\ g \in GuiRecords /\ g.config \in Configs /\ id \in Ids
      /\ g.config.profiles \in Partial(ProfileContents) /\ g.revision \in Partial(Nat)
      /\ copy \in ProfileContents /\ e \in Nat /\ a \in Seq(Results)
      /\ DOMAIN g.revision = DOMAIN g.config.profiles
      /\ \A s \in Sources : g.config.remembered[s] \in DOMAIN g.config.profiles
      /\ Builtins \subseteq DOMAIN g.config.profiles
  <2>1. GuiTypes(g) /\ a \in Seq(Results)
    BY DEF Shape
  <2>2. g.config \in Configs
    BY <2>1, GuiFacts
  <2>3. g.config.profiles \in Partial(ProfileContents)
    BY <2>2 DEF Configs
  <2>4. e \in Nat /\ copy \in ProfileContents /\ g.revision \in Partial(Nat)
    BY <2>1, GuiFacts DEF Active
  <2>5. /\ g \in GuiRecords /\ DOMAIN g.revision = DOMAIN g.config.profiles
        /\ \A s \in Sources : g.config.remembered[s] \in DOMAIN g.config.profiles
        /\ Builtins \subseteq DOMAIN g.config.profiles
    BY <2>1 DEF GuiTypes
  <2> QED BY <2>1, <2>2, <2>3, <2>4, <2>5 DEF Ids
<1> HIDE DEF copy, e
<1>2. /\ p \in Partial(ProfileContents) /\ DOMAIN p = DOMAIN g.config.profiles \cup {id}
      /\ r \in Partial(Nat) /\ DOMAIN r = DOMAIN g.config.profiles \cup {id}
  <2>1. p \in Partial(ProfileContents) /\ r \in Partial(Nat)
    BY <1>1, WithFacts
  <2>2. DOMAIN p = DOMAIN g.config.profiles \cup {id} /\ DOMAIN r = DOMAIN g.revision \cup {id}
    BY WithDomain
  <2> QED BY <1>1, <2>1, <2>2
<1> HIDE DEF p, r
<1>3. /\ c \in Configs /\ c.active = id /\ c.profiles = p /\ c.remembered = g.config.remembered
  BY <1>1, <1>2 DEF Configs
<1>4. /\ [g EXCEPT !.config.profiles = With(@, id, copy), !.config.active = id,
                   !.revision = With(@, id, 0), !.editing = id, !.epoch = @ + 1] = h
  BY <1>1 DEF GuiRecords, Configs, p, r, e
<1> HIDE DEF c
<1>5. /\ h \in GuiRecords /\ h.config = c /\ h.revision = r /\ h.editing = id
      /\ h.jobs = g.jobs /\ h.applying = g.applying /\ h.pending = g.pending
  BY <1>1, <1>2, <1>3 DEF GuiRecords
<1> HIDE DEF h
<1>6. GuiTypes(h)
  BY <1>1, <1>2, <1>3, <1>5 DEF GuiTypes
<1>7. OneApply(h, a)
  BY <1>5 DEF OneApply, Shape
<1>8. Shape(h, a)
  BY <1>1, <1>6, <1>7 DEF Shape
<1> QED BY <1>4, <1>8 DEF copy

LEMMA AddKeeps ==
  ASSUME NEW g, NEW a, Shape(g, a), NEW id \in Customs, source \in Sources
  PROVE  LET copy == g.config.profiles[g.config.active]
             added == [g EXCEPT !.config.profiles = With(@, id, copy), !.config.active = id,
                                !.revision = With(@, id, 0), !.editing = id, !.epoch = @ + 1]
         IN \A w, d : Fine(ApplyActive(Flush(SaveConfig(added))), a, w, d)
<1> DEFINE copy == g.config.profiles[g.config.active]
           added == [g EXCEPT !.config.profiles = With(@, id, copy), !.config.active = id,
                              !.revision = With(@, id, 0), !.editing = id, !.epoch = @ + 1]
<1>1. Shape(added, a)
  BY AddShape
<1> HIDE DEF added
<1>2. Shape(SaveConfig(added), a)
  BY <1>1, SaveConfigKeeps
<1>3. Shape(Flush(SaveConfig(added)), a)
  BY <1>2, FlushShape
<1>4. \A w, d : Fine(ApplyActive(Flush(SaveConfig(added))), a, w, d)
  BY <1>3, ApplySettles
<1> QED BY <1>4 DEF added

LEMMA RemoveTypes ==
  ASSUME NEW g, GuiTypes(g), NEW id \in Customs
  PROVE  LET h == WithoutProfile(g, id)
         IN /\ GuiTypes(h) /\ h.config.active = Instead(g.config.active, id)
            /\ h.config.override = g.config.override
            /\ h.jobs = g.jobs /\ h.applying = g.applying /\ h.pending = g.pending
            /\ h.scheduled = g.scheduled
            /\ h.displaced = g.displaced /\ h.editing = h.config.active
            /\ g.config.active # id => /\ Active(h) = Active(g)
                                       /\ g.revision[g.config.active] <= h.revision[g.config.active]
<1> DEFINE p == [z \in DOMAIN g.config.profiles \ {id} |-> g.config.profiles[z]]
           r == [z \in DOMAIN g.revision \ {id} |-> g.revision[z]]
           s == [z \in DOMAIN g.serial \ {id} |-> g.serial[z]]
           active == Instead(g.config.active, id)
           m == [z \in Sources |-> Instead(g.config.remembered[z], id)]
           c == [g.config EXCEPT !.profiles = p, !.active = active, !.remembered = m]
           e == [g EXCEPT !.config = c, !.revision = r, !.serial = s]
           D == DOMAIN g.config.profiles \ {id}
<1>1. /\ g \in GuiRecords /\ g.config \in Configs
      /\ g.config.profiles \in Partial(ProfileContents) /\ g.revision \in Partial(Nat)
      /\ g.serial \in Partial(Nat) /\ DOMAIN g.revision = DOMAIN g.config.profiles
      /\ g.config.active \in DOMAIN g.config.profiles
      /\ DOMAIN g.config.profiles \subseteq Ids
      /\ g.config.remembered \in [Sources -> Ids]
      /\ \A z \in Sources : g.config.remembered[z] \in DOMAIN g.config.profiles
      /\ Builtins \subseteq DOMAIN g.config.profiles
      /\ g.revision[g.config.active] \in Nat
  <2>1. g.config \in Configs
    BY GuiFacts
  <2> QED BY <2>1, GuiFacts DEF GuiTypes, Configs
<1>2. /\ p \in Partial(ProfileContents) /\ DOMAIN p = D
      /\ r \in Partial(Nat) /\ DOMAIN r = D /\ s \in Partial(Nat)
      /\ \A z \in D : p[z] = g.config.profiles[z] /\ r[z] = g.revision[z]
  BY <1>1, RestFacts
<1>3. Builtins \subseteq D /\ Fallback \in D
  BY <1>1, ProfilesAssumption
<1>4. active \in D /\ m \in [Sources -> Ids] /\ \A z \in Sources : m[z] \in D
  BY <1>1, <1>3 DEF Instead
<1>5. WithoutProfile(g, id) = SelectEditing(e, e.config.active)
  BY <1>1 DEF WithoutProfile, GuiRecords, Configs
<1> HIDE DEF p, r, s, active, m, D
<1>6. /\ c \in Configs /\ c.profiles = p /\ c.active = active /\ c.remembered = m
      /\ c.override = g.config.override
  BY <1>1, <1>2, <1>4 DEF Configs, D
<1> HIDE DEF c
<1>7. /\ e \in GuiRecords /\ e.config = c /\ e.revision = r /\ e.editing = g.editing
      /\ e.jobs = g.jobs /\ e.applying = g.applying /\ e.pending = g.pending
      /\ e.scheduled = g.scheduled
      /\ e.displaced = g.displaced /\ e.epoch = g.epoch /\ e.serial = s
  BY <1>1, <1>2, <1>6 DEF GuiRecords
<1> HIDE DEF e
<1> DEFINE h == SelectEditing(e, active)
<1>8. /\ h \in GuiRecords /\ h.config = c /\ h.revision = r /\ h.editing = active
      /\ h.jobs = g.jobs /\ h.applying = g.applying /\ h.pending = g.pending
      /\ h.scheduled = g.scheduled /\ h.displaced = g.displaced
  <2>1. active \in Ids /\ e.epoch + 1 \in Nat
    BY <1>1, <1>4, <1>7 DEF D, GuiRecords
  <2>2. CASE e.editing = active
    BY <1>7, <2>2 DEF SelectEditing
  <2>3. CASE e.editing # active
    <3>1. h = [e EXCEPT !.editing = active, !.epoch = @ + 1]
      BY <2>3 DEF SelectEditing
    <3> HIDE DEF h
    <3> QED BY <1>7, <2>1, <3>1 DEF GuiRecords
  <2> QED BY <2>2, <2>3
<1> HIDE DEF h
<1>9. GuiTypes(h)
  BY <1>2, <1>3, <1>4, <1>6, <1>8 DEF GuiTypes
<1>10. g.config.active # id => active = g.config.active /\ active \in D
  BY <1>1 DEF active, Instead, D
<1>11. g.config.active # id => /\ Active(h) = Active(g)
                               /\ g.revision[g.config.active] <= h.revision[g.config.active]
  BY <1>1, <1>2, <1>6, <1>8, <1>10 DEF Active
<1>12. WithoutProfile(g, id) = h
  BY <1>5, <1>6, <1>7 DEF h
<1> QED BY <1>6, <1>8, <1>9, <1>11, <1>12 DEF active

LEMMA RemoveKeeps ==
  ASSUME NEW g, NEW a, NEW w, NEW d, Fine(g, a, w, d), g.editing \in Customs, source \in Sources
  PROVE  LET h == SaveConfig(WithoutProfile(g, g.editing))
         IN Fine(IF h.config.active # g.config.active THEN ApplyActive(h) ELSE h, a, w, d)
<1> DEFINE id == g.editing
           e == WithoutProfile(g, id)
           h == SaveConfig(e)
<1>1. GuiTypes(g) /\ OneApply(g, a) /\ a \in Seq(Results)
  BY DEF Fine, Shape
<1>2. /\ GuiTypes(e) /\ e.config.active = Instead(g.config.active, id)
      /\ e.config.override = g.config.override
      /\ e.jobs = g.jobs /\ e.applying = g.applying /\ e.pending = g.pending
      /\ e.scheduled = g.scheduled
      /\ e.displaced = g.displaced /\ e.editing = e.config.active
      /\ g.config.active # id => /\ Active(e) = Active(g)
                                 /\ g.revision[g.config.active] <= e.revision[g.config.active]
  BY <1>1, RemoveTypes
<1> HIDE DEF e
<1>3. Shape(e, a)
  BY <1>1, <1>2 DEF Shape, OneApply
<1>4. Shape(h, a) /\ h.config = e.config
  BY <1>3, SaveConfigKeeps
<1>5. CASE h.config.active # g.config.active
  BY <1>4, <1>5, ApplySettles DEF h, e
<1>6. CASE h.config.active = g.config.active
  <2>1. g.config.active # id
    BY <1>2, <1>4, <1>6, ProfilesAssumption DEF Instead
  <2>2. ProfileDue(g) => ProfileDue(e)
    BY <1>2, <1>4, <1>6 DEF ProfileDue
  <2>3. OverrideDue(g) = OverrideDue(e)
    BY <1>2, <1>4, <1>6 DEF OverrideDue
  <2>4. Carries(g, w, e, w)
    BY <1>2, <1>4, <1>6, <2>1, <2>2, <2>3 DEF Carries
  <2>5. Fine(h, a, w, d)
    BY <1>2, <2>4, CarriesSaved
  <2> QED BY <1>6, <2>5 DEF h, e
<1> QED BY <1>5, <1>6

LEMMA BeginTypes ==
  ASSUME NEW g, GuiTypes(g), NEW id \in DOMAIN g.config.profiles
  PROVE  LET h == BeginOperation(g, id)
         IN /\ GuiTypes(h) /\ h.config = g.config /\ h.scheduled = g.scheduled
            /\ h.displaced = g.displaced
            /\ h.revision = g.revision /\ h.jobs = g.jobs /\ h.applying = g.applying
            /\ h.pending = g.pending /\ h.editing = g.editing
            /\ Operation(g, id) \in Operations
<1> DEFINE n == Serial(g, id)
           s == With(g.serial, id, n)
           h == BeginOperation(g, id)
<1>1. /\ g \in GuiRecords /\ g.serial \in Partial(Nat) /\ id \in Ids
      /\ g.revision \in [DOMAIN g.config.profiles -> Nat]
  BY GuiFacts DEF GuiTypes
<1>2. n \in Nat
  <2>1. g.serial \in [DOMAIN g.serial -> Nat]
    BY <1>1, PartialFunction
  <2> QED BY <2>1 DEF Serial
<1> HIDE DEF n
<1>3. s \in Partial(Nat)
  BY <1>1, <1>2, WithFacts
<1>4. h = [g EXCEPT !.serial = s]
  BY <1>1 DEF BeginOperation, GuiRecords, n
<1> HIDE DEF s, h
<1>5. /\ h \in GuiRecords /\ h.config = g.config /\ h.scheduled = g.scheduled
      /\ h.displaced = g.displaced
      /\ h.revision = g.revision /\ h.jobs = g.jobs /\ h.applying = g.applying
      /\ h.pending = g.pending /\ h.editing = g.editing
  BY <1>1, <1>3, <1>4 DEF GuiRecords
<1>6. GuiTypes(h)
  BY <1>5, SameConfigTypes DEF GuiTypes
<1>7. Operation(g, id) \in Operations
  BY <1>1, <1>2 DEF Operation, Operations, n
<1> QED BY <1>5, <1>6, <1>7 DEF h

LEMMA RestoreKeeps ==
  ASSUME NEW g, NEW a, NEW w, NEW d, Fine(g, a, w, d)
  PROVE  LET id == g.editing
             stock == Stock(g.config.profiles[id].base)
             request == [RequestOf(g, id) EXCEPT !.content = stock]
         IN Fine(Push(BeginOperation(g, id),
                      [do |-> "restore", token |-> Operation(g, id), stock |-> stock,
                       request |-> IF g.config.active = id THEN request ELSE NoRequest]),
                 a, w, d)
<1> DEFINE id == g.editing
           stock == Stock(g.config.profiles[id].base)
           request == [RequestOf(g, id) EXCEPT !.content = stock]
           sent == IF g.config.active = id THEN request ELSE NoRequest
           token == Operation(g, id)
           job == [do |-> "restore", token |-> token, stock |-> stock, request |-> sent]
           h == BeginOperation(g, id)
<1>1. /\ GuiTypes(g) /\ id \in DOMAIN g.config.profiles
      /\ g.config.profiles \in [DOMAIN g.config.profiles -> ProfileContents]
      /\ g.config.active \in Ids /\ g.config.override \in BOOLEAN
      /\ g.revision[g.config.active] \in Nat
  BY GuiFacts DEF Fine, Shape, GuiTypes
<1>2. stock \in ProfileContents
  BY <1>1 DEF Stock, ProfileContents
<1> HIDE DEF stock
<1>3. sent \in Requests \cup {NoRequest} /\ (sent # NoRequest => g.config.active = id)
  BY <1>1, <1>2 DEF RequestOf, Requests
<1> HIDE DEF sent
<1>4. /\ GuiTypes(h) /\ h.config = g.config /\ h.scheduled = g.scheduled
      /\ h.displaced = g.displaced
      /\ h.revision = g.revision /\ h.jobs = g.jobs /\ h.applying = g.applying
      /\ h.pending = g.pending /\ h.editing = g.editing
      /\ token \in Operations
  BY <1>1, BeginTypes
<1>5. token.id = id
  BY DEF Operation
<1> HIDE DEF h, token
<1>6. job \in Jobs
  BY <1>2, <1>3, <1>4 DEF Jobs, Restores
<1>7. ~IsApply(job) /\ ~IsSave(job) /\ (Real(job) => job.token.id = h.config.active)
  BY <1>3, <1>4, <1>5 DEF IsApply, IsSave, Real
<1> HIDE DEF job
<1>8. /\ ProfileDue(h) = ProfileDue(g) /\ OverrideDue(h) = OverrideDue(g)
      /\ Active(h) = Active(g)
  BY <1>4 DEF ProfileDue, OverrideDue, Active
<1>9. Carries(g, w, h, w)
  BY <1>1, <1>4, <1>8 DEF Carries
<1>10. Fine(h, a, w, d)
  BY <1>4, <1>9, CarriesFine
<1>11. Fine(Push(h, job), a, w, d)
  BY <1>6, <1>7, <1>10, PushKeeps DEF Fine
<1> QED BY <1>11 DEF h, job, token, sent, stock

LEMMA PanelKeeps ==
  ASSUME NEW g, NEW a, NEW w, NEW d, Fine(g, a, w, d), NEW on \in Sources
  PROVE  /\ Fine(PanelPolicy(g, on), a, w, d)
         /\ Fine(Push(g, [do |-> "state"]), a, w, d)
         /\ PanelPolicy(g, on).config = g.config
<1> DEFINE panelJob == [do |-> "panel", on |-> g.config.always \/ on = "ac"]
           stateJob == [do |-> "state"]
<1>1. GuiTypes(g) /\ g.config.always \in BOOLEAN
  BY GuiFacts DEF Fine, Shape
<1>2. panelJob \in Jobs /\ ~IsApply(panelJob) /\ ~IsSave(panelJob) /\ ~Real(panelJob)
  BY <1>1 DEF Jobs, Panels, IsApply, IsSave, Real
<1>3. stateJob \in Jobs /\ ~IsApply(stateJob) /\ ~IsSave(stateJob) /\ ~Real(stateJob)
  BY DEF Jobs, States, IsApply, IsSave, Real
<1>4. PanelPolicy(g, on) = Push(g, panelJob)
  BY DEF PanelPolicy
<1> HIDE DEF panelJob, stateJob
<1>5. Fine(Push(g, panelJob), a, w, d)
  BY <1>2, PushKeeps DEF Fine
<1>6. Fine(Push(g, stateJob), a, w, d)
  BY <1>3, PushKeeps DEF Fine
<1>7. Push(g, panelJob).config = g.config
  BY <1>1, <1>2, PushEffect
<1> QED BY <1>4, <1>5, <1>6, <1>7 DEF stateJob

LEMMA ToggleOverdriveKeeps ==
  ASSUME NEW g, NEW a, NEW w, NEW d, Fine(g, a, w, d), source \in Sources
  PROVE  Fine(PanelPolicy(SaveConfig([g EXCEPT !.config.always = ~@]), source), a, w, d)
<1> DEFINE c == [g.config EXCEPT !.always = ~@]
           h == [g EXCEPT !.config = c]
<1>1. /\ GuiTypes(g) /\ g \in GuiRecords /\ g.config \in Configs
      /\ g.revision[g.config.active] \in Nat
  BY GuiFacts DEF Fine, Shape, GuiTypes
<1>2. /\ c \in Configs /\ c.active = g.config.active /\ c.profiles = g.config.profiles
      /\ c.remembered = g.config.remembered /\ c.override = g.config.override
  BY <1>1 DEF Configs
<1> HIDE DEF c
<1>3. /\ h \in GuiRecords /\ h.config = c /\ h.editing = g.editing /\ h.scheduled = g.scheduled
      /\ h.displaced = g.displaced
      /\ h.revision = g.revision /\ h.jobs = g.jobs /\ h.applying = g.applying
      /\ h.pending = g.pending
  BY <1>1, <1>2 DEF GuiRecords
<1> HIDE DEF h
<1>4. GuiTypes(h)
  BY <1>1, <1>2, <1>3 DEF GuiTypes
<1>5. /\ ProfileDue(h) = ProfileDue(g) /\ OverrideDue(h) = OverrideDue(g)
      /\ Active(h) = Active(g)
  BY <1>2, <1>3 DEF ProfileDue, OverrideDue, Active
<1>6. Carries(g, w, h, w)
  BY <1>1, <1>2, <1>3, <1>5 DEF Carries
<1>7. Fine(SaveConfig(h), a, w, d)
  BY <1>4, <1>6, CarriesSaved
<1>8. Fine(PanelPolicy(SaveConfig(h), source), a, w, d)
  BY <1>7, PanelKeeps
<1> QED BY <1>8 DEF h, c

LEMMA HandlerStep ==
  ASSUME ProfilesTypes, NEW g, Handler(g), made' \in Nat,
         Fine(g, answers, World', Disk)
  PROVE  ProfilesInv'
<1>1. /\ gui' = g /\ answers' = answers /\ Disk' = Disk
      /\ UNCHANGED <<applied, late, trust, source, observed, debounce>>
  BY DEF Handler, Disk, store, daemon, power
<1>2. ProfilesTypes'
  BY <1>1 DEF ProfilesTypes
<1> QED BY <1>1, <1>2 DEF ProfilesInv

LEMMA UserStep ==
  ASSUME ProfilesInv, User
  PROVE  ProfilesInv'
<1>1. /\ ProfilesTypes /\ Fine(gui, answers, World, Disk)
      /\ source \in Sources /\ made \in Nat
  BY DEF ProfilesInv, ProfilesTypes
<1>2. Shape(gui, answers)
  BY <1>1 DEF Fine
<1>3. ASSUME NEW g, Handler(g), UNCHANGED made, Fine(g, answers, World, Disk)
      PROVE  ProfilesInv'
  <2>1. World' = World
    BY <1>3 DEF Handler, World, daemon
  <2> QED BY <1>1, <1>3, <2>1, HandlerStep
<1>4. CASE SelectMode
  <2>1. PICK id \in Builtins : Handler(SelectProfile(gui, id, source))
    BY <1>4 DEF SelectMode
  <2>2. UNCHANGED made
    BY <1>4 DEF SelectMode
  <2>3. Fine(SelectProfile(gui, id, source), answers, World, Disk)
    BY <1>1, SelectKeeps
  <2> QED BY <1>3, <2>1, <2>2, <2>3
<1>5. CASE SelectForEditing
  <2>1. PICK id \in DOMAIN gui.config.profiles :
          Handler(SelectProfile(SelectEditing(Flush(gui), id), id, source))
    BY <1>5 DEF SelectForEditing
  <2>2. UNCHANGED made
    BY <1>5 DEF SelectForEditing
  <2>3. Fine(SelectProfile(SelectEditing(Flush(gui), id), id, source), answers, World, Disk)
    BY <1>1, SelectForEditingKeeps
  <2> QED BY <1>3, <2>1, <2>2, <2>3
<1>6. CASE Edit
  <2> DEFINE content == [gui.config.profiles[gui.editing] EXCEPT !.edit = made']
             e == EditProfile(gui, gui.editing, content)
             g == ScheduleApply(e, gui.editing)
  <2>1. made' = made + 1 /\ Schedule(e, gui.editing)
    BY <1>6 DEF Edit
  <2>2. content \in ProfileContents /\ GuiTypes(gui) /\ gui.editing \in DOMAIN gui.config.profiles
    <3>1. /\ gui.config.profiles \in [DOMAIN gui.config.profiles -> ProfileContents]
          /\ GuiTypes(gui)
      BY <1>2, GuiFacts DEF Shape
    <3>2. gui.editing \in DOMAIN gui.config.profiles
      BY <3>1 DEF GuiTypes
    <3>3. gui.config.profiles[gui.editing] \in ProfileContents /\ made' \in Nat
      BY <1>1, <2>1, <3>1, <3>2
    <3> QED BY <3>1, <3>2, <3>3 DEF ProfileContents
  <2> HIDE DEF content
  <2>3. Handler(g)
    BY <2>1 DEF Schedule
  <2>4. World' = World
    BY <2>3 DEF Handler, World, daemon
  <2>5. Fine(g, answers, World', Disk)
    BY <1>1, <2>2, <2>4, EditKeeps
  <2> HIDE DEF g
  <2> QED BY <1>1, <2>1, <2>3, <2>5, HandlerStep
<1>7. CASE EditQuietly
  <2>1. Fine(SaveConfig(EditProfile(gui, gui.editing, gui.config.profiles[gui.editing])),
             answers, World, Disk)
    BY <1>1, EditQuietlyKeeps
  <2> QED BY <1>3, <1>7, <2>1 DEF EditQuietly
<1>8. CASE ToggleProtection
  <2> DEFINE e == [gui EXCEPT !.config.override = ~@]
             g == ScheduleApply(e, gui.config.active)
  <2>1. Handler(g) /\ UNCHANGED made
    BY <1>8 DEF ToggleProtection, Schedule
  <2>2. Fine(g, answers, World, Disk)
    BY <1>1, ToggleProtectionKeeps
  <2> HIDE DEF g
  <2> QED BY <1>3, <2>1, <2>2
<1>9. CASE AddCustom
  <2>1. PICK id \in Customs \ DOMAIN gui.config.profiles :
          LET copy == gui.config.profiles[gui.config.active]
              added == [gui EXCEPT !.config.profiles = With(@, id, copy), !.config.active = id,
                                   !.revision = With(@, id, 0), !.editing = id, !.epoch = @ + 1]
          IN Handler(ApplyActive(Flush(SaveConfig(added)))) /\ UNCHANGED made
    BY <1>9 DEF AddCustom
  <2> DEFINE copy == gui.config.profiles[gui.config.active]
             added == [gui EXCEPT !.config.profiles = With(@, id, copy), !.config.active = id,
                                  !.revision = With(@, id, 0), !.editing = id, !.epoch = @ + 1]
  <2>2. Fine(ApplyActive(Flush(SaveConfig(added))), answers, World, Disk)
    BY <1>1, <1>2, AddKeeps
  <2>3. Handler(ApplyActive(Flush(SaveConfig(added)))) /\ UNCHANGED made
    BY <2>1
  <2> HIDE DEF added
  <2> QED BY <1>3, <2>2, <2>3
<1>10. CASE RemoveProfile
  <2> DEFINE h == SaveConfig(WithoutProfile(gui, gui.editing))
             g == IF h.config.active # gui.config.active THEN ApplyActive(h) ELSE h
  <2>1. Handler(g) /\ gui.editing \in Customs /\ UNCHANGED made
    BY <1>10 DEF RemoveProfile
  <2>2. Fine(g, answers, World, Disk)
    BY <1>1, <2>1, RemoveKeeps
  <2> HIDE DEF g
  <2> QED BY <1>3, <2>1, <2>2
<1>11. CASE RestoreFactory
  <2> DEFINE id == gui.editing
             stock == Stock(gui.config.profiles[id].base)
             request == [RequestOf(gui, id) EXCEPT !.content = stock]
             g == Push(BeginOperation(gui, id),
                       [do |-> "restore", token |-> Operation(gui, id), stock |-> stock,
                        request |-> IF gui.config.active = id THEN request ELSE NoRequest])
  <2>1. Handler(g) /\ UNCHANGED made
    BY <1>11 DEF RestoreFactory
  <2>2. Fine(g, answers, World, Disk)
    BY <1>1, RestoreKeeps
  <2> HIDE DEF g
  <2> QED BY <1>3, <2>1, <2>2
<1>12. CASE ToggleOverdrive
  <2> DEFINE g == PanelPolicy(SaveConfig([gui EXCEPT !.config.always = ~@]), source)
  <2>1. Handler(g) /\ UNCHANGED made
    BY <1>12 DEF ToggleOverdrive
  <2>2. Fine(g, answers, World, Disk)
    BY <1>1, ToggleOverdriveKeeps
  <2> HIDE DEF g
  <2> QED BY <1>3, <2>1, <2>2
<1> QED BY <1>4, <1>5, <1>6, <1>7, <1>8, <1>9, <1>10, <1>11, <1>12 DEF User

----------------------------------------------------------------------------
(* The worker takes the head of the queue. *)
Popped(g) == [g EXCEPT !.jobs = Tail(@)]

LEMMA PopEffect ==
  ASSUME NEW g, GuiTypes(g), g.jobs # << >>
  PROVE  LET h == Popped(g)
         IN /\ GuiTypes(h) /\ h.jobs = Tail(g.jobs) /\ h.config = g.config
            /\ h.revision = g.revision /\ h.applying = g.applying /\ h.pending = g.pending
            /\ h.scheduled = g.scheduled
            /\ h.displaced = g.displaced /\ h.editing = g.editing
            /\ Head(g.jobs) = g.jobs[1] /\ g.jobs[1] \in Jobs /\ 1 \in DOMAIN g.jobs
            /\ DOMAIN g.jobs \subseteq Nat /\ DOMAIN h.jobs \subseteq Nat
            /\ \A i \in DOMAIN h.jobs : i >= 1 /\ i + 1 \in DOMAIN g.jobs /\ h.jobs[i] = g.jobs[i + 1]
            /\ \A i \in DOMAIN g.jobs :
                 i >= 1 /\ (i # 1 => i - 1 \in DOMAIN h.jobs /\ h.jobs[i - 1] = g.jobs[i])
<1> DEFINE h == Popped(g)
<1>1. g \in GuiRecords /\ g.jobs \in Seq(Jobs)
  BY GuiFacts DEF GuiTypes
<1>2. /\ Tail(g.jobs) \in Seq(Jobs) /\ Head(g.jobs) = g.jobs[1] /\ g.jobs[1] \in Jobs
      /\ 1 \in DOMAIN g.jobs /\ DOMAIN g.jobs \subseteq Nat /\ DOMAIN Tail(g.jobs) \subseteq Nat
      /\ \A i \in DOMAIN Tail(g.jobs) :
           i >= 1 /\ i + 1 \in DOMAIN g.jobs /\ Tail(g.jobs)[i] = g.jobs[i + 1]
      /\ \A i \in DOMAIN g.jobs :
           i >= 1 /\ (i # 1 => i - 1 \in DOMAIN Tail(g.jobs) /\ Tail(g.jobs)[i - 1] = g.jobs[i])
  BY <1>1, TailFacts
<1>3. /\ h \in GuiRecords /\ h.jobs = Tail(g.jobs) /\ h.config = g.config
      /\ h.revision = g.revision /\ h.applying = g.applying /\ h.pending = g.pending
      /\ h.scheduled = g.scheduled /\ h.displaced = g.displaced /\ h.editing = g.editing
  BY <1>1, <1>2 DEF Popped, GuiRecords
<1> HIDE DEF h
<1>4. GuiTypes(h)
  BY <1>3, SameConfigTypes DEF GuiTypes
<1> QED BY <1>2, <1>3, <1>4 DEF h

LEMMA PopQueue ==
  ASSUME NEW g, GuiTypes(g), g.jobs # << >>
  PROVE  LET h == Popped(g)
         IN /\ Stale(h) = Stale(g) /\ NotAhead(h) = NotAhead(g) /\ Active(h) = Active(g)
            /\ ProfileDue(h) = ProfileDue(g)
            /\ OverrideDue(h) = OverrideDue(g)
            /\ RestoresFirst(g) => RestoresFirst(h)
            /\ \A w, v : ApplyFits(g, w) => ApplyFits(h, v)
            /\ \A d : ~IsSave(g.jobs[1]) /\ Stored(g, d) => Stored(h, d)
            /\ \A d, e : /\ IsSave(g.jobs[1]) /\ Stored(g, d)
                         /\ e.saved => e.file = g.jobs[1].config
                         => Stored(h, e)
<1> DEFINE h == Popped(g)
<1>1. /\ GuiTypes(h) /\ h.config = g.config
      /\ h.revision = g.revision /\ h.applying = g.applying /\ h.pending = g.pending
      /\ h.scheduled = g.scheduled /\ h.displaced = g.displaced /\ h.editing = g.editing
      /\ g.jobs[1] \in Jobs /\ 1 \in DOMAIN g.jobs
      /\ DOMAIN g.jobs \subseteq Nat /\ DOMAIN h.jobs \subseteq Nat
      /\ \A i \in DOMAIN h.jobs : i >= 1 /\ i + 1 \in DOMAIN g.jobs /\ h.jobs[i] = g.jobs[i + 1]
      /\ \A i \in DOMAIN g.jobs :
           i >= 1 /\ (i # 1 => i - 1 \in DOMAIN h.jobs /\ h.jobs[i - 1] = g.jobs[i])
  BY PopEffect
<1> HIDE DEF h
<1>2. /\ Stale(h) = Stale(g) /\ NotAhead(h) = NotAhead(g) /\ Active(h) = Active(g)
      /\ ProfileDue(h) = ProfileDue(g)
      /\ OverrideDue(h) = OverrideDue(g)
  BY <1>1 DEF Stale, NotAhead, Active, ProfileDue, OverrideDue
<1>3. ASSUME RestoresFirst(g) PROVE RestoresFirst(h)
  <2> SUFFICES ASSUME NEW i \in DOMAIN h.jobs, Real(h.jobs[i])
               PROVE  \/ h.jobs[i].token.id = h.config.active
                      \/ h.pending
                      \/ \E j \in DOMAIN h.jobs : j > i /\ IsApply(h.jobs[j])
    BY DEF RestoresFirst
  <2>1. i \in Nat /\ i + 1 \in DOMAIN g.jobs /\ h.jobs[i] = g.jobs[i + 1]
    BY <1>1
  <2>2. ASSUME NEW j \in DOMAIN g.jobs, j > i + 1, IsApply(g.jobs[j])
        PROVE  \E k \in DOMAIN h.jobs : k > i /\ IsApply(h.jobs[k])
    <3>1. j \in Nat /\ j - 1 \in DOMAIN h.jobs /\ h.jobs[j - 1] = g.jobs[j] /\ j - 1 > i
      BY <1>1, <2>1, <2>2
    <3> QED BY <2>2, <3>1
  <2> QED BY <1>1, <1>3, <2>1, <2>2 DEF RestoresFirst
<1>4. ASSUME NEW w, NEW v, ApplyFits(g, w) PROVE ApplyFits(h, v)
  <2>1. \A r : Fits(g, r, w) => Fits(h, r, v)
    BY <1>1, <1>2, <1>4 DEF Fits, OverrideDue
  <2> QED BY <1>1, <1>2, <1>4, <2>1 DEF ApplyFits
<1>5. ASSUME NEW d, Stored(g, d), NEW i \in DOMAIN h.jobs, IsSave(h.jobs[i]),
             \A j \in DOMAIN h.jobs : IsSave(h.jobs[j]) => j <= i
      PROVE  h.jobs[i].config = h.config
  <2>1. i \in Nat /\ i >= 1 /\ i + 1 \in DOMAIN g.jobs /\ h.jobs[i] = g.jobs[i + 1]
    BY <1>1
  <2>2. ASSUME NEW j \in DOMAIN g.jobs, IsSave(g.jobs[j]) PROVE j <= i + 1
    <3>1. j \in Nat /\ (j # 1 => j - 1 <= i)
      BY <1>1, <1>5, <2>2
    <3> QED BY <2>1, <3>1
  <2> QED BY <1>1, <1>5, <2>1, <2>2 DEF Stored
<1>6. ASSUME NEW d, Stored(g, d), ~IsSave(g.jobs[1]) PROVE Stored(h, d)
  <2>1. ASSUME \A i \in DOMAIN h.jobs : ~IsSave(h.jobs[i]), d.saved PROVE d.file = h.config
    <3>1. \A i \in DOMAIN g.jobs : ~IsSave(g.jobs[i])
      BY <1>1, <1>6, <2>1
    <3> QED BY <1>1, <1>6, <2>1, <3>1 DEF Stored
  <2> QED BY <1>5, <1>6, <2>1 DEF Stored
<1>7. ASSUME NEW d, NEW e, Stored(g, d), IsSave(g.jobs[1]), e.saved => e.file = g.jobs[1].config
      PROVE  Stored(h, e)
  <2>1. ASSUME \A i \in DOMAIN h.jobs : ~IsSave(h.jobs[i]), e.saved PROVE e.file = h.config
    <3>1. \A i \in DOMAIN g.jobs : IsSave(g.jobs[i]) => i <= 1
      BY <1>1, <2>1
    <3> QED BY <1>1, <1>7, <2>1, <3>1 DEF Stored
  <2> QED BY <1>5, <1>7, <2>1 DEF Stored
<1> QED BY <1>2, <1>3, <1>4, <1>6, <1>7 DEF h

LEMMA PopShape ==
  ASSUME NEW g, NEW a, Shape(g, a), g.jobs # << >>
  PROVE  /\ \A z \in Results : z.job = g.jobs[1] => Shape(Popped(g), Append(a, z))
         /\ ~IsApply(g.jobs[1]) => Shape(Popped(g), a)
<1> DEFINE h == Popped(g)
           n == Len(a) + 1
<1>1. /\ GuiTypes(h) /\ h.applying = g.applying /\ h.pending = g.pending
      /\ 1 \in DOMAIN g.jobs
      /\ DOMAIN g.jobs \subseteq Nat /\ DOMAIN h.jobs \subseteq Nat
      /\ \A i \in DOMAIN h.jobs : i >= 1 /\ i + 1 \in DOMAIN g.jobs /\ h.jobs[i] = g.jobs[i + 1]
  BY PopEffect DEF Shape
<1>2. OneApply(g, a) /\ a \in Seq(Results)
  BY DEF Shape
<1> HIDE DEF h
<1>3. \A i, j \in DOMAIN h.jobs : i + 1 = j + 1 => i = j
  BY <1>1
<1>4. ~IsApply(g.jobs[1]) => Shape(h, a)
  BY <1>1, <1>2, <1>3 DEF Shape, OneApply
<1>5. ASSUME NEW z \in Results, z.job = g.jobs[1] PROVE Shape(h, Append(a, z))
  <2> DEFINE b == Append(a, z)
  <2>1. /\ b \in Seq(Results) /\ DOMAIN b = 1 .. n /\ DOMAIN a = 1 .. n - 1 /\ n \in Nat /\ n > 0
        /\ b[n] = z /\ \A i \in DOMAIN a : b[i] = a[i]
    BY <1>2, AppendFacts
  <2> HIDE DEF b, n
  <2>2. \A i \in DOMAIN b : i = n \/ (i \in DOMAIN a /\ b[i] = a[i])
    BY <2>1
  <2>3. CASE IsApply(g.jobs[1])
    <3>1. /\ g.applying = z.job.token
          /\ \A j \in DOMAIN g.jobs : IsApply(g.jobs[j]) => j = 1
          /\ \A j \in DOMAIN a : ~IsApply(a[j].job)
      BY <1>1, <1>2, <1>5, <2>3 DEF OneApply
    <3>2. \A i \in DOMAIN h.jobs : ~IsApply(h.jobs[i])
      BY <1>1, <3>1
    <3>3. \A i \in DOMAIN b : IsApply(b[i].job) => i = n
      BY <2>2, <3>1
    <3>4. OneApply(h, b)
      BY <1>1, <1>2, <2>1, <3>1, <3>2, <3>3 DEF OneApply
    <3> QED BY <1>1, <2>1, <3>4 DEF Shape, b
  <2>4. CASE ~IsApply(g.jobs[1])
    <3>1. OneApply(h, a)
      BY <1>4, <2>4 DEF Shape
    <3>2. \A i \in DOMAIN b : IsApply(b[i].job) => i \in DOMAIN a /\ b[i] = a[i]
      BY <1>5, <2>1, <2>2, <2>4
    <3>3. OneApply(h, b)
      BY <3>1, <3>2 DEF OneApply
    <3> QED BY <1>1, <2>1, <3>3 DEF Shape, b
  <2> QED BY <2>3, <2>4
<1> QED BY <1>4, <1>5 DEF h

(* A job that tells the daemon nothing new, answered or not. *)
LEMMA PopKeeps ==
  ASSUME NEW g, NEW a, NEW w, NEW d, Fine(g, a, w, d), g.jobs # << >>, ~IsApply(g.jobs[1])
  PROVE  /\ \A z \in Results :
              z.job = g.jobs[1] /\ ~IsSave(g.jobs[1]) => Fine(Popped(g), Append(a, z), w, d)
         /\ ~IsSave(g.jobs[1]) => Fine(Popped(g), a, w, d)
         /\ \A e : IsSave(g.jobs[1]) /\ (e.saved => e.file = g.jobs[1].config)
                     => Fine(Popped(g), a, w, e)
<1> DEFINE h == Popped(g)
<1>1. Shape(g, a) /\ GuiTypes(g) /\ a \in Seq(Results)
  BY DEF Fine, Shape
<1>2. /\ Stale(h) = Stale(g) /\ NotAhead(h) /\ Active(h) = Active(g)
      /\ ProfileDue(h) = ProfileDue(g) /\ OverrideDue(h) = OverrideDue(g)
      /\ RestoresFirst(h) /\ ApplyFits(h, w)
      /\ ~IsSave(g.jobs[1]) /\ Stored(g, d) => Stored(h, d)
      /\ \A e : /\ IsSave(g.jobs[1]) /\ Stored(g, d)
                /\ e.saved => e.file = g.jobs[1].config
                => Stored(h, e)
  BY <1>1, PopQueue DEF Fine, Due
<1>3. /\ h.config = g.config /\ h.applying = g.applying /\ h.scheduled = g.scheduled
      /\ h.displaced = g.displaced
      /\ g.jobs[1] \in Jobs
  BY <1>1, PopEffect
<1>4. /\ Shape(h, a)
      /\ \A z \in Results : z.job = g.jobs[1] => Shape(h, Append(a, z))
  BY <1>1, PopShape
<1> HIDE DEF h
<1>5. ASSUME NEW b, DOMAIN a \subseteq DOMAIN b, \A i \in DOMAIN a : b[i] = a[i],
             \A i \in DOMAIN b : IsApply(b[i].job) => i \in DOMAIN a,
             NEW e, Stored(g, d) => Stored(h, e)
      PROVE  Due(h, b, w) /\ Storing(h, b, w, e)
  <2>1. \A k : Restoring(g, a, k) => Restoring(h, b, k)
    BY <1>3, <1>5 DEF Restoring
  <2>2. \A k : Reading(a, k, w) => Reading(b, k, w)
    BY <1>5 DEF Reading
  <2>3. SameProfile(h, w) = SameProfile(g, w) /\ SameOverride(h, w) = SameOverride(g, w)
    BY <1>2, <1>3 DEF SameProfile, SameOverride
  <2>4. \A k : Followed(g, a, w, k) => Followed(h, b, w, k)
    BY <1>2, <2>1, <2>2, <2>3 DEF Followed
  <2>5. Due(h, b, w)
    BY <1>2, <1>3, <1>5, <2>4 DEF Due, Fine
  <2>6. \A k : SaveDue(g, a, d, k) => SaveDue(h, b, e, k)
    BY <1>3, <1>5, <2>1 DEF SaveDue
  <2>7. Storing(h, b, w, e)
    BY <1>2, <1>3, <1>5, <2>6 DEF Storing, Fine
  <2> QED BY <2>5, <2>7
<1>6. ASSUME NEW z \in Results, z.job = g.jobs[1], ~IsSave(g.jobs[1])
      PROVE  Fine(h, Append(a, z), w, d)
  <2> DEFINE b == Append(a, z)
             n == Len(a) + 1
  <2>1. /\ DOMAIN b = 1 .. n /\ DOMAIN a = 1 .. n - 1 /\ n \in Nat /\ n > 0
        /\ b[n] = z /\ \A i \in DOMAIN a : b[i] = a[i]
    BY <1>1, AppendFacts
  <2> HIDE DEF b, n
  <2>2. \A i \in DOMAIN b : i = n \/ i \in DOMAIN a
    BY <2>1
  <2>3. DOMAIN a \subseteq DOMAIN b
    BY <2>1
  <2>4. \A i \in DOMAIN b : IsApply(b[i].job) => i \in DOMAIN a
    BY <1>6, <2>1, <2>2
  <2>5. Due(h, b, w) /\ Storing(h, b, w, d)
    BY <1>2, <1>5, <1>6, <2>1, <2>3, <2>4
  <2>6. Shape(h, b)
    BY <1>4, <1>6 DEF b
  <2>7. Fine(h, b, w, d)
    BY <2>5, <2>6 DEF Fine
  <2> QED BY <2>7 DEF b
<1>7. ~IsSave(g.jobs[1]) => Fine(h, a, w, d)
  BY <1>2, <1>4, <1>5 DEF Fine
<1>8. ASSUME NEW e, IsSave(g.jobs[1]), e.saved => e.file = g.jobs[1].config
      PROVE  Fine(h, a, w, e)
  <2>1. Stored(g, d) => Stored(h, e)
    BY <1>2, <1>8
  <2>2. Due(h, a, w) /\ Storing(h, a, w, e)
    BY <1>5, <2>1
  <2> QED BY <1>4, <2>2 DEF Fine
<1> QED BY <1>6, <1>7, <1>8 DEF h

(* What is left when nothing is known of the daemon: of the queue. *)
LEMMA PopUntrusted ==
  ASSUME NEW g, NEW a, NEW w, NEW d, Fine(g, a, w, d), g.jobs # << >>,
         NEW z \in Results, z.job = g.jobs[1],
         NEW v, v.trust = None
  PROVE  Fine(Popped(g), Append(a, z), v, d)
<1> DEFINE h == Popped(g)
           b == Append(a, z)
<1>1. Shape(g, a) /\ GuiTypes(g)
  BY DEF Fine, Shape
<1>2. NotAhead(h) /\ RestoresFirst(h) /\ ApplyFits(h, v)
  BY <1>1, PopQueue DEF Fine, Due
<1>3. Shape(h, b)
  BY <1>1, PopShape
<1> HIDE DEF h, b
<1>4. \A k : Followed(h, b, v, k)
  BY DEF Followed
<1>5. Storing(h, b, v, d)
  BY ProfilesAssumption DEF Storing, None
<1>6. Fine(h, b, v, d)
  BY <1>2, <1>3, <1>4, <1>5 DEF Fine, Due
<1> QED BY <1>6 DEF h, b

(* The daemon ran the apply. *)
LEMMA ApplyRan ==
  ASSUME NEW g, NEW a, NEW w, NEW d, Fine(g, a, w, d), g.jobs # << >>, IsApply(g.jobs[1]),
         NEW z \in Results, z.job = g.jobs[1], z.is = "ok",
         NEW v, v.trust = "content", v.applied = g.jobs[1].request
  PROVE  Fine(Popped(g), Append(a, z), v, d)
<1> DEFINE h == Popped(g)
           b == Append(a, z)
           n == Len(a) + 1
           r == g.jobs[1].request
<1>1. Shape(g, a) /\ GuiTypes(g) /\ a \in Seq(Results) /\ OneApply(g, a)
  BY DEF Fine, Shape
<1>2. /\ Stale(h) = Stale(g) /\ NotAhead(h) /\ Active(h) = Active(g)
      /\ ProfileDue(h) = ProfileDue(g) /\ OverrideDue(h) = OverrideDue(g)
      /\ RestoresFirst(h) /\ ApplyFits(h, v)
  BY <1>1, PopQueue DEF Fine, Due
<1>3. h.config = g.config /\ h.applying = g.applying /\ 1 \in DOMAIN g.jobs
  BY <1>1, PopEffect
<1>4. Shape(h, b)
  BY <1>1, PopShape
<1>5. /\ DOMAIN b = 1 .. n /\ DOMAIN a = 1 .. n - 1 /\ n \in Nat /\ n > 0
      /\ b[n] = z /\ \A i \in DOMAIN a : b[i] = a[i]
  BY <1>1, AppendFacts
<1> HIDE DEF h, b, n
<1>6. /\ \A i \in DOMAIN b : IsApply(b[i].job) => i = n
      /\ h.applying # NoToken
  <2>1. \A i \in DOMAIN b : i = n \/ (i \in DOMAIN a /\ b[i] = a[i])
    BY <1>5
  <2>2. \A i \in DOMAIN a : ~IsApply(a[i].job)
    BY <1>1, <1>3 DEF OneApply
  <2>3. g.applying # NoToken
    BY <1>1, <1>3, NothingUnderWay
  <2> QED BY <1>3, <2>1, <2>2, <2>3
<1>7. Stale(g) \/ Fits(g, r, w)
  BY <1>3 DEF Fine, Due, ApplyFits
<1>8. Stale(h) \/ Followed(h, b, v, n)
  <2>1. CASE Fits(g, r, w)
    <3>1. r.id = g.config.active
      BY <2>1 DEF Fits
    <3>2. r.content = Active(g) \/ ProfileDue(g)
      BY <2>1 DEF Fits
    <3>3. r.override = g.config.override \/ OverrideDue(g)
      BY <2>1 DEF Fits, OverrideDue
    <3>4. SameProfile(h, v) \/ ProfileDue(h)
      BY <1>2, <1>3, <3>1, <3>2 DEF SameProfile
    <3>5. SameOverride(h, v) \/ OverrideDue(h)
      BY <1>2, <1>3, <3>3 DEF SameOverride
    <3> QED BY <3>4, <3>5 DEF Followed
  <2> QED BY <1>2, <1>7, <2>1
<1>9. Due(h, b, v)
  BY <1>2, <1>6, <1>8 DEF Due
<1>10. Storing(h, b, v, d)
  BY <1>5, <1>6 DEF Storing
<1>11. Fine(h, b, v, d)
  BY <1>4, <1>9, <1>10 DEF Fine
<1> QED BY <1>11 DEF h, b

(* The daemon ran the request of a restore. *)
LEMMA RestoreRan ==
  ASSUME NEW g, NEW a, NEW w, NEW d, Fine(g, a, w, d), g.jobs # << >>, Real(g.jobs[1]),
         NEW z \in Results, z.job = g.jobs[1], z.is = "ok",
         NEW v, v.trust = "content"
  PROVE  Fine(Popped(g), Append(a, z), v, d)
<1> DEFINE h == Popped(g)
           b == Append(a, z)
           n == Len(a) + 1
<1>1. Shape(g, a) /\ GuiTypes(g) /\ a \in Seq(Results) /\ OneApply(g, a)
  BY DEF Fine, Shape
<1>2. Stale(h) = Stale(g) /\ NotAhead(h) /\ RestoresFirst(h) /\ ApplyFits(h, v)
  BY <1>1, PopQueue DEF Fine, Due
<1>3. h.config = g.config /\ h.applying = g.applying /\ 1 \in DOMAIN g.jobs
  BY <1>1, PopEffect
<1>4. Shape(h, b)
  BY <1>1, PopShape
<1>5. /\ DOMAIN b = 1 .. n /\ DOMAIN a = 1 .. n - 1 /\ n \in Nat /\ n > 0
      /\ b[n] = z /\ \A i \in DOMAIN a : b[i] = a[i]
  BY <1>1, AppendFacts
<1> HIDE DEF h, b, n
<1>6. \A i \in DOMAIN b : IsApply(b[i].job) => i \in DOMAIN a /\ b[i] = a[i] /\ i < n
  <2>1. \A i \in DOMAIN b : i = n \/ (i \in DOMAIN a /\ b[i] = a[i] /\ i < n)
    BY <1>5
  <2>2. ~IsApply(b[n].job)
    BY <1>5 DEF Real, IsApply
  <2> QED BY <2>1, <2>2
<1>7. \/ g.jobs[1].token.id = g.config.active
      \/ g.pending
      \/ \E j \in DOMAIN g.jobs : j > 1 /\ IsApply(g.jobs[j])
  BY <1>3 DEF Fine, Due, RestoresFirst
<1>8. CASE g.jobs[1].token.id = g.config.active
  <2>1. \A k \in Nat : k < n => Restoring(h, b, k)
    BY <1>3, <1>5, <1>8 DEF Restoring
  <2>2. \A k \in Nat : k < n => Followed(h, b, v, k)
    BY <2>1 DEF Followed
  <2>3. \A k \in Nat : k < n => SaveDue(h, b, d, k)
    BY <2>1 DEF SaveDue
  <2>4. 0 < n /\ \A k \in DOMAIN b : IsApply(b[k].job) => k \in Nat /\ k < n
    BY <1>5, <1>6
  <2>5. Due(h, b, v)
    BY <1>2, <2>2, <2>4 DEF Due
  <2>6. Storing(h, b, v, d)
    BY <2>3, <2>4 DEF Storing
  <2>7. Fine(h, b, v, d)
    BY <1>4, <2>5, <2>6 DEF Fine
  <2> QED BY <2>7 DEF h, b
<1>9. CASE g.pending \/ \E j \in DOMAIN g.jobs : j > 1 /\ IsApply(g.jobs[j])
  <2>1. h.applying # NoToken
    BY <1>1, <1>3, <1>9, NothingUnderWay DEF OneApply
  <2>2. Stale(h) \/ \A k \in DOMAIN b : ~IsApply(b[k].job)
    <3>1. CASE g.pending
      BY <1>2, <1>3, <2>1, <3>1 DEF Stale
    <3>2. CASE \E j \in DOMAIN g.jobs : j > 1 /\ IsApply(g.jobs[j])
      BY <1>1, <1>6, <3>2 DEF OneApply
    <3> QED BY <1>9, <3>1, <3>2
  <2>3. Due(h, b, v)
    BY <1>2, <2>1, <2>2 DEF Due
  <2>4. Storing(h, b, v, d)
    BY <2>1, <2>2 DEF Storing
  <2>5. Fine(h, b, v, d)
    BY <1>4, <2>3, <2>4 DEF Fine
  <2> QED BY <2>5 DEF h, b
<1> QED BY <1>7, <1>8, <1>9

(* get_state was answered, after nothing was known of the daemon. *)
LEMMA StateRead ==
  ASSUME NEW g, NEW a, NEW w, NEW d, Fine(g, a, w, d), g.jobs # << >>, g.jobs[1].do = "state",
         NEW z \in Results, z.job = g.jobs[1], z.is = "ok", z.label = Label(w.applied.content),
         NEW v, v.trust = "label", v.applied = w.applied
  PROVE  Fine(Popped(g), Append(a, z), v, d)
<1> DEFINE h == Popped(g)
           b == Append(a, z)
           n == Len(a) + 1
<1>1. Shape(g, a) /\ GuiTypes(g) /\ a \in Seq(Results)
  BY DEF Fine, Shape
<1>2. NotAhead(h) /\ RestoresFirst(h) /\ ApplyFits(h, v)
  BY <1>1, PopQueue DEF Fine, Due
<1>3. Shape(h, b)
  BY <1>1, PopShape
<1>4. /\ DOMAIN b = 1 .. n /\ DOMAIN a = 1 .. n - 1 /\ n \in Nat /\ n > 0
      /\ b[n] = z /\ \A i \in DOMAIN a : b[i] = a[i]
  BY <1>1, AppendFacts
<1> HIDE DEF h, b, n
<1>5. 0 < n /\ \A k \in DOMAIN b : IsApply(b[k].job) => k \in Nat /\ k < n
  <2>1. \A i \in DOMAIN b : i = n \/ (i \in Nat /\ i < n)
    BY <1>4
  <2>2. ~IsApply(b[n].job)
    BY <1>4 DEF IsApply
  <2> QED BY <1>4, <2>1, <2>2
<1>6. \A k \in Nat : k < n => Reading(b, k, v)
  BY <1>4 DEF Reading
<1>7. SameOverride(h, v)
  BY DEF SameOverride
<1>8. \A k \in Nat : k < n => Followed(h, b, v, k)
  BY <1>6, <1>7 DEF Followed
<1>9. Due(h, b, v)
  BY <1>2, <1>5, <1>8 DEF Due
<1>10. Storing(h, b, v, d)
  BY DEF Storing
<1>11. Fine(h, b, v, d)
  BY <1>3, <1>9, <1>10 DEF Fine
<1> QED BY <1>11 DEF h, b

LEMMA JobStep ==
  ASSUME ProfilesInv, Worker
  PROVE  ProfilesInv'
<1>1. /\ ProfilesTypes /\ Fine(gui, answers, World, Disk) /\ GuiTypes(gui)
      /\ applied \in Requests \cup {NoRequest} /\ trust \in {None, "label", "content"}
  BY DEF ProfilesInv, ProfilesTypes, Fine, Shape
<1>2. /\ gui.jobs # << >> /\ Job = gui.jobs[1] /\ Job \in Jobs /\ gui' = Popped(gui)
  <2>1. gui.jobs # << >> /\ gui' = Popped(gui)
    BY DEF Worker, Exchange, Save, SetPanel, GetState, ReadCurves, Answer, Working, Popped
  <2> QED BY <1>1, <2>1, PopEffect DEF Job
<1>3. UNCHANGED <<source, observed, debounce, made>>
  BY DEF Worker, Exchange, Save, SetPanel, GetState, ReadCurves, power
<1>5. ASSUME NEW result \in {"ok", "error"}
      PROVE  LET z == [job |-> Job, is |-> result] IN z \in Results /\ z.job = Job /\ z.is = result
  BY <1>2 DEF Results
<1>6. CASE Exchange
  <2>1. /\ Job.do \in {"apply", "restore"} /\ Disk' = Disk
    BY <1>6 DEF Exchange, store, Disk
  <2>2. /\ IsApply(Job) => Job.request \in Requests
        /\ Job.request \in Requests \cup {NoRequest}
    BY <1>2, <2>1 DEF Jobs, Applies, Restores, Saves, Panels, States, Seeds, IsApply
  <2>3. CASE Job.request = NoRequest
    <3>1. ~IsApply(Job) /\ ~IsSave(Job)
      BY <2>1, <2>2, <2>3, ProfilesAssumption DEF Requests, NoRequest, Ids, IsSave
    <3>2. answers' = Append(answers, [job |-> Job, is |-> "ok"]) /\ World' = World
          /\ UNCHANGED <<applied, late, trust>>
      BY <1>3, <1>6, <2>1, <2>3, <3>1 DEF Exchange, Answer, World, IsApply
    <3>3. Fine(gui', answers', World', Disk')
      BY <1>1, <1>2, <1>5, <2>1, <3>1, <3>2, PopKeeps
    <3>4. ProfilesTypes'
      BY <1>1, <1>3, <3>2 DEF ProfilesTypes
    <3> QED BY <3>3, <3>4 DEF ProfilesInv
  <2>4. CASE Job.request # NoRequest
    <3>1. \/ applied' = Job.request /\ late' = << >> /\ trust' = "content" /\ Answer("ok")
          \/ Answer("error") /\ UNCHANGED <<applied, late>>
               /\ trust' = (IF Job.do = "apply" THEN None ELSE trust)
          \/ Answer("error") /\ UNCHANGED applied /\ late' = Append(late, Job.request)
               /\ trust' = None
      BY <1>6, <2>4 DEF Exchange
    <3>2. CASE applied' = Job.request /\ late' = << >> /\ trust' = "content" /\ Answer("ok")
      <4>1. answers' = Append(answers, [job |-> Job, is |-> "ok"])
            /\ World'.trust = "content" /\ World'.applied = Job.request
        BY <3>2 DEF Answer, World
      <4>2. ProfilesTypes'
        BY <1>1, <1>3, <2>2, <3>2 DEF ProfilesTypes
      <4>3. CASE IsApply(Job)
        <5>1. Fine(gui', answers', World', Disk')
          BY <1>1, <1>2, <1>5, <2>1, <4>1, <4>3, ApplyRan
        <5> QED BY <4>2, <5>1 DEF ProfilesInv
      <4>4. CASE ~IsApply(Job)
        <5>1. Real(Job)
          BY <2>1, <2>4, <4>4 DEF Real, IsApply
        <5>2. Fine(gui', answers', World', Disk')
          BY <1>1, <1>2, <1>5, <2>1, <4>1, <5>1, RestoreRan
        <5> QED BY <4>2, <5>2 DEF ProfilesInv
      <4> QED BY <4>3, <4>4
    <3>3. CASE Answer("error") /\ trust' = None /\ applied' = applied
               /\ (late' = late \/ late' = Append(late, Job.request))
      <4>1. answers' = Append(answers, [job |-> Job, is |-> "error"]) /\ World'.trust = None
        BY <3>3 DEF Answer, World
      <4>2. late' \in Seq(Requests)
        BY <1>1, <2>2, <2>4, <3>3 DEF ProfilesTypes
      <4>3. ProfilesTypes'
        BY <1>1, <1>3, <3>3, <4>2 DEF ProfilesTypes
      <4>4. Fine(gui', answers', World', Disk')
        BY <1>1, <1>2, <1>5, <2>1, <4>1, PopUntrusted
      <4> QED BY <4>3, <4>4 DEF ProfilesInv
    <3>4. CASE Answer("error") /\ UNCHANGED <<applied, late, trust>> /\ ~IsApply(Job)
      <4>1. answers' = Append(answers, [job |-> Job, is |-> "error"]) /\ World' = World
        BY <1>3, <3>4 DEF Answer, World
      <4>2. ProfilesTypes'
        BY <1>1, <1>3, <3>4 DEF ProfilesTypes
      <4>3. ~IsSave(Job)
        BY <2>1 DEF IsSave
      <4>4. Fine(gui', answers', World', Disk')
        BY <1>1, <1>2, <1>5, <2>1, <3>4, <4>1, <4>3, PopKeeps
      <4> QED BY <4>2, <4>4 DEF ProfilesInv
    <3> QED BY <3>1, <3>2, <3>3, <3>4 DEF IsApply
  <2> QED BY <2>3, <2>4
<1>7. CASE Save
  <2>1. /\ Job.do = "save" /\ answers' = answers /\ World' = World
        /\ saved' => file' = Job.config
        /\ UNCHANGED <<applied, late, trust>>
    BY <1>7 DEF Save, Working, World, daemon
  <2>2. IsSave(Job) /\ ~IsApply(Job) /\ (Disk'.saved => Disk'.file = Job.config)
    BY <2>1 DEF IsSave, IsApply, Disk
  <2>3. Fine(gui', answers', World', Disk')
    BY <1>1, <1>2, <2>1, <2>2, PopKeeps
  <2>4. ProfilesTypes'
    BY <1>1, <1>3, <2>1 DEF ProfilesTypes
  <2> QED BY <2>3, <2>4 DEF ProfilesInv
<1>8. CASE SetPanel
  <2>1. /\ Job.do = "panel" /\ answers' = answers /\ World' = World /\ Disk' = Disk
        /\ UNCHANGED <<applied, late, trust>>
    BY <1>8 DEF SetPanel, Working, World, Disk, store
  <2>2. ~IsSave(Job) /\ ~IsApply(Job)
    BY <2>1 DEF IsSave, IsApply
  <2>3. Fine(gui', answers', World', Disk')
    BY <1>1, <1>2, <2>1, <2>2, PopKeeps
  <2>4. ProfilesTypes'
    BY <1>1, <1>3, <2>1 DEF ProfilesTypes
  <2> QED BY <2>3, <2>4 DEF ProfilesInv
<1>9. CASE GetState
  <2> DEFINE z == [job |-> Job, is |-> "ok", label |-> Label(applied.content)]
  <2>1. /\ Job.do = "state" /\ Disk' = Disk /\ UNCHANGED <<applied, late>>
        /\ \/ /\ answers' = Append(answers, z)
              /\ trust' = (IF trust = None /\ late = << >> THEN "label" ELSE trust)
           \/ answers' = Append(answers, [job |-> Job, is |-> "error"]) /\ trust' = trust
    BY <1>9 DEF GetState, Working, Disk, store, daemon
  <2>2. ~IsSave(Job) /\ ~IsApply(Job) /\ Job \in States
    BY <1>2, <2>1 DEF IsSave, IsApply, Jobs, Applies, Restores, Saves, Panels, States, Seeds
  <2>3. z \in Results /\ z.job = Job /\ z.is = "ok" /\ z.label = Label(World.applied.content)
    <3>1. Label(applied.content) \in Builtins \cup {None, "custom"}
      BY <1>1 DEF Label, Requests, NoRequest, Stock, ProfileContents
    <3> QED BY <2>2, <3>1 DEF Results, World
  <2> HIDE DEF z
  <2>4. ProfilesTypes'
    BY <1>1, <1>3, <2>1 DEF ProfilesTypes
  <2>5. CASE answers' = Append(answers, z) /\ trust = None /\ trust' = "label"
    <3>1. World'.trust = "label" /\ World'.applied = World.applied
      BY <2>1, <2>5 DEF World
    <3>2. Fine(gui', answers', World', Disk')
      BY <1>1, <1>2, <2>1, <2>3, <2>5, <3>1, StateRead
    <3> QED BY <2>4, <3>2 DEF ProfilesInv
  <2>6. CASE trust' = trust /\ answers' \in {Append(answers, z),
                                            Append(answers, [job |-> Job, is |-> "error"])}
    <3>1. World' = World
      BY <1>3, <2>1, <2>6 DEF World
    <3>2. Fine(gui', answers', World', Disk')
      BY <1>1, <1>2, <1>5, <2>1, <2>2, <2>3, <2>6, <3>1, PopKeeps
    <3> QED BY <2>4, <3>2 DEF ProfilesInv
  <2> QED BY <2>1, <2>5, <2>6
<1>10. CASE ReadCurves
  <2>1. /\ Job.do = "seed" /\ World' = World /\ Disk' = Disk
        /\ UNCHANGED <<applied, late, trust>>
        /\ \E result \in {"ok", "error"} : answers' = Append(answers, [job |-> Job, is |-> result])
    BY <1>10 DEF ReadCurves, Working, Answer, World, Disk, store, daemon
  <2>2. ~IsSave(Job) /\ ~IsApply(Job)
    BY <2>1 DEF IsSave, IsApply
  <2>3. Fine(gui', answers', World', Disk')
    BY <1>1, <1>2, <1>5, <2>1, <2>2, PopKeeps
  <2>4. ProfilesTypes'
    BY <1>1, <1>3, <2>1 DEF ProfilesTypes
  <2> QED BY <2>3, <2>4 DEF ProfilesInv
<1> QED BY <1>6, <1>7, <1>8, <1>9, <1>10 DEF Worker

(* Nothing is known of the daemon any more. *)
LEMMA UntrustedKeeps ==
  ASSUME NEW g, NEW a, NEW w, NEW d, Fine(g, a, w, d),
         NEW v, v.trust = None
  PROVE  Fine(g, a, v, d)
<1>1. Shape(g, a) /\ NotAhead(g) /\ RestoresFirst(g) /\ ApplyFits(g, w)
  BY DEF Fine, Due
<1>2. ApplyFits(g, v)
  <2>1. \A r : Fits(g, r, w) => Fits(g, r, v)
    BY DEF Fits, OverrideDue
  <2> QED BY <1>1, <2>1 DEF ApplyFits
<1>3. \A k : Followed(g, a, v, k)
  BY DEF Followed
<1>4. Storing(g, a, v, d)
  BY ProfilesAssumption DEF Storing, None
<1> QED BY <1>1, <1>2, <1>3, <1>4 DEF Fine, Due

LEMMA DaemonStep ==
  ASSUME ProfilesInv, RunLate \/ DaemonForgets
  PROVE  ProfilesInv'
<1>1. /\ ProfilesTypes /\ Fine(gui, answers, World, Disk)
      /\ applied \in Requests \cup {NoRequest} /\ late \in Seq(Requests)
      /\ late # << >> => trust = None
  BY DEF ProfilesInv, ProfilesTypes
<1>2. /\ gui' = gui /\ answers' = answers /\ Disk' = Disk
      /\ UNCHANGED <<source, observed, debounce, made>>
  BY DEF RunLate, DaemonForgets, Disk, store, power
<1>3. /\ applied' \in Requests \cup {NoRequest} /\ late' \in Seq(Requests) /\ trust' = None
  <2>1. CASE RunLate
    <3>1. Head(late) \in Requests /\ Tail(late) \in Seq(Requests) /\ trust = None
      BY <1>1, <2>1 DEF RunLate
    <3> QED BY <1>1, <2>1, <3>1 DEF RunLate
  <2>2. CASE DaemonForgets
    BY <2>2 DEF DaemonForgets
  <2> QED BY <2>1, <2>2
<1>4. World'.trust = None
  BY <1>2, <1>3 DEF World
<1>5. Fine(gui', answers', World', Disk')
  BY <1>1, <1>2, <1>4, UntrustedKeeps
<1>6. ProfilesTypes'
  BY <1>1, <1>2, <1>3 DEF ProfilesTypes
<1> QED BY <1>5, <1>6 DEF ProfilesInv

(* The power source. *)
LEMMA ConfirmedKeeps ==
  ASSUME Fine(gui, answers, World, Disk), NEW on \in Sources, Confirmed(on)
  PROVE  Fine(gui', answers, World, Disk) /\ source' = on
<1> DEFINE g == PanelPolicy(gui, on)
           id == g.config.remembered[on]
<1>1. Fine(g, answers, World, Disk)
  BY PanelKeeps
<1>2. /\ source' = on
      /\ gui' \in {Push(g, [do |-> "state"]), SelectProfile(g, id, on)}
  BY DEF Confirmed
<1> HIDE DEF g
<1>3. Fine(Push(g, [do |-> "state"]), answers, World, Disk)
  BY <1>1, PanelKeeps
<1>4. Fine(SelectProfile(g, id, on), answers, World, Disk)
  BY <1>1, SelectKeeps
<1> QED BY <1>2, <1>3, <1>4

LEMMA PowerStep ==
  ASSUME ProfilesInv, Watch \/ Observe \/ Timer \/ Resume
  PROVE  ProfilesInv'
<1>1. /\ ProfilesTypes /\ Fine(gui, answers, World, Disk)
      /\ source \in Sources /\ observed \in Sources \cup {Unknown, None}
      /\ debounce.pending \in Sources \cup {None}
  BY DEF ProfilesInv, ProfilesTypes
<1>2. /\ answers' = answers /\ World' = World /\ Disk' = Disk
      /\ UNCHANGED <<applied, late, trust, made>>
  BY DEF Watch, Observe, Timer, Resume, World, Disk, store, daemon
<1>3. ASSUME Fine(gui', answers, World, Disk), source' \in Sources,
             observed' \in Sources \cup {Unknown, None},
             debounce'.pending \in Sources \cup {None}
      PROVE  ProfilesInv'
  <2>1. Fine(gui', answers', World', Disk')
    BY <1>2, <1>3
  <2>2. ProfilesTypes'
    BY <1>1, <1>2, <1>3 DEF ProfilesTypes
  <2> QED BY <2>1, <2>2 DEF ProfilesInv
<1>4. CASE Watch
  BY <1>1, <1>3, <1>4 DEF Watch
<1>5. CASE Observe
  <2>1. observed # None /\ observed' = None
    BY <1>5 DEF Observe
  <2>2. CASE Confirm(observed) /\ observed # Unknown
    <3>1. observed \in Sources /\ Confirmed(observed) /\ debounce'.pending = None
      BY <1>1, <2>1, <2>2 DEF Confirm
    <3>2. Fine(gui', answers, World, Disk) /\ source' = observed
      BY <1>1, <3>1, ConfirmedKeeps
    <3> QED BY <1>3, <2>1, <3>1, <3>2
  <2>3. CASE observed = Unknown
    <3>1. /\ gui' = gui /\ source' = source
          /\ debounce' = IF debounce.pending = None THEN debounce
                         ELSE [debounce EXCEPT !.pending = None, !.generation = @ + 1]
      BY <1>5, <2>3 DEF Observe
    <3>2. debounce'.pending \in {debounce.pending, None}
      BY <3>1
    <3> QED BY <1>1, <1>3, <2>1, <3>1, <3>2
  <2>4. CASE observed # Unknown /\ observed = debounce.confirmed
    <3>1. gui' = gui /\ source' = observed /\ debounce' = [debounce EXCEPT !.pending = None]
      BY <1>5, <2>4 DEF Observe
    <3> QED BY <1>1, <1>3, <2>1, <2>4, <3>1
  <2>5. CASE observed # Unknown /\ observed # debounce.confirmed
    <3>1. \/ Confirm(observed)
          \/ Wait(debounce) /\ source' = observed
          \/ Wait([debounce EXCEPT !.pending = observed, !.generation = @ + 1])
               /\ source' = observed
      BY <1>5, <2>5 DEF Observe
    <3>2. CASE Wait(debounce) /\ source' = observed
      BY <1>1, <1>3, <2>1, <2>5, <3>2 DEF Wait
    <3>3. CASE Wait([debounce EXCEPT !.pending = observed, !.generation = @ + 1])
                 /\ source' = observed
      BY <1>1, <1>3, <2>1, <2>5, <3>3 DEF Wait
    <3> QED BY <2>2, <2>5, <3>1, <3>2, <3>3
  <2> QED BY <2>3, <2>4, <2>5
<1>6. CASE Timer
  <2>1. observed' = observed
    BY <1>6 DEF Timer
  <2>2. \/ /\ debounce.pending # None /\ Confirmed(debounce.pending)
           /\ debounce' = [debounce EXCEPT !.pending = None, !.confirmed = debounce.pending]
        \/ UNCHANGED <<gui, debounce, source>>
    BY <1>6 DEF Timer
  <2>3. CASE /\ debounce.pending # None /\ Confirmed(debounce.pending)
             /\ debounce' = [debounce EXCEPT !.pending = None, !.confirmed = debounce.pending]
    <3>1. Fine(gui', answers, World, Disk) /\ source' = debounce.pending
      BY <1>1, <2>3, ConfirmedKeeps
    <3> QED BY <1>1, <1>3, <2>1, <2>3, <3>1
  <2>4. CASE UNCHANGED <<gui, debounce, source>>
    BY <1>1, <1>3, <2>1, <2>4
  <2> QED BY <2>2, <2>3, <2>4
<1>7. CASE Resume
  <2>1. PICK value \in Sources : /\ debounce' = [pending |-> None, generation |-> debounce.generation + 1,
                                                 confirmed |-> value]
                                 /\ Confirmed(value)
    BY <1>7 DEF Resume
  <2>2. Fine(gui', answers, World, Disk) /\ source' = value
    BY <1>1, <2>1, ConfirmedKeeps
  <2> QED BY <1>1, <1>3, <1>7, <2>1, <2>2 DEF Resume
<1> QED BY <1>4, <1>5, <1>6, <1>7

----------------------------------------------------------------------------
(* The GTK thread takes the first answer. *)

LEMMA TailShape ==
  ASSUME NEW g, NEW a, Shape(g, a), a # << >>
  PROVE  /\ ~IsApply(a[1].job) => Shape(g, Tail(a))
         /\ a[1] \in Results /\ Head(a) = a[1] /\ 1 \in DOMAIN a
<1>1. /\ Tail(a) \in Seq(Results) /\ Head(a) = a[1] /\ a[1] \in Results /\ 1 \in DOMAIN a
      /\ DOMAIN a \subseteq Nat /\ DOMAIN Tail(a) \subseteq Nat
      /\ \A i \in DOMAIN Tail(a) : i >= 1 /\ i + 1 \in DOMAIN a /\ Tail(a)[i] = a[i + 1]
  BY TailFacts DEF Shape
<1>2. \A i, j \in DOMAIN Tail(a) : i + 1 = j + 1 => i = j
  BY <1>1
<1>3. OneApply(g, a) /\ GuiTypes(g)
  BY DEF Shape
<1>4. OneApply(g, Tail(a))
  <2> DEFINE b == Tail(a)
  <2>1. \A i \in DOMAIN b : i + 1 \in DOMAIN a /\ b[i] = a[i + 1]
    BY <1>1
  <2>2. \A i, j \in DOMAIN b : i + 1 = j + 1 => i = j
    BY <1>2
  <2> HIDE DEF b
  <2>3. OneApply(g, b)
    BY <1>3, <2>1, <2>2 DEF OneApply
  <2> QED BY <2>3 DEF b
<1> QED BY <1>1, <1>3, <1>4 DEF Shape

LEMMA TailShift ==
  ASSUME NEW g, NEW a \in Seq(Results), a # << >>, NEW k \in Nat
  PROVE  /\ Restoring(g, a, k + 1) => Restoring(g, Tail(a), k)
         /\ \A w : Reading(a, k + 1, w) => Reading(Tail(a), k, w)
         /\ \A w : Followed(g, a, w, k + 1) => Followed(g, Tail(a), w, k)
         /\ \A d : SaveDue(g, a, d, k + 1) => SaveDue(g, Tail(a), d, k)
<1> DEFINE b == Tail(a)
<1>1. /\ DOMAIN a \subseteq Nat
      /\ \A i \in DOMAIN a : i >= 1 /\ (i # 1 => i - 1 \in DOMAIN b /\ b[i - 1] = a[i])
  BY TailFacts
<1> HIDE DEF b
<1>2. \A j \in DOMAIN a : j > k + 1 => j - 1 \in DOMAIN b /\ b[j - 1] = a[j] /\ j - 1 > k
  BY <1>1
<1>3. Restoring(g, a, k + 1) => Restoring(g, b, k)
  BY <1>2 DEF Restoring
<1>4. \A w : Reading(a, k + 1, w) => Reading(b, k, w)
  BY <1>2 DEF Reading
<1>5. \A w : Followed(g, a, w, k + 1) => Followed(g, b, w, k)
  BY <1>3, <1>4 DEF Followed
<1>6. \A d : SaveDue(g, a, d, k + 1) => SaveDue(g, b, d, k)
  BY <1>3 DEF SaveDue
<1> QED BY <1>3, <1>4, <1>5, <1>6 DEF b

(* An answer that is not the one that is relied upon. *)
LEMMA TailKeeps ==
  ASSUME NEW g, NEW a, NEW w, NEW d, Fine(g, a, w, d), a # << >>, ~IsApply(a[1].job),
         g.applying = NoToken => Followed(g, a, w, 1),
         g.applying = NoToken /\ w.trust = "content" => SaveDue(g, a, d, 1)
  PROVE  Fine(g, Tail(a), w, d)
<1> DEFINE b == Tail(a)
<1>1. /\ a \in Seq(Results) /\ Shape(g, b)
      /\ \A k \in DOMAIN b : k \in Nat /\ k + 1 \in DOMAIN a /\ b[k] = a[k + 1]
  BY TailShape, TailFacts DEF Fine, Shape
<1>2. /\ \A k \in Nat : Followed(g, a, w, k + 1) => Followed(g, b, w, k)
      /\ \A k \in Nat : SaveDue(g, a, d, k + 1) => SaveDue(g, b, d, k)
  BY <1>1, TailShift
<1> HIDE DEF b
<1>3. /\ Followed(g, a, w, 1) => Followed(g, b, w, 0)
      /\ SaveDue(g, a, d, 1) => SaveDue(g, b, d, 0)
  BY <1>2
<1>4. Due(g, b, w)
  BY <1>1, <1>2, <1>3 DEF Due, Fine
<1>5. Storing(g, b, w, d)
  BY <1>1, <1>2, <1>3 DEF Storing, Fine
<1>6. Fine(g, b, w, d)
  BY <1>1, <1>4, <1>5 DEF Fine
<1> QED BY <1>6 DEF b

LEMMA NotTheRestore ==
  ASSUME NEW g, NEW a \in Seq(Results), a # << >>,
         ~(Real(a[1].job) /\ a[1].is = "ok" /\ a[1].job.token.id = g.config.active)
  PROVE  /\ Restoring(g, a, 0) => Restoring(g, a, 1)
         /\ \A d : SaveDue(g, a, d, 0) => SaveDue(g, a, d, 1)
         /\ \A w : Followed(g, a, w, 0) /\ (Reading(a, 0, w) => SameProfile(g, w) \/ Reading(a, 1, w))
                     => Followed(g, a, w, 1)
<1>1. \A j \in DOMAIN a : j = 1 \/ j > 1
  BY TailFacts
<1>2. Restoring(g, a, 0) => Restoring(g, a, 1)
  BY <1>1 DEF Restoring
<1>3. \A d : SaveDue(g, a, d, 0) => SaveDue(g, a, d, 1)
  BY <1>2 DEF SaveDue
<1>4. \A w : Followed(g, a, w, 0) /\ (Reading(a, 0, w) => SameProfile(g, w) \/ Reading(a, 1, w))
               => Followed(g, a, w, 1)
  BY <1>2 DEF Followed
<1> QED BY <1>2, <1>3, <1>4

LEMMA NotTheReading ==
  ASSUME NEW a \in Seq(Results), a # << >>, NEW w,
         ~(a[1].job.do = "state" /\ a[1].is = "ok" /\ a[1].label = Label(w.applied.content))
  PROVE  Reading(a, 0, w) => Reading(a, 1, w)
<1>1. \A j \in DOMAIN a : j = 1 \/ j > 1
  BY TailFacts
<1> QED BY <1>1 DEF Reading

(* Any answer that neither of the two applies to. *)
LEMMA TailIdle ==
  ASSUME NEW g, NEW a, NEW w, NEW d, Fine(g, a, w, d), a # << >>, ~IsApply(a[1].job),
         ~(Real(a[1].job) /\ a[1].is = "ok" /\ a[1].job.token.id = g.config.active),
         \/ SameProfile(g, w) \/ w.trust # "label"
         \/ ~(a[1].job.do = "state" /\ a[1].is = "ok" /\ a[1].label = Label(w.applied.content))
  PROVE  Fine(g, Tail(a), w, d)
<1>1. a \in Seq(Results)
  BY DEF Fine, Shape
<1>2. Reading(a, 0, w) => SameProfile(g, w) \/ Reading(a, 1, w)
  <2>1. CASE SameProfile(g, w)
    BY <2>1
  <2>2. CASE w.trust # "label"
    BY <2>2 DEF Reading
  <2>3. CASE ~(a[1].job.do = "state" /\ a[1].is = "ok" /\ a[1].label = Label(w.applied.content))
    BY <1>1, <2>3, NotTheReading
  <2> QED BY <2>1, <2>2, <2>3
<1>3. /\ Followed(g, a, w, 0) => Followed(g, a, w, 1)
      /\ SaveDue(g, a, d, 0) => SaveDue(g, a, d, 1)
  BY <1>1, <1>2, NotTheRestore
<1>4. /\ g.applying = NoToken => Followed(g, a, w, 1)
      /\ g.applying = NoToken /\ w.trust = "content" => SaveDue(g, a, d, 1)
  BY <1>3 DEF Fine, Due, Storing
<1> QED BY <1>4, TailKeeps

LEMMA StateDoneKeeps ==
  ASSUME NEW g, NEW a, NEW w, NEW d, Fine(g, a, w, d), a # << >>, a[1].job.do = "state",
         source \in Sources
  PROVE  Fine(IF a[1].is = "ok" /\ a[1].label # Label(g.config.profiles[g.config.active])
              THEN ApplyActive(g) ELSE g, Tail(a), w, d)
<1>1. ~IsApply(a[1].job) /\ ~Real(a[1].job)
  BY DEF IsApply, Real
<1>2. Shape(g, Tail(a))
  BY <1>1, TailShape DEF Fine
<1>3. CASE a[1].is = "ok" /\ a[1].label # Label(g.config.profiles[g.config.active])
  BY <1>2, <1>3, ApplySettles
<1>4. CASE ~(a[1].is = "ok" /\ a[1].label # Label(g.config.profiles[g.config.active]))
  <2>1. \/ SameProfile(g, w) \/ w.trust # "label"
        \/ ~(a[1].job.do = "state" /\ a[1].is = "ok" /\ a[1].label = Label(w.applied.content))
    BY <1>4 DEF SameProfile, Active
  <2>2. Fine(g, Tail(a), w, d)
    BY <1>1, <2>1, TailIdle
  <2> QED BY <1>4, <2>2
<1> QED BY <1>3, <1>4

(* The revisions of the profiles that get the firmware's curves. *)
Seeded(g, fresh) ==
  [g EXCEPT !.revision = [id \in DOMAIN @ |-> IF id \in fresh THEN @[id] + 1 ELSE @[id]]]

LEMMA SeedDoneKeeps ==
  ASSUME NEW g, NEW a, NEW w, NEW d, Fine(g, a, w, d), a # << >>, a[1].job.do = "seed",
         source \in Sources, NEW fresh \in SUBSET Builtins
  PROVE  LET seeded == Seeded(g, fresh)
             s == IF fresh = {} THEN seeded ELSE SaveConfig(seeded)
         IN Fine(IF a[1].is = "ok" /\ s.config.active \in Builtins THEN ApplyActive(s)
                 ELSE IF a[1].is = "ok" THEN s ELSE g, Tail(a), w, d)
<1> DEFINE r == [id \in DOMAIN g.revision |-> IF id \in fresh THEN g.revision[id] + 1
                                                              ELSE g.revision[id]]
           h == [g EXCEPT !.revision = r]
           s == IF fresh = {} THEN h ELSE SaveConfig(h)
           b == Tail(a)
<1>1. ~IsApply(a[1].job) /\ ~Real(a[1].job) /\ a[1].job.do # "state"
  BY DEF IsApply, Real
<1>2. Fine(g, b, w, d)
  BY <1>1, TailIdle
<1>3. /\ GuiTypes(g) /\ g \in GuiRecords /\ g.revision \in [DOMAIN g.revision -> Nat]
      /\ DOMAIN g.revision \subseteq Ids /\ g.config.active \in DOMAIN g.revision
  BY <1>2, GuiFacts DEF Fine, Shape, GuiTypes
<1>4. /\ r \in [DOMAIN g.revision -> Nat] /\ DOMAIN r = DOMAIN g.revision
      /\ g.revision[g.config.active] <= r[g.config.active]
      /\ fresh = {} => r = g.revision
  BY <1>3
<1> HIDE DEF r, b
<1>5. r \in Partial(Nat)
  BY <1>3, <1>4, IsPartial
<1>6. /\ h \in GuiRecords /\ h.config = g.config /\ h.revision = r /\ h.editing = g.editing
      /\ h.jobs = g.jobs /\ h.applying = g.applying /\ h.pending = g.pending
      /\ h.scheduled = g.scheduled /\ h.displaced = g.displaced
  BY <1>3, <1>5 DEF GuiRecords
<1> HIDE DEF h
<1>7. GuiTypes(h)
  BY <1>3, <1>4, <1>6, SameConfigTypes DEF GuiTypes
<1>8. /\ ProfileDue(h) = ProfileDue(g) /\ OverrideDue(h) = OverrideDue(g)
      /\ Active(h) = Active(g)
  BY <1>6 DEF ProfileDue, OverrideDue, Active
<1>9. Carries(g, w, h, w)
  BY <1>4, <1>6, <1>8 DEF Carries
<1>10. Fine(s, b, w, d)
  <2>1. Fine(h, b, w, d)
    BY <1>2, <1>6, <1>7, <1>9, CarriesFine
  <2>2. Fine(SaveConfig(h), b, w, d)
    BY <1>2, <1>7, <1>9, CarriesSaved
  <2> QED BY <2>1, <2>2
<1> HIDE DEF s
<1>11. Fine(ApplyActive(s), b, w, d)
  BY <1>10, ApplySettles DEF Fine
<1>12. Fine(IF a[1].is = "ok" /\ s.config.active \in Builtins THEN ApplyActive(s)
            ELSE IF a[1].is = "ok" THEN s ELSE g, b, w, d)
  BY <1>2, <1>10, <1>11
<1>13. Seeded(g, fresh) = h
  BY DEF Seeded, h, r
<1> QED BY <1>12, <1>13 DEF s, b

LEMMA RestoreDoneKeeps ==
  ASSUME NEW g, NEW a, NEW w, NEW d, Fine(g, a, w, d), a # << >>, a[1].job.do = "restore",
         source \in Sources
  PROVE  LET token == a[1].job.token
             replaced == IF IsCurrentOperation(g, token)
                         THEN SaveConfig(EditProfile(g, token.id, a[1].job.stock)) ELSE g
         IN Fine(IF a[1].is # "ok" THEN g
                 ELSE IF replaced.config.active = token.id THEN ApplyActive(replaced)
                 ELSE replaced, Tail(a), w, d)
<1> DEFINE job == a[1].job
           token == job.token
           h == EditProfile(g, token.id, job.stock)
           replaced == IF IsCurrentOperation(g, token) THEN SaveConfig(h) ELSE g
           b == Tail(a)
<1>1. ~IsApply(job) /\ job.do # "state"
  BY DEF IsApply
<1>2. Shape(g, b) /\ a[1] \in Results
  BY <1>1, TailShape DEF Fine
<1>3. job \in Restores
  <2>1. job \in Jobs
    BY <1>2 DEF Results, Jobs
  <2> QED BY <2>1 DEF Jobs, Applies, Saves, Panels, States, Seeds
<1>4. job.stock \in ProfileContents
  BY <1>3 DEF Restores
<1>5. CASE a[1].is # "ok"
  <2>1. Fine(g, b, w, d)
    BY <1>1, <1>5, TailIdle
  <2> QED BY <1>5, <2>1
<1>6. CASE a[1].is = "ok"
  <2>1. ASSUME IsCurrentOperation(g, token)
        PROVE  /\ GuiTypes(h) /\ h.config.active = g.config.active
               /\ h.config.override = g.config.override
               /\ h.jobs = g.jobs /\ h.applying = g.applying /\ h.pending = g.pending
               /\ h.scheduled = g.scheduled
               /\ h.displaced = g.displaced /\ h.editing = g.editing
               /\ g.revision[g.config.active] <= h.revision[g.config.active]
               /\ token.id # g.config.active => Active(h) = Active(g)
               /\ Shape(h, b)
    <3>1. GuiTypes(g) /\ token.id \in DOMAIN g.config.profiles
      BY <1>2, <2>1 DEF Shape, IsCurrentOperation, Known
    <3>2. /\ GuiTypes(h) /\ h.config.active = g.config.active
          /\ h.config.override = g.config.override
          /\ h.jobs = g.jobs /\ h.applying = g.applying /\ h.pending = g.pending
          /\ h.scheduled = g.scheduled /\ h.displaced = g.displaced /\ h.editing = g.editing
          /\ g.revision[g.config.active] <= h.revision[g.config.active]
          /\ token.id # g.config.active => Active(h) = Active(g)
      BY <1>4, <3>1, EditTypes
    <3> HIDE DEF h, b
    <3>3. Shape(h, b)
      BY <1>2, <3>2 DEF Shape, OneApply
    <3> QED BY <3>2, <3>3
  <2> HIDE DEF h
  <2>2. Shape(replaced, b) /\ replaced.config.active = g.config.active
    <3>1. ASSUME IsCurrentOperation(g, token)
          PROVE  Shape(SaveConfig(h), b) /\ SaveConfig(h).config = h.config
      BY <2>1, <3>1, SaveConfigKeeps
    <3> QED BY <1>2, <2>1, <3>1
  <2>3. CASE g.config.active = token.id
    <3>1. Fine(ApplyActive(replaced), b, w, d)
      BY <2>2, ApplySettles
    <3> QED BY <1>6, <2>2, <2>3, <3>1 DEF h
  <2>4. CASE g.config.active # token.id
    <3>1. Fine(g, b, w, d)
      BY <1>1, <2>4, TailIdle
    <3>2. ASSUME IsCurrentOperation(g, token) PROVE Fine(SaveConfig(h), b, w, d)
      <4>1. ProfileDue(h) = ProfileDue(g) /\ OverrideDue(h) = OverrideDue(g)
        BY <2>1, <3>2 DEF ProfileDue, OverrideDue
      <4>2. Carries(g, w, h, w)
        BY <2>1, <2>4, <3>2, <4>1 DEF Carries
      <4> QED BY <2>1, <3>1, <3>2, <4>2, CarriesSaved
    <3>3. Fine(replaced, b, w, d)
      BY <3>1, <3>2
    <3> QED BY <1>6, <2>2, <2>4, <3>3 DEF h
  <2> QED BY <2>3, <2>4
<1> QED BY <1>5, <1>6

(* complete_apply *)
LEMMA CompletedTypes ==
  ASSUME NEW g, GuiTypes(g), NEW next \in Tokens \cup {NoToken}
  PROVE  LET h == [[g EXCEPT !.applying = NoToken, !.pending = FALSE] EXCEPT !.applying = next]
         IN /\ GuiTypes(h) /\ h.config = g.config /\ h.revision = g.revision
            /\ h.applying = next /\ h.pending = FALSE /\ h.jobs = g.jobs
            /\ h.scheduled = g.scheduled
            /\ h.displaced = g.displaced /\ h.editing = g.editing
<1> DEFINE h == [[g EXCEPT !.applying = NoToken, !.pending = FALSE] EXCEPT !.applying = next]
<1>1. /\ h \in GuiRecords /\ h.config = g.config /\ h.revision = g.revision
      /\ h.applying = next /\ h.pending = FALSE /\ h.jobs = g.jobs
      /\ h.scheduled = g.scheduled /\ h.displaced = g.displaced /\ h.editing = g.editing
  BY DEF GuiTypes, GuiRecords
<1> HIDE DEF h
<1>2. GuiTypes(h)
  BY <1>1, SameConfigTypes DEF GuiTypes
<1> QED BY <1>1, <1>2 DEF h

Remembering(g, on, id) == [g EXCEPT !.config.remembered[on] = id]

LEMMA RememberTypes ==
  ASSUME NEW g, GuiTypes(g), NEW on \in Sources, NEW id \in DOMAIN g.config.profiles
  PROVE  LET h == Remembering(g, on, id)
         IN /\ GuiTypes(h) /\ h.config.active = g.config.active
            /\ h.config.profiles = g.config.profiles /\ h.config.override = g.config.override
            /\ h.revision = g.revision /\ h.applying = g.applying /\ h.pending = g.pending
            /\ h.jobs = g.jobs /\ h.scheduled = g.scheduled
            /\ h.displaced = g.displaced /\ h.editing = g.editing
<1> DEFINE m == [g.config.remembered EXCEPT ![on] = id]
           c == [g.config EXCEPT !.remembered = m]
           h == [g EXCEPT !.config = c]
<1>1. /\ g \in GuiRecords /\ g.config \in Configs /\ id \in Ids
      /\ g.config.remembered \in [Sources -> Ids]
      /\ \A s \in Sources : g.config.remembered[s] \in DOMAIN g.config.profiles
  BY GuiFacts DEF GuiTypes
<1>2. m \in [Sources -> Ids] /\ \A s \in Sources : m[s] \in DOMAIN g.config.profiles
  BY <1>1
<1> HIDE DEF m
<1>3. /\ c \in Configs /\ c.active = g.config.active /\ c.profiles = g.config.profiles
      /\ c.override = g.config.override /\ c.remembered = m
  BY <1>1, <1>2 DEF Configs
<1> HIDE DEF c
<1>4. /\ h \in GuiRecords /\ h.config = c
      /\ h.revision = g.revision /\ h.applying = g.applying /\ h.pending = g.pending
      /\ h.jobs = g.jobs /\ h.scheduled = g.scheduled
      /\ h.displaced = g.displaced /\ h.editing = g.editing
  BY <1>1, <1>3 DEF GuiRecords
<1> HIDE DEF h
<1>5. GuiTypes(h)
  BY <1>2, <1>3, <1>4 DEF GuiTypes
<1>6. Remembering(g, on, id) = h
  BY DEF Remembering, h, c, m
<1> QED BY <1>3, <1>4, <1>5, <1>6

LEMMA ApplyDoneKeeps ==
  ASSUME NEW g, NEW a, NEW w, NEW d, Fine(g, a, w, d), a # << >>, IsApply(a[1].job),
         NEW on \in Sources
  PROVE  LET token == a[1].job.token
             done == Completion(g, token, on)
             next == IF done.again THEN NewApplyToken(done.gui, on) ELSE NoToken
             settled == [done.gui EXCEPT !.applying = next]
             noted == IF a[1].is = "ok" /\ done.current
                     THEN SaveConfig([settled EXCEPT !.config.remembered[on] = token.id])
                     ELSE settled
         IN Fine(IF done.again THEN StartApply(noted, next) ELSE noted, Tail(a), w, d)
<1> DEFINE token == a[1].job.token
           latest == IsCurrentApply(g, token, on)
           again == g.pending \/ ~latest
           idle == [g EXCEPT !.applying = NoToken, !.pending = FALSE]
           next == IF again THEN NewApplyToken(idle, on) ELSE NoToken
           settled == [idle EXCEPT !.applying = next]
           marked == Remembering(settled, on, token.id)
           noted == IF a[1].is = "ok" /\ latest THEN SaveConfig(marked) ELSE settled
           b == Tail(a)
<1>1. /\ Shape(g, a) /\ GuiTypes(g) /\ a \in Seq(Results) /\ OneApply(g, a)
      /\ Due(g, a, w) /\ Storing(g, a, w, d)
  BY DEF Fine, Shape
<1>2. /\ b \in Seq(Results) /\ 1 \in DOMAIN a /\ DOMAIN a \subseteq Nat
      /\ \A k \in DOMAIN b : k \in Nat /\ k >= 1 /\ k + 1 \in DOMAIN a /\ b[k] = a[k + 1]
  BY <1>1, TailFacts
<1> HIDE DEF b
<1>3. /\ g.applying = token
      /\ \A j \in DOMAIN g.jobs : ~IsApply(g.jobs[j])
      /\ \A j \in DOMAIN b : ~IsApply(b[j].job)
  <2>1. /\ g.applying = token
        /\ \A j \in DOMAIN a : IsApply(a[j].job) => j = 1
    BY <1>1, <1>2 DEF OneApply
  <2>2. \A j \in DOMAIN b : ~IsApply(b[j].job)
    BY <1>2, <2>1
  <2>3. \A j \in DOMAIN g.jobs : ~IsApply(g.jobs[j])
    BY <1>1, <1>2 DEF OneApply
  <2> QED BY <2>1, <2>2, <2>3
<1>4. g.applying # NoToken
  BY <1>1, <1>2, NothingUnderWay
<1> HIDE DEF token
<1>5. NewApplyToken(idle, on) = NewApplyToken(g, on) /\ NewApplyToken(g, on) \in Tokens
  <2>1. idle.config = g.config /\ idle.revision = g.revision
    BY <1>1 DEF GuiTypes, GuiRecords
  <2> QED BY <1>1, <2>1, RequestTypes DEF NewApplyToken
<1>6. next \in Tokens \cup {NoToken} /\ next = IF again THEN NewApplyToken(g, on) ELSE NoToken
  BY <1>5
<1> HIDE DEF next
<1>7. /\ GuiTypes(settled) /\ settled.config = g.config /\ settled.revision = g.revision
      /\ settled.applying = next /\ settled.pending = FALSE /\ settled.jobs = g.jobs
      /\ settled.scheduled = g.scheduled
      /\ settled.displaced = g.displaced /\ settled.editing = g.editing
  BY <1>1, <1>6, CompletedTypes
<1> HIDE DEF settled
<1>8. ASSUME latest
      PROVE  /\ GuiTypes(marked) /\ marked.config.active = g.config.active
             /\ marked.config.profiles = g.config.profiles
             /\ marked.config.override = g.config.override
             /\ marked.revision = g.revision /\ marked.applying = next /\ marked.pending = FALSE
             /\ marked.jobs = g.jobs /\ marked.scheduled = g.scheduled
             /\ marked.displaced = g.displaced
             /\ marked.editing = g.editing
  <2>1. token.id \in DOMAIN settled.config.profiles
    BY <1>7, <1>8 DEF IsCurrentApply, Known
  <2> QED BY <1>7, <2>1, RememberTypes
<1> HIDE DEF marked
<1>9. \A h : /\ GuiTypes(h) /\ h.jobs = g.jobs /\ h.applying = next /\ h.pending = FALSE
             => Shape(h, b)
  BY <1>2, <1>3 DEF Shape, OneApply
<1>10. CASE again
  <2>1. Shape(settled, b) /\ (latest => Shape(marked, b))
    BY <1>7, <1>8, <1>9
  <2>2. latest => /\ Shape(SaveConfig(marked), b) /\ SaveConfig(marked).config = marked.config
                   /\ SaveConfig(marked).revision = marked.revision
                   /\ SaveConfig(marked).applying = marked.applying
    BY <2>1, SaveConfigKeeps
  <2>3. /\ Shape(noted, b) /\ noted.config.active = g.config.active /\ noted.revision = g.revision
        /\ noted.applying = next
    BY <1>7, <1>8, <2>1, <2>2
  <2>4. next = NewApplyToken(noted, on)
    BY <1>6, <1>10, <2>3 DEF NewApplyToken
  <2>5. \A i \in DOMAIN noted.jobs : ~IsApply(noted.jobs[i])
    <3>1. CASE a[1].is = "ok" /\ latest
      <4> DEFINE job == [do |-> "save", config |-> marked.config]
      <4>1. noted.jobs = Append(g.jobs, job)
        BY <1>8, <3>1 DEF SaveConfig, Push, GuiTypes, GuiRecords
      <4>2. ~IsApply(job)
        BY DEF IsApply
      <4>3. g.jobs \in Seq(Jobs)
        BY <1>1, GuiFacts
      <4>4. GuiTypes(marked) /\ marked.config \in Configs
        BY <1>8, <3>1, GuiFacts
      <4>5. job \in Jobs
        BY <4>4 DEF Jobs, Saves
      <4> HIDE DEF job, noted
      <4>6. /\ \A i \in DOMAIN g.jobs : noted.jobs[i] = g.jobs[i]
            /\ noted.jobs[Len(g.jobs) + 1] = job
            /\ DOMAIN noted.jobs = 1 .. Len(g.jobs) + 1 /\ DOMAIN g.jobs = 1 .. Len(g.jobs)
            /\ Len(g.jobs) \in Nat
        BY <4>1, <4>3, <4>5, AppendFacts
      <4>7. \A i \in DOMAIN noted.jobs : i = Len(g.jobs) + 1 \/ i \in DOMAIN g.jobs
        BY <4>6
      <4> QED BY <1>3, <4>2, <4>6, <4>7
    <3>2. CASE ~(a[1].is = "ok" /\ latest)
      BY <1>3, <1>7, <3>2
    <3> QED BY <3>1, <3>2
  <2> HIDE DEF noted
  <2>6. Fine(StartApply(noted, next), b, w, d)
    <3>1. \A z, y : Fine(StartApply(noted, noted.applying), b, z, y)
      BY <1>2, <1>3, <2>3, <2>4, <2>5, StartSettles DEF Shape
    <3> QED BY <2>3, <3>1
  <2> QED BY <1>10, <2>6 DEF noted, marked, settled, next, token, b, Completion, Remembering
<1>11. CASE ~again
  <2>1. ~g.pending /\ latest /\ next = NoToken
    BY <1>6, <1>11
  <2>2. ~Stale(g)
    <3>1. g.revision[g.config.active] \in Nat
      BY <1>1, GuiFacts
    <3>2. token.id = g.config.active /\ token.revision = g.revision[g.config.active]
      BY <2>1 DEF IsCurrentApply
    <3> QED BY <1>3, <2>1, <3>1, <3>2 DEF Stale
  <2>3. Followed(g, a, w, 1)
    BY <1>1, <1>2, <2>2 DEF Due
  <2>4. w.trust = "content" /\ a[1].is # "ok" => SaveDue(g, a, d, 1)
    BY <1>1, <1>2, <2>2 DEF Storing
  <2>5. Followed(g, b, w, 0) /\ (w.trust = "content" /\ a[1].is # "ok" => SaveDue(g, b, d, 0))
    <3>1. 0 \in Nat /\ 0 + 1 = 1
      OBVIOUS
    <3> QED BY <1>1, <2>3, <2>4, <3>1, TailShift DEF b
  <2>6. ASSUME NEW h, GuiTypes(h), h.config.active = g.config.active,
               h.config.profiles = g.config.profiles, h.config.override = g.config.override,
               h.revision = g.revision, h.applying = NoToken, h.pending = FALSE,
               h.jobs = g.jobs, h.scheduled = g.scheduled, h.displaced = g.displaced, h.editing = g.editing
        PROVE  Shape(h, b) /\ Due(h, b, w)
    <3>1. Shape(h, b)
      BY <1>9, <2>1, <2>6
    <3>2. NotAhead(h)
      BY <2>6 DEF NotAhead
    <3>3. RestoresFirst(h)
      BY <1>1, <1>3, <2>1, <2>6 DEF RestoresFirst, Due
    <3>4. ApplyFits(h, w)
      BY <1>3, <2>6 DEF ApplyFits
    <3>5. SameProfile(h, w) = SameProfile(g, w) /\ SameOverride(h, w) = SameOverride(g, w)
          /\ ProfileDue(h) = ProfileDue(g) /\ OverrideDue(h) = OverrideDue(g)
          /\ Restoring(h, b, 0) = Restoring(g, b, 0)
      BY <2>6 DEF SameProfile, SameOverride, ProfileDue, OverrideDue, Active, Restoring
    <3>6. Followed(h, b, w, 0)
      BY <2>5, <3>5 DEF Followed
    <3>7. Due(h, b, w)
      BY <1>3, <3>2, <3>3, <3>4, <3>6 DEF Due
    <3> QED BY <3>1, <3>7
  <2>7. CASE a[1].is = "ok"
    <3>1. Shape(marked, b) /\ Due(marked, b, w)
      BY <1>8, <2>1, <2>6
    <3>2. /\ Shape(SaveConfig(marked), b) /\ Due(SaveConfig(marked), b, w)
          /\ Stored(SaveConfig(marked), d)
      BY <3>1, SaveConfigKeeps
    <3>3. Fine(SaveConfig(marked), b, w, d)
      BY <3>2, StoredIsStoring DEF Fine
    <3>4. noted = SaveConfig(marked)
      BY <2>1, <2>7
    <3> HIDE DEF noted
    <3>5. Fine(noted, b, w, d)
      BY <3>3, <3>4
    <3> QED BY <1>11, <3>5 DEF noted, marked, settled, next, token, b, Completion, Remembering
  <2>8. CASE a[1].is # "ok"
    <3>1. Shape(settled, b) /\ Due(settled, b, w)
      BY <1>7, <2>1, <2>6
    <3>2. SaveDue(g, b, d, 0) => SaveDue(settled, b, d, 0)
      BY <1>7 DEF SaveDue, Stored, Restoring
    <3>3. Storing(settled, b, w, d)
      BY <1>3, <2>5, <2>8, <3>2 DEF Storing
    <3>4. Fine(settled, b, w, d)
      BY <3>1, <3>3 DEF Fine
    <3>5. noted = settled
      BY <2>8
    <3> HIDE DEF noted
    <3>6. Fine(noted, b, w, d)
      BY <3>4, <3>5
    <3> QED BY <1>11, <3>6 DEF noted, marked, settled, next, token, b, Completion, Remembering
  <2> QED BY <2>7, <2>8
<1> QED BY <1>10, <1>11

LEMMA AnswerStep ==
  ASSUME ProfilesInv, ApplyDone \/ RestoreDone \/ StateDone \/ SeedDone
  PROVE  ProfilesInv'
<1>1. /\ ProfilesTypes /\ Fine(gui, answers, World, Disk) /\ Shape(gui, answers)
      /\ source \in Sources
  BY DEF ProfilesInv, ProfilesTypes, Fine
<1>2. PICK what \in {"apply", "restore", "state", "seed"} : Answered(what)
  BY DEF ApplyDone, RestoreDone, StateDone, SeedDone
<1>3. /\ answers # << >> /\ Head(answers).job.do = what
      /\ answers' = Tail(answers) /\ World' = World /\ Disk' = Disk
      /\ UNCHANGED <<applied, late, trust, source, observed, debounce, made>>
  BY <1>2 DEF Answered, Arrived, World, Disk, store, daemon, power
<1>4. Head(answers) = answers[1] /\ answers[1] \in Results
  BY <1>1, <1>3, TailShape
<1>5. ProfilesTypes'
  BY <1>1, <1>3 DEF ProfilesTypes
<1>6. CASE ApplyDone
  <2> DEFINE answer == Head(answers)
             token == answer.job.token
             done == Completion(gui, token, source)
             next == IF done.again THEN NewApplyToken(done.gui, source) ELSE NoToken
             settled == [done.gui EXCEPT !.applying = next]
             noted == IF answer.is = "ok" /\ done.current
                     THEN SaveConfig([settled EXCEPT !.config.remembered[source] = token.id])
                     ELSE settled
             g == IF done.again THEN StartApply(noted, next) ELSE noted
  <2>1. gui' = g
    BY <1>6 DEF ApplyDone
  <2>2. IsApply(answers[1].job)
    BY <1>4, <1>6 DEF ApplyDone, Answered, Arrived, IsApply
  <2>3. Fine(g, Tail(answers), World, Disk)
    BY <1>1, <1>3, <1>4, <2>2, ApplyDoneKeeps
  <2> HIDE DEF g
  <2>4. Fine(gui', answers', World', Disk')
    BY <1>3, <2>1, <2>3
  <2> QED BY <1>5, <2>4 DEF ProfilesInv
<1>7. CASE RestoreDone
  <2> DEFINE answer == Head(answers)
             token == answer.job.token
             replaced == IF IsCurrentOperation(gui, token)
                         THEN SaveConfig(EditProfile(gui, token.id, answer.job.stock)) ELSE gui
             g == IF answer.is # "ok" THEN gui
                  ELSE IF replaced.config.active = token.id THEN ApplyActive(replaced)
                  ELSE replaced
  <2>1. gui' = g
    BY <1>7 DEF RestoreDone
  <2>2. answers[1].job.do = "restore"
    BY <1>4, <1>7 DEF RestoreDone, Answered, Arrived
  <2>3. Fine(g, Tail(answers), World, Disk)
    BY <1>1, <1>3, <1>4, <2>2, RestoreDoneKeeps
  <2> HIDE DEF g
  <2>4. Fine(gui', answers', World', Disk')
    BY <1>3, <2>1, <2>3
  <2> QED BY <1>5, <2>4 DEF ProfilesInv
<1>8. CASE StateDone
  <2> DEFINE answer == Head(answers)
             g == IF answer.is = "ok"
                       /\ answer.label # Label(gui.config.profiles[gui.config.active])
                  THEN ApplyActive(gui) ELSE gui
  <2>1. gui' = g
    BY <1>8 DEF StateDone
  <2>2. answers[1].job.do = "state"
    BY <1>4, <1>8 DEF StateDone, Answered, Arrived
  <2>3. Fine(g, Tail(answers), World, Disk)
    BY <1>1, <1>3, <1>4, <2>2, StateDoneKeeps
  <2> HIDE DEF g
  <2>4. Fine(gui', answers', World', Disk')
    BY <1>3, <2>1, <2>3
  <2> QED BY <1>5, <2>4 DEF ProfilesInv
<1>9. CASE SeedDone
  <2> DEFINE tokens == Head(answers).job.tokens
             fresh == {id \in Builtins : IsCurrentOperation(gui, tokens[id])}
             seeded == Seeded(gui, fresh)
             s == IF fresh = {} THEN seeded ELSE SaveConfig(seeded)
             g == IF Head(answers).is = "ok" /\ s.config.active \in Builtins THEN ApplyActive(s)
                  ELSE IF Head(answers).is = "ok" THEN s ELSE gui
  <2>1. gui' = g
    BY <1>9 DEF SeedDone, Seeded
  <2>2. answers[1].job.do = "seed"
    BY <1>4, <1>9 DEF SeedDone, Answered, Arrived
  <2>3. fresh \in SUBSET Builtins
    OBVIOUS
  <2> HIDE DEF fresh
  <2>4. Fine(g, Tail(answers), World, Disk)
    BY <1>1, <1>3, <1>4, <2>2, <2>3, SeedDoneKeeps
  <2> HIDE DEF g
  <2>5. Fine(gui', answers', World', Disk')
    BY <1>3, <2>1, <2>4
  <2> QED BY <1>5, <2>5 DEF ProfilesInv
<1> QED BY <1>6, <1>7, <1>8, <1>9

LEMMA TimerStep ==
  ASSUME ProfilesInv, CommitTimer
  PROVE  ProfilesInv'
<1>1. ProfilesTypes /\ Fine(gui, answers, World, Disk) /\ source \in Sources
  BY DEF ProfilesInv, ProfilesTypes
<1>2. /\ gui' = Flush(gui) /\ answers' = answers /\ World' = World /\ Disk' = Disk
      /\ UNCHANGED <<applied, late, trust, source, observed, debounce, made>>
  BY DEF CommitTimer, World, Disk, store, daemon, power
<1>3. Fine(Flush(gui), answers, World, Disk)
  BY <1>1, FlushKeeps
<1>4. Fine(gui', answers', World', Disk')
  BY <1>2, <1>3
<1>5. ProfilesTypes'
  BY <1>1, <1>2 DEF ProfilesTypes
<1> QED BY <1>4, <1>5 DEF ProfilesInv

LEMMA ProfilesInitially ==
  ASSUME ProfilesInit
  PROVE  ProfilesInv
<1>1. PICK start \in Builtins, seed \in BOOLEAN :
        gui = [config |-> [profiles |-> [id \in Builtins |-> Stock(id)], active |-> start,
                           remembered |-> [s \in Sources |-> IF s = "battery" THEN Fallback
                                                                              ELSE start],
                           always |-> TRUE, override |-> FALSE],
               editing |-> start, epoch |-> 0, revision |-> [id \in Builtins |-> 0],
               serial |-> IF seed THEN [id \in Builtins |-> 0] ELSE << >>,
               applying |-> NoToken, pending |-> FALSE, scheduled |-> None, displaced |-> FALSE,
               jobs |-> IF seed THEN <<Seed>> ELSE << >>]
  BY DEF ProfilesInit
<1> DEFINE p == [id \in Builtins |-> Stock(id)]
           m == [s \in Sources |-> IF s = "battery" THEN Fallback ELSE start]
           r == [id \in Builtins |-> 0]
           s == IF seed THEN [id \in Builtins |-> 0] ELSE << >>
           q == IF seed THEN <<Seed>> ELSE << >>
           c == [profiles |-> p, active |-> start, remembered |-> m,
                 always |-> TRUE, override |-> FALSE]
<1>2. /\ Builtins \subseteq Ids /\ Fallback \in Builtins
      /\ DOMAIN p = Builtins /\ DOMAIN r = Builtins
      /\ p \in [Builtins -> ProfileContents] /\ m \in [Sources -> Builtins]
      /\ r \in [Builtins -> Nat]
  BY ProfilesAssumption DEF Ids, Stock, ProfileContents
<1>3. s \in Partial(Nat)
  <2>1. CASE seed
    BY <1>2, <2>1, IsPartial
  <2>2. CASE ~seed
    <3>1. << >> \in [{} -> Nat] /\ {} \in SUBSET Ids
      OBVIOUS
    <3>2. << >> \in Partial(Nat)
      BY <3>1 DEF Partial
    <3> QED BY <2>2, <3>2
  <2> QED BY <2>1, <2>2
<1>4. p \in Partial(ProfileContents) /\ r \in Partial(Nat)
  BY <1>2, IsPartial
<1>5. Seed \in Jobs /\ ~IsApply(Seed) /\ ~Real(Seed)
  <2>1. Seed \in Seeds
    BY <1>2 DEF Seed, Seeds, Operations
  <2> QED BY <2>1 DEF Jobs, Seed, IsApply, Real
<1>6. q \in Seq(Jobs) /\ \A i \in DOMAIN q : ~IsApply(q[i]) /\ ~Real(q[i])
  <2>1. CASE seed
    <3> HIDE DEF Jobs
    <3>1. q = <<Seed>>
      BY <2>1
    <3> QED BY <1>5, <3>1
  <2>2. CASE ~seed
    BY <2>2
  <2> QED BY <2>1, <2>2
<1>7. c \in Configs /\ c.profiles = p /\ c.active = start /\ c.remembered = m
  <2>1. m \in [Sources -> Ids] /\ start \in Ids
    BY <1>2
  <2> HIDE DEF p, m
  <2> QED BY <1>4, <2>1 DEF Configs
<1>8. gui = [config |-> c, editing |-> start, epoch |-> 0, revision |-> r, serial |-> s,
             applying |-> NoToken, pending |-> FALSE, scheduled |-> None, displaced |-> FALSE, jobs |-> q]
  BY <1>1
<1> HIDE DEF p, m, r, s, q, c
<1>9. /\ gui \in GuiRecords /\ gui.config = c /\ gui.revision = r /\ gui.editing = start
      /\ gui.jobs = q /\ gui.applying = NoToken /\ gui.pending = FALSE
  BY <1>2, <1>3, <1>4, <1>6, <1>7, <1>8 DEF GuiRecords
<1>10. GuiTypes(gui)
  BY <1>2, <1>7, <1>9 DEF GuiTypes
<1>11. /\ answers = << >> /\ trust = None /\ late = << >>
       /\ source = "ac" /\ observed = None /\ debounce.pending = None /\ made = 0
       /\ applied \in {NoRequest, RequestOf(gui, gui.config.active)}
  BY DEF ProfilesInit
<1>12. Shape(gui, answers)
  BY <1>6, <1>9, <1>10, <1>11 DEF Shape, OneApply
<1>13. Due(gui, answers, World)
  BY <1>6, <1>9, <1>11 DEF Due, NotAhead, RestoresFirst, ApplyFits, Followed, World
<1>14. Storing(gui, answers, World, Disk)
  BY <1>11, ProfilesAssumption DEF Storing, World, None
<1>15. ProfilesTypes
  <2>1. applied \in Requests \cup {NoRequest}
    BY <1>10, <1>11, RequestTypes
  <2>2. /\ << >> \in Seq(Requests) /\ "ac" \in Sources /\ FALSE \in BOOLEAN /\ 0 \in Nat
    BY DEF Sources
  <2> QED BY <1>11, <2>1, <2>2 DEF ProfilesTypes
<1> QED BY <1>12, <1>13, <1>14, <1>15 DEF ProfilesInv, Fine

(* Once everything is answered the daemon runs the selected profile as it  *)
(* is now, and config.json holds what the desktop does. Its override alone *)
(* may be an earlier one, where the commit of a protection toggle was      *)
(* displaced (fans_window.rs schedule_apply) and nothing was applied since.*)
THEOREM SelectionIsSettled == ProfilesSpec => []SettledIsSelected
<1>1. ProfilesInit => ProfilesInv
  BY ProfilesInitially
<1>2. ProfilesInv /\ [ProfilesNext]_profileVars => ProfilesInv'
  <2> SUFFICES ASSUME ProfilesInv, [ProfilesNext]_profileVars PROVE ProfilesInv'
    OBVIOUS
  <2>1. CASE User
    BY <2>1, UserStep
  <2>2. CASE Gtk
    BY <2>2, AnswerStep, TimerStep, PowerStep DEF Gtk
  <2>3. CASE Worker
    BY <2>3, JobStep
  <2>4. CASE RunLate \/ DaemonForgets
    BY <2>4, DaemonStep
  <2>5. CASE Watch \/ Resume
    BY <2>5, PowerStep
  <2>6. CASE UNCHANGED profileVars
    <3>1. /\ gui' = gui /\ answers' = answers /\ World' = World /\ Disk' = Disk
          /\ UNCHANGED <<applied, late, trust, source, observed, debounce, made>>
      BY <2>6 DEF profileVars, World, Disk, store, daemon, power
    <3>2. ProfilesTypes' /\ Fine(gui', answers', World', Disk')
      BY <3>1 DEF ProfilesInv, ProfilesTypes
    <3> QED BY <3>2 DEF ProfilesInv
  <2> QED BY <2>1, <2>2, <2>3, <2>4, <2>5, <2>6 DEF ProfilesNext
<1>3. ProfilesInv => SettledIsSelected
  <2> SUFFICES ASSUME ProfilesInv, Quiet PROVE
        /\ trust # None => Label(applied.content) = Label(gui.config.profiles[gui.config.active])
        /\ trust = "content" =>
             \E o \in {gui.config.override} \cup (IF gui.displaced THEN BOOLEAN ELSE {}) :
               applied = [RequestOf(gui, gui.config.active) EXCEPT !.override = o]
        /\ trust = "content" /\ saved => file = gui.config
        /\ \A s \in Sources : Known(gui, gui.config.remembered[s])
    BY DEF SettledIsSelected
  <2>1. /\ GuiTypes(gui) /\ Due(gui, answers, World) /\ Storing(gui, answers, World, Disk)
        /\ applied \in Requests \cup {NoRequest}
    BY DEF ProfilesInv, ProfilesTypes, Fine, Shape
  <2>2. /\ gui.jobs = << >> /\ answers = << >> /\ gui.applying = NoToken
        /\ gui.scheduled = None
    BY DEF Quiet
  <2>3. gui.config.active # None
    BY <2>1, ActiveIsNotNone
  <2>4. ~ProfileDue(gui) /\ ~Restoring(gui, answers, 0) /\ ~Reading(answers, 0, World)
        /\ (OverrideDue(gui) => gui.displaced)
    BY <2>2, <2>3 DEF ProfileDue, OverrideDue, Restoring, Reading, World
  <2>5. trust # None => SameProfile(gui, World) /\ (SameOverride(gui, World) \/ gui.displaced)
    BY <2>1, <2>2, <2>4 DEF Due, Followed, World
  <2>6. trust # None => Label(applied.content) = Label(gui.config.profiles[gui.config.active])
    BY <2>5 DEF SameProfile, World, Active
  <2>7. ASSUME trust = "content"
        PROVE  \E o \in {gui.config.override} \cup (IF gui.displaced THEN BOOLEAN ELSE {}) :
                 applied = [RequestOf(gui, gui.config.active) EXCEPT !.override = o]
    <3>1. /\ applied.id = gui.config.active /\ applied.content = Active(gui)
          /\ applied.override = gui.config.override \/ gui.displaced
      BY <2>5, <2>7, ProfilesAssumption DEF SameProfile, SameOverride, World, None
    <3>2. applied \in Requests
      BY <2>1, <2>3, <3>1 DEF NoRequest
    <3>3. applied = [RequestOf(gui, gui.config.active) EXCEPT !.override = applied.override]
      BY <3>1, <3>2 DEF Requests, RequestOf, Active
    <3>4. applied.override \in BOOLEAN
      BY <3>2 DEF Requests
    <3> QED BY <3>1, <3>3, <3>4
  <2>8. ASSUME trust = "content", saved PROVE file = gui.config
    <3>1. Stored(gui, Disk)
      BY <2>1, <2>2, <2>4, <2>8 DEF Storing, SaveDue, World
    <3> QED BY <2>2, <2>8, <3>1 DEF Stored, Disk
  <2>9. \A s \in Sources : Known(gui, gui.config.remembered[s])
    BY <2>1 DEF GuiTypes, Known
  <2> QED BY <2>6, <2>7, <2>8, <2>9
<1> QED BY <1>1, <1>2, <1>3, PTL DEF ProfilesSpec
(***************************************************************************)
(* Part 4. The capture worker and the notification owner.                  *)
(***************************************************************************)
WorkerTypes ==
  /\ gamescope \in BOOLEAN /\ visible \in BOOLEAN /\ running \in BOOLEAN
  /\ updates \in Seq(BOOLEAN) /\ lease \in BOOLEAN /\ unsure \in BOOLEAN
  /\ capture \in [at : {"wait", "release", "send", "ended"}, enabled : BOOLEAN]

(* What the worker has not read ends with what the GTK thread last said;   *)
(* what it has read it is about to ask for, or has asked for.              *)
Informed ==
  gamescope =>
    /\ updates # <<>> => Last(updates) = visible
    /\ updates = <<>> /\ capture.at \in {"send", "wait"} => capture.enabled = visible
    /\ updates = <<>> /\ capture.at = "release" => ~visible

(* What was asked for is what the daemon does, unless a request was lost.  *)
Leased ==
  /\ capture.at = "wait" /\ ~unsure => lease = capture.enabled
  /\ capture.at = "ended" => ~running /\ (~unsure => ~lease)

NoteTypes ==
  note \in [latest : BOOLEAN, wake : BOOLEAN, submitting : BOOLEAN,
            at : {"wait", "take", "notify", "look"}, left : Nat, given : Nat]

(* A message that is left will wake the owner, or it is awake; and one it  *)
(* has not taken is left.                                                  *)
Awoken ==
  /\ note.latest => note.submitting \/ note.wake \/ note.at # "wait"
  /\ ~note.latest => note.given = note.left

OverlayInv == WorkerTypes /\ Informed /\ Leased /\ NoteTypes /\ Awoken

(* The end of a queue of booleans is a boolean, and what was put there.    *)
LEMMA NewestIsBoolean ==
  ASSUME NEW s \in Seq(BOOLEAN)
  PROVE  /\ s # <<>> => Last(s) \in BOOLEAN
         /\ \A b \in BOOLEAN : /\ Append(s, b) \in Seq(BOOLEAN) /\ Append(s, b) # <<>>
                               /\ Last(Append(s, b)) = b
<1>1. s # << >> => Last(s) \in BOOLEAN
  <2> SUFFICES ASSUME s # << >> PROVE s[Len(s)] \in BOOLEAN
    BY DEF Last
  <2>1. Len(s) \in 1 .. Len(s)
    OBVIOUS
  <2> QED BY <2>1
<1>2. ASSUME NEW b \in BOOLEAN
      PROVE  /\ Append(s, b) \in Seq(BOOLEAN) /\ Len(Append(s, b)) = Len(s) + 1
             /\ Append(s, b)[Len(s) + 1] = b
  OBVIOUS
<1>3. ASSUME NEW b \in BOOLEAN PROVE Append(s, b) # << >> /\ Last(Append(s, b)) = b
  <2>1. Append(s, b) # << >>
    BY <1>2
  <2> QED BY <1>2, <2>1 DEF Last
<1> QED BY <1>1, <1>2, <1>3

(* Windows come and go without a word to either thread.                    *)
LEMMA WindowsKeep ==
  ASSUME OverlayInv, UNCHANGED <<gamescope, visible, leaseVars, note>>, running' \in BOOLEAN,
         running' => running
  PROVE  OverlayInv'
BY DEF OverlayInv, WorkerTypes, Informed, Leased, NoteTypes, Awoken, leaseVars

(* What either thread does leaves the other alone.                         *)
LEMMA WorkerKeeps ==
  ASSUME OverlayInv, CaptureWorker \/ Lapse
  PROVE  OverlayInv'
<1> USE DEF WorkerStep, windowVars, ownerVars, SendNext
<1>1. NoteTypes' /\ Awoken'
  BY DEF OverlayInv, NoteTypes, Awoken, CaptureWorker, AwaitDesired, Renew, Release, SendLease,
         Disconnected, Lapse
<1>2. UNCHANGED <<gamescope, visible, running>>
  BY DEF CaptureWorker, AwaitDesired, Renew, Release, SendLease, Disconnected, Lapse
<1>3. /\ updates # <<>> => Newest \in BOOLEAN
      /\ << >> \in Seq(BOOLEAN)
  BY NewestIsBoolean DEF Newest, OverlayInv, WorkerTypes
<1>4. CASE AwaitDesired
  BY <1>1, <1>2, <1>3, <1>4 DEF AwaitDesired, AwaitUpdate, Newest, OverlayInv, WorkerTypes,
                                  Informed, Leased
<1>5. CASE Renew
  BY <1>1, <1>2, <1>3, <1>5 DEF Renew, OverlayInv, WorkerTypes, Informed, Leased
<1>6. CASE Release
  BY <1>1, <1>2, <1>3, <1>6 DEF Release, Newest, OverlayInv, WorkerTypes, Informed, Leased
<1>7. CASE SendLease
  BY <1>1, <1>2, <1>3, <1>7 DEF SendLease, OverlayInv, WorkerTypes, Informed, Leased
<1>8. CASE Disconnected
  <2>1. /\ capture' = [at |-> "ended", enabled |-> FALSE] /\ updates' = << >> /\ ~running
        /\ \/ lease' = FALSE /\ unsure' = FALSE
           \/ lease' = lease /\ unsure' = TRUE
    BY <1>8 DEF Disconnected
  <2>2. WorkerTypes'
    BY <1>2, <1>3, <2>1 DEF OverlayInv, WorkerTypes
  <2>3. Informed' /\ Leased'
    BY <1>2, <2>1 DEF Informed, Leased
  <2> QED BY <1>1, <2>2, <2>3 DEF OverlayInv
<1>9. CASE Lapse
  <2>1. lease' = FALSE /\ unsure' = TRUE /\ UNCHANGED <<updates, capture>>
    BY <1>9 DEF Lapse
  <2> QED BY <1>1, <1>2, <2>1 DEF OverlayInv, WorkerTypes, Informed, Leased
<1> QED BY <1>4, <1>5, <1>6, <1>7, <1>8, <1>9 DEF CaptureWorker

LEMMA NoteKeeps ==
  ASSUME OverlayInv, NotificationOwner \/ LeaveMessage \/ WakeUp
  PROVE  OverlayInv'
<1> USE DEF Keep, Notifying, Acts, windowVars, leaseVars
<1>1. UNCHANGED <<gamescope, visible, leaseVars, running>>
  BY DEF NotificationOwner, AwaitWake, TakeMessage, Notify, LookAgain, LeaveMessage, WakeUp
<1>2. WorkerTypes' /\ Informed' /\ Leased'
  BY <1>1 DEF OverlayInv, WorkerTypes, Informed, Leased
<1> USE DEF OverlayInv, NoteTypes, Awoken
<1>3. CASE LeaveMessage
  <2>1. note' = [note EXCEPT !.latest = TRUE, !.submitting = TRUE, !.left = @ + 1]
    BY <1>3 DEF LeaveMessage
  <2>2. NoteTypes'
    <3>1. note.left + 1 \in Nat
      OBVIOUS
    <3>2. note' = [latest |-> TRUE, wake |-> note.wake, submitting |-> TRUE, at |-> note.at,
                   left |-> note.left + 1, given |-> note.given]
      BY <2>1
    <3> QED BY <3>1, <3>2
  <2>3. note'.latest /\ note'.submitting
    BY <2>1
  <2> QED BY <1>2, <2>2, <2>3
<1>4. CASE WakeUp
  BY <1>2, <1>4 DEF WakeUp
<1>5. CASE AwaitWake
  BY <1>2, <1>5 DEF AwaitWake
<1>6. CASE TakeMessage
  BY <1>2, <1>6 DEF TakeMessage
<1>7. CASE Notify
  BY <1>2, <1>7 DEF Notify
<1>8. CASE LookAgain
  BY <1>2, <1>8 DEF LookAgain
<1> QED BY <1>3, <1>4, <1>5, <1>6, <1>7, <1>8 DEF NotificationOwner

(* A toggle reaches the queue of the worker in the same step.              *)
LEMMA ToggleKeeps ==
  ASSUME OverlayInv, Toggle
  PROVE  OverlayInv'
<1>1. /\ visible' = ~visible /\ UNCHANGED <<gamescope, capture, lease, unsure, note, running>>
      /\ updates' = (IF gamescope THEN Append(updates, ~visible) ELSE updates)
  BY DEF Toggle, Acts, Sync
<1>2. visible' \in BOOLEAN
  BY <1>1
<1>3. /\ updates' \in Seq(BOOLEAN)
      /\ gamescope => updates' # <<>> /\ Last(updates') = visible'
  BY <1>1, <1>2, NewestIsBoolean DEF OverlayInv, WorkerTypes
<1> QED BY <1>1, <1>2, <1>3 DEF OverlayInv, WorkerTypes, Informed, Leased, NoteTypes, Awoken

(* The invariant that both theorems below rest on.                         *)
LEMMA OverlayIsInvariant == OverlaySpec => []OverlayInv
<1>1. OverlayInit => OverlayInv
  <2> SUFFICES ASSUME OverlayInit PROVE OverlayInv
    OBVIOUS
  <2>1. << >> \in Seq(BOOLEAN) /\ Append(<< >>, visible) = <<visible>>
    BY DEF OverlayInit
  <2>2. visible \in BOOLEAN /\ updates \in {<<visible>>, << >>}
    BY DEF OverlayInit
  <2>3. updates \in Seq(BOOLEAN) /\ (updates # <<>> => Last(updates) = visible)
    <3>1. CASE updates = << >>
      BY <2>1, <3>1
    <3>2. CASE updates = Append(<< >>, visible)
      BY <2>1, <2>2, <3>2, NewestIsBoolean
    <3> QED BY <2>1, <2>2, <3>1, <3>2
  <2> QED BY <2>3 DEF OverlayInit, OverlayInv, WorkerTypes, Informed, Leased, NoteTypes, Awoken
<1>2. OverlayInv /\ [OverlayNext]_overlayVars => OverlayInv'
  <2> SUFFICES ASSUME OverlayInv, [OverlayNext]_overlayVars PROVE OverlayInv'
    OBVIOUS
  <2> USE DEF windowVars, ownerVars, leaseVars
  <2>1. running \in BOOLEAN
    BY DEF OverlayInv, WorkerTypes
  <2>2. CASE Toggle
    BY <2>2, ToggleKeeps
  <2>3. CASE OpenFans \/ OpenDialog \/ HideFans \/ CloseDialog \/ HudPopup \/ HudTimeout \/ Quit
    <3>1. UNCHANGED <<gamescope, visible, leaseVars, note>>
      BY <2>3 DEF OpenFans, OpenDialog, Present, HideFans, CloseDialog, HudPopup, HudTimeout,
                  Quit, Sync
    <3>2. running' = running \/ running' = FALSE
      BY <2>3 DEF OpenFans, OpenDialog, Present, HideFans, CloseDialog, HudPopup, HudTimeout,
                  Quit, Acts
    <3>3. CASE running' = running
      BY <2>1, <3>1, <3>3, WindowsKeep
    <3>4. CASE running' = FALSE
      BY <3>1, <3>4, WindowsKeep
    <3> QED BY <3>2, <3>3, <3>4
  <2>4. CASE LeaveMessage \/ WakeUp \/ NotificationOwner
    BY <2>4, NoteKeeps
  <2>5. CASE X11Owner
    BY <2>1, <2>5, WindowsKeep DEF X11Owner, Take, Send
  <2>6. CASE CaptureWorker \/ Lapse
    BY <2>6, WorkerKeeps
  <2>7. CASE UNCHANGED overlayVars
    BY <2>1, <2>7, WindowsKeep DEF overlayVars
  <2> QED BY <2>2, <2>3, <2>4, <2>5, <2>6, <2>7 DEF OverlayNext, GtkThread
<1> QED BY <1>1, <1>2, PTL DEF OverlaySpec

(* Whatever the windows do, and however the capture worker interleaves with*)
(* the GTK thread that feeds it (controller.rs): once at rest it holds the *)
(* controller exactly while the overlay is visible and the GUI runs,       *)
(* unless a request or the lease was lost. Part of ThreadsFollowTheOverlay.*)
THEOREM LeaseIsFollowed == OverlaySpec => []LeaseFollowsTheOverlay
<1>1. OverlayInv => LeaseFollowsTheOverlay
  BY DEF OverlayInv, WorkerTypes, Informed, Leased, LeaseFollowsTheOverlay
<1> QED BY <1>1, OverlayIsInvariant, PTL

(* However messages are left while the notification owner shows an earlier *)
(* one, looks again or goes to sleep (hud.rs): it does not sleep before it *)
(* has taken the last. Part of ThreadsFollowTheOverlay.                    *)
THEOREM MessagesAreTaken == OverlaySpec => []MessagesArrive
<1>1. OverlayInv => MessagesArrive
  BY DEF OverlayInv, NoteTypes, Awoken, MessagesArrive
<1> QED BY <1>1, OverlayIsInvariant, PTL

(***************************************************************************)
(* Part 5. The X11 owner.                                                  *)
(***************************************************************************)

(* A set of numbers has a least; one with a bound, a greatest.             *)
LEMMA LeastNatural ==
  ASSUME NEW S \in SUBSET Nat, S # {}
  PROVE  \E n \in S : \A m \in S : n <= m
<1> DEFINE R == OpToRel(<, Nat)
<1>1. \A m, n \in Nat : m < n => <<m, n>> \in R
  BY DEF OpToRel
<1>2. IsWellFoundedOn(R, Nat)
  BY NatLessThanWellFounded
<1> HIDE DEF R
<1>3. PICK n \in S : \A m \in S : ~(<<m, n>> \in R)
  BY <1>2, WFMin
<1>4. ASSUME NEW m \in S PROVE n <= m
  <2>1. m \in Nat /\ n \in Nat /\ ~(m < n)
    BY <1>1, <1>3
  <2> QED BY <2>1
<1> QED BY <1>4

LEMMA GreatestBelow ==
  ASSUME NEW n \in Nat, NEW S \in SUBSET (1 .. n), S # {}
  PROVE  \E m \in S : \A k \in S : k <= m
<1> DEFINE T == {n - k : k \in S}
<1>1. \A k \in S : n - k \in Nat /\ k \in Int
  OBVIOUS
<1>2. T \in SUBSET Nat /\ T # {}
  BY <1>1
<1>3. \A k \in S : n - k \in T
  OBVIOUS
<1> HIDE DEF T
<1>4. PICK t \in T : \A u \in T : t <= u
  BY <1>2, LeastNatural
<1>5. PICK m \in S : t = n - m
  BY DEF T
<1>6. ASSUME NEW k \in S PROVE k <= m
  BY <1>1, <1>3, <1>4, <1>5
<1> QED BY <1>6

WindowEntries == [window : Windows \ {HudWindow}, hidden : BOOLEAN]

(* Entries of windows that are there, each listed once.                    *)
Listing(entries, gone) ==
  /\ entries \in Seq(WindowEntries)
  /\ \A i, j \in DOMAIN entries : entries[i].window = entries[j].window => i = j
  /\ \A i \in DOMAIN entries : entries[i].window \notin gone

(* The window that has the input is open, and so is the main window.       *)
Fit(entries, first, popups, gone) ==
  /\ gone \subseteq Dialogs \cup {HudWindow}
  /\ Listing(entries, gone)
  /\ Entry(first, FALSE) \in Range(entries)
  /\ Entry(MainWindow, FALSE) \in Range(entries)
  /\ popups \in {<< >>, <<HudWindow>>}
  /\ popups # << >> => HudWindow \notin gone

WindowsFit ==
  gamescope \in BOOLEAN /\ visible \in BOOLEAN /\ Fit(registered, current, huds, destroyed)

LEMMA ListedFits ==
  ASSUME WindowsFit, NEW w \in Windows \ {HudWindow}, w \notin destroyed, NEW hidden \in BOOLEAN
  PROVE  LET entries == Listed(registered, w, hidden)
         IN /\ Listing(entries, destroyed) /\ Entry(w, hidden) \in Range(entries)
            /\ \A v, h : v # w /\ Entry(v, h) \in Range(registered) => Entry(v, h) \in Range(entries)
<1> DEFINE s == Listed(registered, w, hidden)
<1>1. Entry(w, hidden) \in WindowEntries
  BY DEF Entry, WindowEntries
<1>2. registered \in Seq(WindowEntries) /\ Listing(registered, destroyed)
  BY DEF WindowsFit, Fit, Listing
<1>3. CASE \E i \in DOMAIN registered : registered[i].window = w
  <2>1. s = [i \in DOMAIN registered |->
               IF registered[i].window = w THEN Entry(w, hidden) ELSE registered[i]]
    BY <1>3 DEF Listed
  <2>2. s \in Seq(WindowEntries) /\ DOMAIN s = DOMAIN registered
    BY <1>1, <1>2, <2>1
  <2>3. \A i \in DOMAIN registered : s[i].window = registered[i].window
    BY <2>1 DEF Entry
  <2>4. Listing(s, destroyed)
    BY <1>2, <2>2, <2>3 DEF Listing
  <2>5. PICK i \in DOMAIN registered : registered[i].window = w
    BY <1>3
  <2>6. Entry(w, hidden) \in Range(s)
    BY <2>1, <2>5 DEF Range
  <2>7. ASSUME NEW v, NEW h, v # w, Entry(v, h) \in Range(registered)
        PROVE  Entry(v, h) \in Range(s)
    <3>1. PICK j \in DOMAIN registered : registered[j] = Entry(v, h)
      BY <2>7 DEF Range
    <3>2. s[j] = Entry(v, h)
      BY <2>1, <2>7, <3>1 DEF Entry
    <3> QED BY <2>2, <3>2 DEF Range
  <2> QED BY <2>4, <2>6, <2>7
<1>4. CASE ~\E i \in DOMAIN registered : registered[i].window = w
  <2>1. s = Append(registered, Entry(w, hidden))
    BY <1>4 DEF Listed
  <2> DEFINE n == Len(registered)
  <2>2. /\ s \in Seq(WindowEntries) /\ n \in Nat /\ DOMAIN s = 1 .. n + 1 /\ DOMAIN registered = 1 .. n
        /\ s[n + 1] = Entry(w, hidden) /\ \A i \in DOMAIN registered : s[i] = registered[i]
    BY <1>1, <1>2, <2>1
  <2>3. s[n + 1].window = w
    BY <2>2 DEF Entry
  <2> HIDE DEF n, s
  <2>4. ASSUME NEW i \in DOMAIN s
        PROVE  \/ i \in DOMAIN registered /\ s[i] = registered[i] /\ s[i].window # w
               \/ i = n + 1
    BY <1>4, <2>2
  <2>5. Listing(s, destroyed)
    BY <1>2, <2>2, <2>3, <2>4 DEF Listing
  <2>6. Entry(w, hidden) \in Range(s) /\ Range(registered) \subseteq Range(s)
    BY <2>2 DEF Range
  <2> QED BY <2>5, <2>6 DEF s
<1> QED BY <1>3, <1>4

LEMMA RemovedFits ==
  ASSUME WindowsFit, NEW i \in DOMAIN registered, registered[i].window # MainWindow
  PROVE  LET entries == RemoveAt(registered, i)
         IN /\ Listing(entries, destroyed)
            /\ \A j \in DOMAIN entries : entries[j].window # registered[i].window
            /\ \A v, h : v # registered[i].window /\ Entry(v, h) \in Range(registered)
                           => Entry(v, h) \in Range(entries)
<1> DEFINE s == RemoveAt(registered, i)
           n == Len(registered)
<1>1. registered \in Seq(WindowEntries) /\ Listing(registered, destroyed)
  BY DEF WindowsFit, Fit, Listing
<1>2. n \in Nat /\ DOMAIN registered = 1 .. n /\ i \in 1 .. n
  BY <1>1
<1>3. /\ SubSeq(registered, 1, i - 1) \in Seq(WindowEntries) /\ Len(SubSeq(registered, 1, i - 1)) = i - 1
      /\ \A j \in 1 .. i - 1 : SubSeq(registered, 1, i - 1)[j] = registered[j]
  BY <1>1, <1>2
<1>4. /\ SubSeq(registered, i + 1, n) \in Seq(WindowEntries) /\ Len(SubSeq(registered, i + 1, n)) = n - i
      /\ \A j \in 1 .. n - i : SubSeq(registered, i + 1, n)[j] = registered[j + i]
  BY <1>1, <1>2
<1>5. /\ s \in Seq(WindowEntries) /\ DOMAIN s = 1 .. n - 1
      /\ \A j \in 1 .. n - 1 : s[j] = registered[IF j < i THEN j ELSE j + 1]
  <2> DEFINE a == SubSeq(registered, 1, i - 1)
             b == SubSeq(registered, i + 1, n)
  <2>1. s = a \o b
    BY DEF RemoveAt
  <2> HIDE DEF a, b, s
  <2>2. a \in Seq(WindowEntries) /\ b \in Seq(WindowEntries) /\ Len(a) = i - 1 /\ Len(b) = n - i
    BY <1>3, <1>4 DEF a, b
  <2>3. /\ s \in Seq(WindowEntries) /\ DOMAIN s = 1 .. n - 1
        /\ \A j \in 1 .. n - 1 : s[j] = IF j < i THEN a[j] ELSE b[j - (i - 1)]
    <3>1. /\ s \in Seq(WindowEntries)
          /\ DOMAIN s = 1 .. Len(a) + Len(b)
      BY <2>1, <2>2, ConcatProperties
    <3>2. \A j \in 1 .. Len(a) + Len(b) : s[j] = IF j <= Len(a) THEN a[j] ELSE b[j - Len(a)]
      BY <2>1, <2>2
    <3>3. Len(a) + Len(b) = n - 1
      BY <1>2, <2>2
    <3>4. \A j \in 1 .. n - 1 : j < i <=> j <= Len(a)
      BY <1>2, <2>2
    <3> QED BY <2>2, <3>1, <3>2, <3>3, <3>4
  <2>4. ASSUME NEW j \in 1 .. n - 1 PROVE s[j] = registered[IF j < i THEN j ELSE j + 1]
    <3>1. CASE j < i
      BY <1>2, <1>3, <2>3, <3>1 DEF a
    <3>2. CASE ~(j < i)
      <4>1. j - (i - 1) \in 1 .. n - i /\ (j - (i - 1)) + i = j + 1
        BY <1>2, <3>2
      <4> QED BY <1>4, <2>3, <3>2, <4>1 DEF b
    <3> QED BY <3>1, <3>2
  <2> QED BY <2>3, <2>4
<1> HIDE DEF s
<1>6. ASSUME NEW j \in 1 .. n - 1
      PROVE  (IF j < i THEN j ELSE j + 1) \in (1 .. n) \ {i}
  BY <1>2
<1>7. Listing(s, destroyed)
  <2>1. \A j, k \in DOMAIN s : s[j].window = s[k].window => j = k
    <3> SUFFICES ASSUME NEW j \in DOMAIN s, NEW k \in DOMAIN s, s[j].window = s[k].window
                 PROVE  j = k
      OBVIOUS
    <3> DEFINE Place(m) == IF m < i THEN m ELSE m + 1
    <3>1. /\ Place(j) \in 1 .. n /\ s[j] = registered[Place(j)]
          /\ Place(k) \in 1 .. n /\ s[k] = registered[Place(k)]
      BY <1>5, <1>6
    <3> HIDE DEF Place
    <3>2. Place(j) = Place(k)
      BY <1>1, <1>2, <3>1 DEF Listing
    <3> QED BY <1>2, <1>5, <3>2 DEF Place
  <2>2. ASSUME NEW j \in DOMAIN s PROVE s[j].window \notin destroyed
    <3> DEFINE k == IF j < i THEN j ELSE j + 1
    <3>1. k \in 1 .. n /\ s[j] = registered[k]
      BY <1>5, <1>6
    <3> HIDE DEF k
    <3> QED BY <1>1, <1>2, <3>1 DEF Listing
  <2> QED BY <1>5, <2>1, <2>2 DEF Listing
<1>8. ASSUME NEW j \in DOMAIN s PROVE s[j].window # registered[i].window
  <2> DEFINE k == IF j < i THEN j ELSE j + 1
  <2>1. k \in (1 .. n) \ {i} /\ s[j] = registered[k]
    BY <1>5, <1>6
  <2> HIDE DEF k
  <2> QED BY <1>1, <1>2, <2>1 DEF Listing
<1>9. ASSUME NEW v, NEW h, v # registered[i].window, Entry(v, h) \in Range(registered)
      PROVE  Entry(v, h) \in Range(s)
  <2>1. PICK j \in 1 .. n : registered[j] = Entry(v, h)
    BY <1>2, <1>9 DEF Range
  <2>2. j # i
    BY <1>9, <2>1 DEF Entry
  <2> DEFINE k == IF j < i THEN j ELSE j - 1
  <2>3. k \in 1 .. n - 1 /\ (IF k < i THEN k ELSE k + 1) = j
    BY <1>2, <2>2
  <2>4. s[k] = Entry(v, h)
    BY <1>5, <2>1, <2>3
  <2> QED BY <1>5, <2>3, <2>4 DEF Range
<1> QED BY <1>7, <1>8, <1>9 DEF s

(* The window that takes over is open.                                     *)
LEMMA HeirIsOpen ==
  ASSUME NEW entries \in Seq(WindowEntries), Entry(MainWindow, FALSE) \in Range(entries)
  PROVE  Entry(Heir(entries), FALSE) \in Range(entries)
<1> DEFINE open == {i \in DOMAIN entries : ~entries[i].hidden}
           n == Len(entries)
<1>1. n \in Nat /\ DOMAIN entries = 1 .. n
  OBVIOUS
<1>2. PICK i \in DOMAIN entries : entries[i] = Entry(MainWindow, FALSE)
  BY DEF Range
<1>3. i \in open
  BY <1>2 DEF Entry
<1>4. open \in SUBSET (1 .. n) /\ open # {}
  BY <1>1, <1>3
<1>5. \E m \in open : \A k \in open : k <= m
  BY <1>1, <1>4, GreatestBelow
<1>6. Max(open) \in open
  <2>1. \E m \in open : \A k \in open : m >= k
    BY <1>1, <1>4, <1>5
  <2> HIDE DEF open
  <2> QED BY <2>1 DEF Max
<1>7. Heir(entries) = entries[Max(open)].window
  BY <1>4 DEF Heir
<1>8. entries[Max(open)] \in WindowEntries /\ ~entries[Max(open)].hidden
  BY <1>6
<1>9. entries[Max(open)] = Entry(Heir(entries), FALSE)
  BY <1>7, <1>8 DEF Entry, WindowEntries
<1> QED BY <1>6, <1>9 DEF Range

(* What a snapshot says of a window.                                       *)
WindowStates == [active : BOOLEAN, external : BOOLEAN]
Shows(f, w) == w \in DOMAIN f /\ f[w].active

(* A popup is never given the input, and no two windows are.               *)
Picture(f) ==
  /\ DOMAIN f \subseteq Windows
  /\ \A w \in DOMAIN f : f[w] \in WindowStates /\ (f[w].external <=> w = HudWindow)
  /\ \A v, w : Shows(f, v) /\ Shows(f, w) => v = w \/ HudWindow \in {v, w}

LEMMA SnapshotIsPicture ==
  ASSUME NEW show \in BOOLEAN, NEW entries, NEW first, NEW popups, NEW gone,
         Fit(entries, first, popups, gone)
  PROVE  LET f == Snapshot(show, entries, first, popups)
         IN /\ Picture(f)
            /\ Len(entries) + Len(popups) <= MAX_WINDOWS =>
                 \A w : Shows(f, w) <=> w \in Range(popups) \/ (show /\ w = first)
<1> DEFINE f == Snapshot(show, entries, first, popups)
           ids == [i \in DOMAIN entries |-> entries[i].window]
           all == ids \o popups
           head == SubSeq(all, 1, Min({Len(all), MAX_WINDOWS}))
<1>1. /\ entries \in Seq(WindowEntries) /\ popups \in Seq(Windows) /\ Range(popups) \subseteq {HudWindow}
      /\ show \in BOOLEAN
  <2>1. <<HudWindow>> \in Seq(Windows) /\ << >> \in Seq(Windows)
    BY DEF Windows
  <2>2. Range(<<HudWindow>>) = {HudWindow} /\ Range(<< >>) = {}
    BY DEF Range
  <2> QED BY <2>1, <2>2 DEF Fit, Listing
<1>2. /\ ids \in Seq(Windows \ {HudWindow}) /\ Len(ids) = Len(entries) /\ DOMAIN ids = DOMAIN entries
      /\ \A i \in DOMAIN entries : ids[i] = entries[i].window
  <2>1. \A i \in DOMAIN entries : entries[i].window \in Windows \ {HudWindow}
    <3>1. \A i \in DOMAIN entries : entries[i] \in WindowEntries
      BY <1>1
    <3> QED BY <3>1 DEF WindowEntries
  <2>2. DOMAIN entries = 1 .. Len(entries) /\ Len(entries) \in Nat
    BY <1>1
  <2> QED BY <2>1, <2>2
<1>3. ids \in Seq(Windows)
  BY <1>2
<1> HIDE DEF ids
<1>4. /\ all \in Seq(Windows) /\ Len(all) = Len(ids) + Len(popups)
      /\ \A i \in 1 .. Len(all) : all[i] = IF i <= Len(ids) THEN ids[i] ELSE popups[i - Len(ids)]
  BY <1>1, <1>3, ConcatProperties
<1> DEFINE m == Min({Len(all), MAX_WINDOWS})
<1>5. m \in Nat /\ m <= Len(all) /\ (Len(all) <= MAX_WINDOWS => m = Len(all))
  <2>1. Len(all) \in Nat /\ MAX_WINDOWS \in Nat
    BY <1>4, OverlayAssumption
  <2> DEFINE a == Len(all)
  <2> HIDE DEF all, a
  <2>2. a \in Nat
    BY <2>1 DEF a
  <2>3. Min({a, MAX_WINDOWS}) = IF a <= MAX_WINDOWS THEN a ELSE MAX_WINDOWS
    BY <2>1, <2>2 DEF Min
  <2> QED BY <2>1, <2>2, <2>3 DEF a
<1> HIDE DEF all, m
<1>6. head = SubSeq(all, 1, m) /\ DOMAIN head = 1 .. m /\ \A i \in 1 .. m : head[i] = all[i]
  <2>1. \A i \in 1 .. m : i \in 1 .. Len(all)
    BY <1>4, <1>5
  <2>2. m \in 1 .. Len(all) + 1 \/ m = 0
    BY <1>4, <1>5
  <2>3. SubSeq(all, 1, m) = [i \in 1 .. m |-> all[i]]
    BY <1>4, <1>5, <2>1
  <2> QED BY <2>3 DEF m
<1> HIDE DEF head
<1>7. Range(head) \subseteq Windows
  BY <1>4, <1>5, <1>6 DEF Range
<1>8. f = [w \in Range(head) |->
             IF w \in Range(popups) THEN StateOf(TRUE, TRUE)
             ELSE StateOf(show /\ w = first /\ Entry(w, FALSE) \in Range(entries), FALSE)]
  BY DEF Snapshot, head, m, all, ids
<1>9. \A w \in Range(head) : w = HudWindow <=> w \in Range(popups)
  <2> SUFFICES ASSUME NEW w \in Range(head), w = HudWindow PROVE w \in Range(popups)
    BY <1>1
  <2>1. PICK i \in 1 .. m : w = all[i]
    BY <1>6 DEF Range
  <2>2. ~(i <= Len(ids))
    BY <1>2, <1>4, <1>5, <2>1
  <2>3. i - Len(ids) \in 1 .. Len(popups) /\ w = popups[i - Len(ids)]
    BY <1>1, <1>2, <1>4, <1>5, <2>1, <2>2
  <2> QED BY <1>1, <2>3 DEF Range
<1> HIDE DEF f
<1>10. \A w : Shows(f, w) <=> w \in Range(head) /\ (w \in Range(popups) \/ (show /\ w = first))
  BY <1>1, <1>8 DEF Shows, StateOf, Fit
<1>11. Picture(f)
  <2>1. \A w \in DOMAIN f : f[w] \in WindowStates /\ (f[w].external <=> w = HudWindow)
    BY <1>1, <1>8, <1>9 DEF StateOf, WindowStates
  <2>2. \A v, w : Shows(f, v) /\ Shows(f, w) => v = w \/ HudWindow \in {v, w}
    BY <1>1, <1>10
  <2> QED BY <1>7, <1>8, <2>1, <2>2 DEF Picture
<1>12. ASSUME Len(entries) + Len(popups) <= MAX_WINDOWS,
              NEW w, w \in Range(popups) \/ w = first
       PROVE  w \in Range(head)
  <2>1. m = Len(all) /\ Len(all) = Len(ids) + Len(popups)
    BY <1>2, <1>4, <1>5, <1>12
  <2>2. CASE w \in Range(popups)
    <3>1. PICK i \in 1 .. Len(popups) : w = popups[i]
      BY <1>1, <2>2 DEF Range
    <3>2. i + Len(ids) \in 1 .. m /\ head[i + Len(ids)] = w
      BY <1>1, <1>2, <1>4, <1>6, <2>1, <3>1
    <3> QED BY <1>6, <3>2 DEF Range
  <2>3. CASE w = first
    <3>1. PICK i \in DOMAIN entries : entries[i] = Entry(first, FALSE)
      BY DEF Fit, Range
    <3>2. i \in 1 .. m /\ head[i] = first
      BY <1>1, <1>2, <1>4, <1>6, <2>1, <3>1 DEF Entry
    <3> QED BY <1>6, <2>3, <3>2 DEF Range
  <2> QED BY <1>12, <2>2, <2>3
<1> QED BY <1>10, <1>11, <1>12 DEF f

(* The GTK thread keeps its windows so, and posts what it has.             *)
WindowsKept ==
  /\ WindowsFit' /\ gamescope' = gamescope /\ destroyed \subseteq destroyed'
  /\ \/ mailbox' = mailbox /\ UNCHANGED <<visible, registered, current, huds>>
     \/ mailbox' = mailbox /\ ~gamescope
     \/ gamescope /\ Submit(Snapshot(visible, registered, current, huds)')
  /\ UNCHANGED <<owner, x, broken>>

LEMMA SyncKeeps ==
  ASSUME gamescope \in BOOLEAN, NEW show \in BOOLEAN, NEW entries, NEW first, NEW popups,
         Sync(show, entries, first, popups), destroyed \subseteq destroyed',
         Fit(entries, first, popups, destroyed')
  PROVE  WindowsKept
BY DEF Sync, WindowsKept, WindowsFit

LEMMA RetiredIsOpen ==
  ASSUME NEW entries, NEW w, entries \in Seq(WindowEntries),
         Entry(MainWindow, FALSE) \in Range(entries),
         w # current => Entry(current, FALSE) \in Range(entries)
  PROVE  Entry(Retired(entries, w), FALSE) \in Range(entries)
BY HeirIsOpen DEF Retired

LEMMA GtkKeepsWindows ==
  ASSUME WindowsFit, GtkThread
  PROVE  WindowsKept
<1> USE DEF Acts
<1>1. visible \in BOOLEAN /\ gamescope \in BOOLEAN /\ Fit(registered, current, huds, destroyed)
  BY DEF WindowsFit
<1>2. /\ FansWindow \in Windows \ {HudWindow} /\ Dialogs \subseteq Windows \ {HudWindow}
      /\ MainWindow \notin Dialogs \cup {FansWindow} /\ FansWindow \notin Dialogs \cup {HudWindow}
  BY OverlayAssumption DEF Windows
<1>3. FansWindow \notin destroyed
  BY <1>1, <1>2 DEF Fit
<1>4. CASE Toggle
  <2>1. Sync(~visible, registered, current, huds) /\ destroyed' = destroyed
    BY <1>4 DEF Toggle
  <2>2. (~visible) \in BOOLEAN
    BY Zenon
  <2> QED BY <1>1, <2>1, <2>2, SyncKeeps
<1>5. ASSUME NEW w \in Windows \ {HudWindow}, w \notin destroyed, Present(w) PROVE WindowsKept
  <2> DEFINE entries == Listed(registered, w, FALSE)
  <2>1. Sync(visible, entries, w, huds) /\ destroyed' = destroyed
    BY <1>5 DEF Present
  <2>2. /\ Listing(entries, destroyed) /\ Entry(w, FALSE) \in Range(entries)
        /\ MainWindow # w => Entry(MainWindow, FALSE) \in Range(entries)
    BY <1>1, <1>5, ListedFits DEF Fit
  <2> HIDE DEF entries
  <2>3. Fit(entries, w, huds, destroyed)
    BY <1>1, <2>2 DEF Fit
  <2> QED BY <1>1, <2>1, <2>3, SyncKeeps
<1>6. CASE OpenFans \/ OpenDialog
  BY <1>2, <1>3, <1>5, <1>6 DEF OpenFans, OpenDialog
<1>7. CASE HideFans
  <2> DEFINE entries == Listed(registered, FansWindow, TRUE)
  <2>1. Sync(visible, entries, Retired(entries, FansWindow), huds) /\ destroyed' = destroyed
    BY <1>7 DEF HideFans
  <2>2. /\ Listing(entries, destroyed) /\ Entry(MainWindow, FALSE) \in Range(entries)
        /\ (FansWindow # current => Entry(current, FALSE) \in Range(entries))
    BY <1>1, <1>2, <1>3, ListedFits DEF Fit
  <2> HIDE DEF entries
  <2>3. Fit(entries, Retired(entries, FansWindow), huds, destroyed)
    BY <1>1, <2>2, RetiredIsOpen DEF Fit, Listing
  <2> QED BY <1>1, <2>1, <2>3, SyncKeeps
<1>8. CASE CloseDialog
  <2>1. PICK d \in Dialogs, i \in DOMAIN registered :
          /\ registered[i].window = d /\ destroyed' = destroyed \cup {d}
          /\ Sync(visible, RemoveAt(registered, i), Retired(RemoveAt(registered, i), d), huds)
    BY <1>8 DEF CloseDialog
  <2> DEFINE entries == RemoveAt(registered, i)
  <2>2. d # MainWindow /\ d # HudWindow
    BY <1>2
  <2>3. /\ Listing(entries, destroyed) /\ Entry(MainWindow, FALSE) \in Range(entries)
        /\ \A j \in DOMAIN entries : entries[j].window # d
        /\ (d # current => Entry(current, FALSE) \in Range(entries))
    BY <1>1, <2>1, <2>2, RemovedFits DEF Fit
  <2>4. Sync(visible, entries, Retired(entries, d), huds)
    BY <2>1
  <2> HIDE DEF entries
  <2>5. Listing(entries, destroyed')
    BY <2>1, <2>3 DEF Listing
  <2>6. Fit(entries, Retired(entries, d), huds, destroyed')
    BY <1>1, <2>1, <2>2, <2>3, <2>5, RetiredIsOpen DEF Fit, Listing
  <2> QED BY <1>1, <2>1, <2>4, <2>6, SyncKeeps
<1>9. CASE HudPopup
  <2>1. /\ Sync(visible, registered, current, <<HudWindow>>) /\ destroyed' = destroyed
        /\ HudWindow \notin destroyed
    BY <1>9 DEF HudPopup
  <2>2. Fit(registered, current, <<HudWindow>>, destroyed)
    BY <1>1, <2>1 DEF Fit
  <2> QED BY <1>1, <2>1, <2>2, SyncKeeps
<1>10. CASE HudTimeout
  <2>1. destroyed' = destroyed \cup {HudWindow} /\ Sync(visible, registered, current, << >>)
    BY <1>10 DEF HudTimeout
  <2>2. Listing(registered, destroyed')
    <3>1. \A i \in DOMAIN registered : registered[i] \in WindowEntries
      BY <1>1 DEF Fit, Listing
    <3>2. \A i \in DOMAIN registered : registered[i].window # HudWindow
      BY <3>1 DEF WindowEntries
    <3> QED BY <1>1, <2>1, <3>2 DEF Fit, Listing
  <2>3. Fit(registered, current, << >>, destroyed')
    BY <1>1, <2>1, <2>2 DEF Fit
  <2> QED BY <1>1, <2>1, <2>3, SyncKeeps
<1>11. CASE LeaveMessage \/ WakeUp \/ Quit
  <2>1. UNCHANGED <<gamescope, visible, registered, current, huds, destroyed, mailbox, owner, x, broken>>
    BY <1>11 DEF LeaveMessage, WakeUp, Quit, Keep, windowVars, ownerVars
  <2> QED BY <2>1 DEF WindowsKept, WindowsFit
<1> QED BY <1>4, <1>6, <1>7, <1>8, <1>9, <1>10, <1>11 DEF GtkThread

(* What the X11 owner was given: its pictures, and every window that was   *)
(* shown and is not any more is among those that must be seen hidden.      *)
MailboxFits ==
  /\ Picture(mailbox.last) /\ Picture(owner.applied)
  /\ mailbox.forced \subseteq Windows
  /\ mailbox.latest \in {<< >>, <<mailbox.last>>}
  /\ mailbox.latest = << >> => mailbox.last = owner.applied /\ mailbox.forced = {}
  /\ \A w : Shows(owner.applied, w) => Shows(mailbox.last, w) \/ w \in mailbox.forced
  /\ gamescope => mailbox.last = Snapshot(visible, registered, current, huds)

(* What is due on the way to the picture f: a window is owed at most one   *)
(* state of a rank, and the last of them is the one it has in the picture. *)
IsDue(d, f) ==
  /\ d.rank \in 1 .. 3 /\ d.window \in Windows /\ d.state \in WindowStates
  /\ d.state.active => (d.state.external <=> d.window = HudWindow)
  /\ d.rank <= 2 => ~d.state.active
  /\ d.rank = 3 => d.window \in DOMAIN f /\ d.state = f[d.window]
EndsIn(d, due, f) ==
  (\A e \in due : e.window = d.window => e.rank <= d.rank)
    => (d.state.active <=> Shows(f, d.window))
LeadsTo(due, f) ==
  /\ \A d \in due : IsDue(d, f) /\ EndsIn(d, due, f)
  /\ \A d, e \in due : d.rank = e.rank /\ d.window = e.window => d = e

DuesFit ==
  /\ owner = [applied |-> owner.applied, due |-> owner.due, half |-> owner.half]
  /\ owner.half \in BOOLEAN /\ LeadsTo(owner.due, owner.applied)

(* The X server at every prefix of the requests, whichever arrived.        *)
Live == Windows \ destroyed
ServerFits ==
  /\ x \in [Windows -> [opaque : BOOLEAN, focus : BOOLEAN]] /\ broken \in BOOLEAN
  /\ \A w \in Live : x[w].focus => x[w].opaque /\ w # HudWindow
  /\ \A v, w \in Live : x[v].focus /\ x[w].focus => v = w

(* As long as they all arrive: a window to which nothing is due is as the  *)
(* owner's picture has it; one that must give up the input is due for that *)
(* before anything is shown; and no window is left half done.              *)
HasWhatIsShown ==
  \A w \in Live : (\A d \in owner.due : d.window # w) =>
    /\ x[w].opaque <=> Shows(owner.applied, w)
    /\ x[w].focus <=> Shows(owner.applied, w) /\ w # HudWindow
GivesUpFirst ==
  \A w \in Live : x[w].focus /\ ~Shows(owner.applied, w) =>
    \E d \in owner.due : d.window = w /\ d.rank <= 2
Foremost(d) == d \in owner.due /\ \A e \in owner.due \ {d} : Precedes(d, e)
HalfDone ==
  owner.half => \A d \in owner.due : Foremost(d) /\ d.window \notin destroyed =>
    IF d.state.active /\ ~d.state.external THEN x[d.window].opaque ELSE ~x[d.window].focus

OwnerFits ==
  MailboxFits /\ DuesFit /\ ServerFits /\ (~broken => HasWhatIsShown /\ GivesUpFirst /\ HalfDone)

LEMMA OwnerStarts ==
  ASSUME OverlayInit
  PROVE  WindowsFit /\ OwnerFits
<1>1. /\ MainWindow \in Windows \ {HudWindow} /\ HudWindow # MainWindow
  BY OverlayAssumption DEF Windows
<1>2. WindowsFit
  <2>1. /\ registered = <<Entry(MainWindow, FALSE)>> /\ current = MainWindow /\ huds = << >>
        /\ destroyed = {} /\ gamescope \in BOOLEAN /\ visible \in BOOLEAN
    BY DEF OverlayInit
  <2>2. Entry(MainWindow, FALSE) \in WindowEntries
    BY <1>1 DEF Entry, WindowEntries
  <2>3. /\ registered \in Seq(WindowEntries) /\ DOMAIN registered = 1 .. 1
        /\ registered[1] = Entry(MainWindow, FALSE)
    <3> DEFINE e == Entry(MainWindow, FALSE)
    <3> HIDE DEF e
    <3>1. e \in WindowEntries /\ registered = <<e>>
      BY <2>1, <2>2 DEF e
    <3>2. <<e>> \in Seq(WindowEntries) /\ DOMAIN <<e>> = 1 .. 1 /\ <<e>>[1] = e
      BY <3>1
    <3> QED BY <3>1, <3>2 DEF e
  <2>4. Entry(MainWindow, FALSE) \in Range(registered)
    <3>1. 1 \in DOMAIN registered
      BY <2>3
    <3> QED BY <2>3, <3>1 DEF Range
  <2>5. Listing(registered, destroyed)
    <3>1. \A i, j \in DOMAIN registered : i = j
      BY <2>3
    <3> QED BY <2>1, <2>3, <3>1 DEF Listing
  <2> QED BY <2>1, <2>4, <2>5 DEF WindowsFit, Fit
<1> DEFINE next == Snapshot(visible, registered, current, huds)
<1>3. Picture(next)
  BY <1>2, SnapshotIsPicture DEF WindowsFit
<1>4. /\ mailbox = [latest |-> <<next>>, last |-> next, forced |-> {}]
      /\ owner = [applied |-> << >>, due |-> {}, half |-> FALSE]
      /\ x = [w \in Windows |-> [opaque |-> FALSE, focus |-> FALSE]] /\ broken = FALSE
  BY DEF OverlayInit
<1> HIDE DEF next
<1>5. DOMAIN << >> = {}
  OBVIOUS
<1>6. Picture(<< >>) /\ \A w : ~Shows(<< >>, w)
  BY <1>5 DEF Picture, Shows
<1>7. MailboxFits
  BY <1>3, <1>4, <1>6 DEF MailboxFits, next
<1>8. DuesFit
  BY <1>4 DEF DuesFit, LeadsTo
<1>9. ServerFits
  BY <1>4 DEF ServerFits, Live
<1>10. HasWhatIsShown /\ GivesUpFirst /\ HalfDone
  BY <1>4, <1>6 DEF HasWhatIsShown, GivesUpFirst, HalfDone, Live
<1> QED BY <1>2, <1>7, <1>8, <1>9, <1>10 DEF OwnerFits

(* The owner is not disturbed while windows come and go.                   *)
LEMMA SubmitKeepsMailbox ==
  ASSUME WindowsFit, OwnerFits, GtkThread
  PROVE  OwnerFits'
<1>1. WindowsKept
  BY GtkKeepsWindows
<1>2. owner' = owner /\ x' = x /\ broken' = broken /\ destroyed \subseteq destroyed'
  BY <1>1 DEF WindowsKept
<1>3. MailboxFits'
  <2>1. CASE mailbox' = mailbox /\ UNCHANGED <<visible, registered, current, huds>>
    BY <1>1, <1>2, <2>1 DEF WindowsKept, OwnerFits, MailboxFits
  <2>2. CASE mailbox' = mailbox /\ ~gamescope
    BY <1>1, <1>2, <2>2 DEF WindowsKept, OwnerFits, MailboxFits
  <2>3. CASE gamescope /\ Submit(Snapshot(visible, registered, current, huds)')
    <3> DEFINE next == Snapshot(visible, registered, current, huds)'
    <3>1. Picture(next)
      <4>1. Fit(registered', current', huds', destroyed') /\ visible' \in BOOLEAN
        BY <1>1 DEF WindowsKept, WindowsFit
      <4> QED BY <4>1, SnapshotIsPicture
    <3>2. next = Snapshot(visible', registered', current', huds')
      OBVIOUS
    <3> HIDE DEF next
    <3>3. mailbox' = [latest |-> <<next>>, last |-> next, forced |-> HiddenEdges(next)]
      BY <2>3 DEF Submit, next
    <3>4. HiddenEdges(next) \subseteq Windows
      BY DEF HiddenEdges, OwnerFits, MailboxFits, Picture
    <3>5. ASSUME NEW w, Shows(owner.applied, w)
          PROVE  Shows(next, w) \/ w \in HiddenEdges(next)
      <4>1. Shows(mailbox.last, w) \/ w \in mailbox.forced
        BY <3>5 DEF OwnerFits, MailboxFits
      <4> QED BY <4>1 DEF HiddenEdges, Shows
    <3>6. <<next>> # << >>
      OBVIOUS
    <3>7. Picture(owner.applied)
      BY DEF OwnerFits, MailboxFits
    <3> QED BY <1>2, <3>1, <3>2, <3>3, <3>4, <3>5, <3>6, <3>7 DEF MailboxFits
  <2> QED BY <1>1, <2>1, <2>2, <2>3 DEF WindowsKept
<1>4. DuesFit'
  BY <1>2 DEF OwnerFits, DuesFit
<1>5. ServerFits'
  BY <1>2 DEF OwnerFits, ServerFits, Live
<1>6. ~broken' => (HasWhatIsShown /\ GivesUpFirst /\ HalfDone)'
  BY <1>2 DEF OwnerFits, HasWhatIsShown, GivesUpFirst, HalfDone, Foremost, Live
<1> QED BY <1>3, <1>4, <1>5, <1>6 DEF OwnerFits

(* apply_snapshot's three passes lead to the new picture.                  *)
LEMMA PlanLeads ==
  ASSUME NEW f, NEW g, NEW forced \in SUBSET Windows, Picture(f), Picture(g)
  PROVE  LET plan == Plan(f, g, forced)
         IN /\ LeadsTo(plan, g)
            /\ \A w \in forced : \E d \in plan : d.window = w /\ d.rank <= 2
            /\ \A w : (\A d \in plan : d.window # w) => (Shows(f, w) <=> Shows(g, w))
<1> DEFINE Prior(w) == IF w \in DOMAIN f THEN f[w]
                       ELSE IF w \in DOMAIN g THEN g[w] ELSE StateOf(FALSE, FALSE)
           Hidden(w) == StateOf(FALSE, Prior(w).external)
           now == [w \in (DOMAIN f \cup forced) \ (forced \ DOMAIN g) |->
                     IF w \in forced THEN Hidden(w) ELSE f[w]]
           P1 == {Owed(1, w, Hidden(w)) : w \in forced}
           P2 == {Owed(2, w, Hidden(w)) : w \in DOMAIN now \ DOMAIN g}
           P3 == {Owed(3, w, g[w]) : w \in {v \in DOMAIN g : v \notin DOMAIN now \/ now[v] # g[v]}}
           plan == Plan(f, g, forced)
<1>1. plan = P1 \cup P2 \cup P3
  BY DEF Plan
<1>2. \A w : Hidden(w) \in WindowStates /\ Hidden(w).active = FALSE
  BY DEF Picture, WindowStates, StateOf
<1>3. /\ DOMAIN now = (DOMAIN f \cup forced) \ (forced \ DOMAIN g) /\ DOMAIN now \subseteq Windows
      /\ \A w \in DOMAIN now : now[w] = IF w \in forced THEN Hidden(w) ELSE f[w]
  BY DEF Picture
<1> HIDE DEF Hidden, now
<1>4. \A d \in P1 : d.rank = 1 /\ d.window \in forced /\ d.state = Hidden(d.window)
  BY DEF Owed
<1>5. \A d \in P2 : d.rank = 2 /\ d.window \in DOMAIN now \ DOMAIN g /\ d.state = Hidden(d.window)
  BY DEF Owed
<1>6. \A d \in P3 : d.rank = 3 /\ d.window \in DOMAIN g /\ d.state = g[d.window]
  BY DEF Owed
<1>7. \A w \in forced : \E d \in P1 : d.window = w
  <2>1. \A w \in forced : Owed(1, w, Hidden(w)) \in P1 /\ Owed(1, w, Hidden(w)).window = w
    BY DEF Owed
  <2> QED BY <2>1
<1>8. \A w \in DOMAIN now \ DOMAIN g : \E d \in P2 : d.window = w
  <2>1. \A w \in DOMAIN now \ DOMAIN g : Owed(2, w, Hidden(w)) \in P2 /\ Owed(2, w, Hidden(w)).window = w
    BY DEF Owed
  <2> QED BY <2>1
<1>9. \A w \in DOMAIN g : w \notin DOMAIN now \/ now[w] # g[w] => \E d \in P3 : d.window = w
  <2>1. \A w \in DOMAIN g : w \notin DOMAIN now \/ now[w] # g[w] =>
          Owed(3, w, g[w]) \in P3 /\ Owed(3, w, g[w]).window = w
    BY DEF Owed
  <2> QED BY <2>1
<1>10. \A d, e \in plan : d.rank = e.rank /\ d.window = e.window => d = e
  <2>1. \A d \in plan : d = Owed(d.rank, d.window, d.state)
    BY <1>1 DEF Owed
  <2>2. \A d, e \in plan : d.rank = e.rank /\ d.window = e.window => d.state = e.state
    BY <1>1, <1>4, <1>5, <1>6
  <2> QED BY <2>1, <2>2
<1> HIDE DEF P1, P2, P3, plan
<1>11. \A d \in plan : IsDue(d, g)
  <2>1. \A d \in P1 : IsDue(d, g)
    BY <1>2, <1>4 DEF IsDue
  <2>2. \A d \in P2 : IsDue(d, g)
    BY <1>2, <1>3, <1>5 DEF IsDue
  <2>3. \A d \in P3 : IsDue(d, g)
    BY <1>6 DEF IsDue, Picture
  <2> QED BY <1>1, <2>1, <2>2, <2>3
<1>12. ASSUME NEW d \in plan, \A e \in plan : e.window = d.window => e.rank <= d.rank
       PROVE  d.state.active <=> Shows(g, d.window)
  <2>1. CASE d \in P1
    <3>1. \A e \in P3 : e.window # d.window
      BY <1>1, <1>4, <1>6, <1>12, <2>1
    <3>2. d.window \in DOMAIN g => d.window \in DOMAIN now /\ now[d.window] = g[d.window]
      BY <1>9, <3>1
    <3>3. d.window \in forced
      BY <1>4, <2>1
    <3>4. ~Shows(g, d.window)
      BY <1>2, <1>3, <3>2, <3>3 DEF Shows
    <3>5. d.state.active = FALSE
      BY <1>2, <1>4, <2>1
    <3> QED BY <3>4, <3>5
  <2>2. CASE d \in P2
    BY <1>2, <1>5, <2>2 DEF Shows
  <2>3. CASE d \in P3
    <3>1. d.window \in DOMAIN g /\ d.state = g[d.window] /\ g[d.window].active \in BOOLEAN
      BY <1>6, <2>3 DEF Picture, WindowStates
    <3> QED BY <3>1 DEF Shows
  <2> QED BY <1>1, <2>1, <2>2, <2>3
<1>13. LeadsTo(plan, g)
  BY <1>10, <1>11, <1>12 DEF LeadsTo, EndsIn
<1>14. \A w \in forced : \E d \in plan : d.window = w /\ d.rank <= 2
  <2> SUFFICES ASSUME NEW w \in forced PROVE \E d \in plan : d.window = w /\ d.rank <= 2
    OBVIOUS
  <2>1. PICK d \in P1 : d.window = w
    BY <1>7
  <2>2. d.rank = 1 /\ d \in plan
    BY <1>1, <1>4, <2>1
  <2> QED BY <2>1, <2>2
<1>15. ASSUME NEW w, \A d \in plan : d.window # w
       PROVE  Shows(f, w) <=> Shows(g, w)
  <2>1. w \notin forced /\ w \notin DOMAIN now \ DOMAIN g
    BY <1>1, <1>7, <1>8, <1>15
  <2>2. w \in DOMAIN g => w \in DOMAIN now /\ now[w] = g[w]
    BY <1>1, <1>9, <1>15
  <2>3. w \in DOMAIN now <=> w \in DOMAIN f
    BY <1>3, <2>1
  <2>4. w \in DOMAIN now => now[w] = f[w]
    BY <1>3, <2>1
  <2> QED BY <2>1, <2>2, <2>3, <2>4 DEF Shows
<1> QED BY <1>13, <1>14, <1>15 DEF plan

LEMMA TakeKeepsOwner ==
  ASSUME WindowsFit, OwnerFits, Take
  PROVE  OwnerFits'
<1> DEFINE plan == Plan(owner.applied, mailbox.last, mailbox.forced)
<1>1. mailbox.latest = <<mailbox.last>> /\ Head(mailbox.latest) = mailbox.last /\ owner.due = {}
  BY DEF Take, OwnerFits, MailboxFits
<1>2. /\ owner' = [applied |-> mailbox.last, due |-> plan, half |-> FALSE]
      /\ mailbox' = [mailbox EXCEPT !.latest = << >>, !.forced = {}]
      /\ x' = x /\ broken' = broken /\ UNCHANGED <<gamescope, visible, registered, current, huds, destroyed>>
  BY <1>1 DEF Take, windowVars
<1>3. /\ LeadsTo(plan, mailbox.last)
      /\ \A w \in mailbox.forced : \E d \in plan : d.window = w /\ d.rank <= 2
      /\ \A w : (\A d \in plan : d.window # w) => (Shows(owner.applied, w) <=> Shows(mailbox.last, w))
  BY PlanLeads DEF OwnerFits, MailboxFits
<1> HIDE DEF plan
<1>4. MailboxFits'
  BY <1>1, <1>2 DEF OwnerFits, MailboxFits
<1>5. DuesFit'
  BY <1>2, <1>3 DEF DuesFit
<1>6. ServerFits'
  BY <1>2 DEF OwnerFits, ServerFits, Live
<1>7. ASSUME ~broken PROVE (HasWhatIsShown /\ GivesUpFirst /\ HalfDone)'
  <2>1. \A w \in Live : /\ x[w].opaque <=> Shows(owner.applied, w)
                        /\ x[w].focus <=> Shows(owner.applied, w) /\ w # HudWindow
    BY <1>1, <1>7 DEF OwnerFits, HasWhatIsShown
  <2>2. HasWhatIsShown'
    BY <1>2, <1>3, <2>1 DEF HasWhatIsShown, Live
  <2>3. \A w : Shows(owner.applied, w) => Shows(mailbox.last, w) \/ w \in mailbox.forced
    BY DEF OwnerFits, MailboxFits
  <2>4. GivesUpFirst'
    BY <1>2, <1>3, <2>1, <2>3 DEF GivesUpFirst, Live
  <2> QED BY <1>2, <2>2, <2>4 DEF HalfDone
<1> QED BY <1>2, <1>4, <1>5, <1>6, <1>7 DEF OwnerFits

(* A request concerns one window, and what is due comes one after another. *)
LEMMA ForemostIsFirst ==
  ASSUME OwnerFits, NEW d, Foremost(d)
  PROVE  /\ \A e \in owner.due : Foremost(e) => e = d
         /\ \A e \in owner.due : d.rank <= e.rank
         /\ \A e \in owner.due : e.window = d.window => e = d \/ d.rank < e.rank
<1>1. \A e \in owner.due : e.rank \in Nat /\ e.window \in Nat
  BY OverlayAssumption DEF OwnerFits, DuesFit, LeadsTo, IsDue
<1>2. d \in owner.due /\ \A e \in owner.due : e = d \/ Precedes(d, e)
  BY DEF Foremost
<1>3. \A e \in owner.due : e = d \/ ~Precedes(e, d)
  BY <1>1, <1>2 DEF Precedes
<1>4. \A e \in owner.due : Foremost(e) => e = d
  BY <1>2, <1>3 DEF Foremost
<1> QED BY <1>1, <1>2, <1>4 DEF Precedes

(* What is left after the foremost leads to the same picture.              *)
LEMMA DoneWith ==
  ASSUME OwnerFits, NEW d, Foremost(d)
  PROVE  LeadsTo(owner.due \ {d}, owner.applied)
<1> DEFINE rest == owner.due \ {d}
<1>1. d \in owner.due /\ LeadsTo(owner.due, owner.applied)
  BY DEF OwnerFits, DuesFit, Foremost
<1>2. \A e \in owner.due : e.rank \in Nat
  BY <1>1 DEF LeadsTo, IsDue
<1>3. ASSUME NEW e \in rest, \A c \in rest : c.window = e.window => c.rank <= e.rank
      PROVE  e.state.active <=> Shows(owner.applied, e.window)
  <2>1. \A c \in owner.due : c.window = e.window => c.rank <= e.rank
    BY <1>2, <1>3, ForemostIsFirst
  <2> QED BY <1>1, <2>1 DEF LeadsTo, EndsIn
<1> QED BY <1>1, <1>3 DEF LeadsTo, EndsIn

(* What one request changes of a window. *)
Input(d) == d.state.active /\ ~d.state.external
Arrives(d) ==
  x' = [x EXCEPT ![d.window] =
          IF owner.half THEN IF Input(d) THEN [@ EXCEPT !.focus = TRUE]
                             ELSE [@ EXCEPT !.opaque = d.state.active]
          ELSE IF Input(d) THEN [@ EXCEPT !.opaque = TRUE] ELSE [@ EXCEPT !.focus = FALSE]]

LEMMA RequestIs ==
  ASSUME OwnerFits, NEW d, SendOf(d)
  PROVE  /\ broken' \in {broken, TRUE}
         /\ owner' = [owner EXCEPT !.half = ~@, !.due = IF owner.half THEN @ \ {d} ELSE @]
         /\ IF broken' \/ d.window \in destroyed THEN x' = x ELSE Arrives(d)
<1> DEFINE request == ApplyOne(d.state)[IF owner.half THEN 2 ELSE 1]
<1>1. owner.half \in BOOLEAN
  BY DEF OwnerFits, DuesFit
<1>2. request = IF owner.half THEN IF Input(d) THEN Request("focus", TRUE)
                                   ELSE Request("opaque", d.state.active)
                ELSE IF Input(d) THEN Request("opaque", TRUE) ELSE Request("focus", FALSE)
  BY <1>1 DEF ApplyOne, Input
<1>3. /\ broken' \in {broken, TRUE}
      /\ owner' = [owner EXCEPT !.half = ~@, !.due = IF owner.half THEN @ \ {d} ELSE @]
      /\ x' = IF broken' \/ d.window \in destroyed THEN x
              ELSE [x EXCEPT ![d.window][request.what] = request.value]
  BY DEF SendOf
<1> HIDE DEF request
<1>4. [x EXCEPT ![d.window][request.what] = request.value]
        = [x EXCEPT ![d.window] =
            IF owner.half THEN IF Input(d) THEN [@ EXCEPT !.focus = TRUE]
                               ELSE [@ EXCEPT !.opaque = d.state.active]
            ELSE IF Input(d) THEN [@ EXCEPT !.opaque = TRUE] ELSE [@ EXCEPT !.focus = FALSE]]
  <2>1. CASE owner.half /\ Input(d)
    BY <1>2, <2>1 DEF Request
  <2>2. CASE owner.half /\ ~Input(d)
    BY <1>2, <2>2 DEF Request
  <2>3. CASE ~owner.half /\ Input(d)
    BY <1>2, <2>3 DEF Request
  <2>4. CASE ~owner.half /\ ~Input(d)
    BY <1>2, <2>4 DEF Request
  <2> QED BY <2>1, <2>2, <2>3, <2>4
<1> QED BY <1>3, <1>4 DEF Arrives

(* Of the windows nothing is changed but one field of one.                 *)
LEMMA ArrivesAt ==
  ASSUME OwnerFits, NEW d, d.window \in Windows, d.state.active \in BOOLEAN, Arrives(d)
  PROVE  /\ x' \in [Windows -> [opaque : BOOLEAN, focus : BOOLEAN]]
         /\ \A w \in Windows : w # d.window => x'[w] = x[w]
         /\ owner.half /\ Input(d) => x'[d.window].focus /\ x'[d.window].opaque = x[d.window].opaque
         /\ owner.half /\ ~Input(d) =>
              x'[d.window].opaque = d.state.active /\ x'[d.window].focus = x[d.window].focus
         /\ ~owner.half /\ Input(d) => x'[d.window].opaque /\ x'[d.window].focus = x[d.window].focus
         /\ ~owner.half /\ ~Input(d) => ~x'[d.window].focus /\ x'[d.window].opaque = x[d.window].opaque
<1>1. x \in [Windows -> [opaque : BOOLEAN, focus : BOOLEAN]]
  BY DEF OwnerFits, ServerFits
<1>2. CASE owner.half /\ Input(d)
  BY <1>1, <1>2 DEF Arrives
<1>3. CASE owner.half /\ ~Input(d)
  BY <1>1, <1>3 DEF Arrives
<1>4. CASE ~owner.half /\ Input(d)
  BY <1>1, <1>4 DEF Arrives
<1>5. CASE ~owner.half /\ ~Input(d)
  BY <1>1, <1>5 DEF Arrives
<1> QED BY <1>2, <1>3, <1>4, <1>5

LEMMA SendKeepsOwner ==
  ASSUME WindowsFit, OwnerFits, Send
  PROVE  OwnerFits'
<1>1. PICK d \in owner.due : SendOf(d) /\ Foremost(d)
  BY DEF Send, Foremost
<1>2. /\ UNCHANGED <<mailbox, gamescope, visible, registered, current, huds, destroyed>>
      /\ broken' \in {broken, TRUE} /\ broken \in BOOLEAN
      /\ IF broken' \/ d.window \in destroyed THEN x' = x ELSE Arrives(d)
  BY <1>1, RequestIs DEF Send, windowVars, OwnerFits, ServerFits
<1>3. /\ owner = [applied |-> owner.applied, due |-> owner.due, half |-> owner.half]
      /\ owner' = [owner EXCEPT !.half = ~@, !.due = IF owner.half THEN @ \ {d} ELSE @]
      /\ owner.half \in BOOLEAN
  BY <1>1, RequestIs DEF OwnerFits, DuesFit
<1>4. /\ owner' = [applied |-> owner'.applied, due |-> owner'.due, half |-> owner'.half]
      /\ owner'.applied = owner.applied /\ owner'.half = ~owner.half
      /\ owner'.due = IF owner.half THEN owner.due \ {d} ELSE owner.due
  BY <1>3
<1>5. /\ \A e \in owner.due : IsDue(e, owner.applied) /\ EndsIn(e, owner.due, owner.applied)
      /\ x \in [Windows -> [opaque : BOOLEAN, focus : BOOLEAN]]
      /\ Picture(owner.applied)
  BY DEF OwnerFits, DuesFit, LeadsTo, ServerFits, MailboxFits
<1>6. /\ \A e \in owner.due : Foremost(e) => e = d
      /\ \A e \in owner.due : d.rank <= e.rank
      /\ \A e \in owner.due : e.window = d.window => e = d \/ d.rank < e.rank
  BY <1>1, ForemostIsFirst
<1>7. d.window \in Windows /\ d.state.active \in BOOLEAN /\ d.state.external \in BOOLEAN /\ d.rank \in 1 .. 3
  BY <1>5 DEF IsDue, WindowStates
<1>8. MailboxFits'
  BY <1>2, <1>4 DEF OwnerFits, MailboxFits
<1>9. DuesFit'
  <2>1. LeadsTo(owner'.due, owner'.applied)
    BY <1>1, <1>4, DoneWith DEF OwnerFits, DuesFit
  <2> QED BY <1>3, <1>4, <2>1 DEF DuesFit
<1>10. ASSUME x' = x PROVE ServerFits'
  BY <1>2, <1>10 DEF OwnerFits, ServerFits, Live
<1>11. CASE broken'
  BY <1>8, <1>9, <1>2, <1>10, <1>11 DEF OwnerFits
<1>12. CASE ~broken'
  <2>1. ~broken /\ HasWhatIsShown /\ GivesUpFirst /\ HalfDone
    <3>1. ~broken
      BY <1>2, <1>12, Zenon
    <3> QED BY <3>1 DEF OwnerFits
  <2>2. Live' = Live
    BY <1>2 DEF Live
  <2>3. \A e \in owner.due : e # d => e \in owner'.due
    BY <1>4
  <2>4. CASE d.window \in destroyed
    <3>1. x' = x /\ d.window \notin Live
      BY <1>2, <1>12, <2>4 DEF Live
    <3>2. HasWhatIsShown'
      BY <1>4, <2>1, <2>2, <2>3, <3>1 DEF HasWhatIsShown
    <3>3. GivesUpFirst'
      BY <1>4, <2>1, <2>2, <2>3, <3>1 DEF GivesUpFirst
    <3>4. HalfDone'
      BY <1>2, <1>4, <1>6, <2>4 DEF HalfDone, Foremost
    <3> QED BY <1>8, <1>9, <1>10, <3>1, <3>2, <3>3, <3>4 DEF OwnerFits
  <2>5. CASE d.window \notin destroyed
    <3> DEFINE v == d.window
    <3>1. Arrives(d) /\ v \in Live
      BY <1>2, <1>7, <1>12, <2>5 DEF Live
    <3>2. /\ x' \in [Windows -> [opaque : BOOLEAN, focus : BOOLEAN]]
          /\ \A w \in Windows : w # v => x'[w] = x[w]
      BY <1>7, <3>1, ArrivesAt
    <3>3. /\ \A w \in Live : x[w].focus => x[w].opaque /\ w # HudWindow
          /\ \A u, w \in Live : x[u].focus /\ x[w].focus => u = w
      BY DEF OwnerFits, ServerFits
    <3>4. Live \subseteq Windows
      BY DEF Live
    <3>5. CASE ~owner.half
      <4>1. owner'.due = owner.due /\ owner'.half
        BY <1>4, <3>5
      <4>2. /\ x'[v].focus => x[v].focus
            /\ x[v].opaque => x'[v].opaque
            /\ IF Input(d) THEN x'[v].opaque ELSE ~x'[v].focus
        BY <1>7, <3>1, <3>2, <3>5, ArrivesAt
      <4>3. \A w \in Windows : (x'[w].focus => x[w].focus) /\ (x[w].opaque => x'[w].opaque)
        BY <3>2, <4>2
      <4>4. ServerFits'
        BY <1>2, <2>2, <3>2, <3>3, <3>4, <4>3 DEF ServerFits
      <4>5. HasWhatIsShown'
        BY <1>1, <1>4, <2>1, <2>2, <3>2, <3>4, <4>1 DEF HasWhatIsShown
      <4>6. GivesUpFirst'
        BY <1>4, <2>1, <2>2, <3>4, <4>1, <4>3 DEF GivesUpFirst
      <4>7. HalfDone'
        BY <1>6, <4>1, <4>2 DEF HalfDone, Foremost, Input
      <4> QED BY <1>8, <1>9, <4>4, <4>5, <4>6, <4>7 DEF OwnerFits
    <3>6. CASE owner.half
      <4>1. owner'.due = owner.due \ {d} /\ ~owner'.half
        BY <1>4, <3>6
      <4>2. IF Input(d) THEN x[v].opaque ELSE ~x[v].focus
        BY <1>1, <2>1, <2>5, <3>6 DEF HalfDone, Input
      <4>3. IF Input(d) THEN x'[v].opaque /\ x'[v].focus
            ELSE (x'[v].opaque <=> d.state.active) /\ ~x'[v].focus
        BY <1>7, <3>1, <3>6, <4>2, ArrivesAt
      <4>4. HalfDone'
        BY <4>1 DEF HalfDone
      <4>5. Input(d) => Shows(owner.applied, v) /\ v # HudWindow /\ \A e \in owner.due : e.rank > 2
        <5> SUFFICES ASSUME Input(d)
                     PROVE  Shows(owner.applied, v) /\ v # HudWindow /\ \A e \in owner.due : e.rank > 2
          OBVIOUS
        <5>1. d.rank = 3 /\ v # HudWindow /\ v \in DOMAIN owner.applied /\ d.state = owner.applied[v]
          BY <1>1, <1>5, <1>7 DEF IsDue, Input
        <5>2. \A e \in owner.due : e.rank \in 1 .. 3 /\ d.rank <= e.rank
          BY <1>5, <1>6 DEF IsDue
        <5>3. \A e \in owner.due : e.rank > 2
          BY <5>1, <5>2
        <5> QED BY <5>1, <5>3 DEF Shows, Input
      <4>6. \A w \in Live : w # v /\ x[w].focus /\ Input(d) => FALSE
        <5> SUFFICES ASSUME NEW w \in Live, w # v, x[w].focus, Input(d) PROVE FALSE
          OBVIOUS
        <5>1. \A e \in owner.due : e.rank \in 1 .. 3 /\ ~(e.rank <= 2)
          BY <1>5, <4>5 DEF IsDue
        <5>2. Shows(owner.applied, w)
          BY <2>1, <5>1 DEF GivesUpFirst
        <5>3. w # HudWindow
          BY <3>3
        <5> QED BY <1>5, <4>5, <5>2, <5>3 DEF Picture
      <4>7. ServerFits'
        BY <1>2, <2>2, <3>2, <3>3, <3>4, <4>3, <4>5, <4>6 DEF ServerFits
      <4>8. (\A e \in owner'.due : e.window # v) => (d.state.active <=> Shows(owner.applied, v))
        <5> SUFFICES ASSUME \A e \in owner'.due : e.window # v
                     PROVE  d.state.active <=> Shows(owner.applied, v)
          OBVIOUS
        <5>1. \A e \in owner.due : e.window = v => e = d
          BY <2>3
        <5>2. \A e \in owner.due : e.window = d.window => e.rank <= d.rank
          BY <1>7, <5>1
        <5> QED BY <1>1, <1>5, <5>2 DEF EndsIn
      <4>9. ~Input(d) /\ d.state.active => v = HudWindow
        BY <1>1, <1>5, <1>7 DEF IsDue, Input
      <4>10. HasWhatIsShown'
        <5> SUFFICES ASSUME NEW w \in Live, \A e \in owner'.due : e.window # w
                     PROVE  /\ x'[w].opaque <=> Shows(owner.applied, w)
                            /\ x'[w].focus <=> Shows(owner.applied, w) /\ w # HudWindow
          BY <1>4, <2>2 DEF HasWhatIsShown
        <5>1. CASE w = v
          BY <4>3, <4>5, <4>8, <4>9, <5>1 DEF Input
        <5>2. CASE w # v
          <6>1. \A e \in owner.due : e.window # w
            BY <2>3, <5>2
          <6> QED BY <2>1, <3>2, <3>4, <5>2, <6>1 DEF HasWhatIsShown
        <5> QED BY <5>1, <5>2
      <4>11. GivesUpFirst'
        <5> SUFFICES ASSUME NEW w \in Live, x'[w].focus, ~Shows(owner.applied, w)
                     PROVE  \E e \in owner'.due : e.window = w /\ e.rank <= 2
          BY <1>4, <2>2 DEF GivesUpFirst
        <5>1. w # v
          BY <4>3, <4>5
        <5>2. x[w].focus
          BY <3>2, <3>4, <5>1
        <5> QED BY <2>1, <2>3, <5>1, <5>2 DEF GivesUpFirst
      <4> QED BY <1>8, <1>9, <4>4, <4>7, <4>10, <4>11 DEF OwnerFits
    <3> QED BY <1>3, <3>5, <3>6
  <2> QED BY <2>4, <2>5
<1> QED BY <1>2, <1>11, <1>12

(* The other threads and the environment leave both alone.                 *)
LEMMA OthersLeaveTheWindows ==
  ASSUME WindowsFit, OwnerFits,
         CaptureWorker \/ NotificationOwner \/ Lapse \/ UNCHANGED overlayVars
  PROVE  (WindowsFit /\ OwnerFits)'
<1>1. UNCHANGED <<windowVars, ownerVars>>
  BY DEF CaptureWorker, AwaitDesired, Renew, Release, SendLease, Disconnected, Lapse, WorkerStep,
         NotificationOwner, AwaitWake, TakeMessage, Notify, LookAgain, Notifying, Keep, overlayVars
<1>2. UNCHANGED <<gamescope, visible, registered, current, huds, destroyed, mailbox, owner, x, broken>>
  BY <1>1 DEF windowVars, ownerVars
<1> QED BY <1>2 DEF WindowsFit, OwnerFits, MailboxFits, DuesFit, ServerFits, HasWhatIsShown,
                    GivesUpFirst, HalfDone, Foremost, Live

LEMMA OwnerKeeps ==
  ASSUME WindowsFit, OwnerFits, [OverlayNext]_overlayVars
  PROVE  (WindowsFit /\ OwnerFits)'
<1>1. CASE GtkThread
  BY <1>1, GtkKeepsWindows, SubmitKeepsMailbox DEF WindowsKept
<1>2. CASE Take
  <2>1. UNCHANGED windowVars
    BY <1>2 DEF Take
  <2> QED BY <1>2, <2>1, TakeKeepsOwner DEF WindowsFit, windowVars
<1>3. CASE Send
  <2>1. UNCHANGED windowVars
    BY <1>3 DEF Send
  <2> QED BY <1>3, <2>1, SendKeepsOwner DEF WindowsFit, windowVars
<1> QED BY <1>1, <1>2, <1>3, OthersLeaveTheWindows DEF OverlayNext, X11Owner

LEMMA OwnerIsInvariant == OverlaySpec => [](WindowsFit /\ OwnerFits)
<1>1. OverlayInit => WindowsFit /\ OwnerFits
  BY OwnerStarts
<1>2. WindowsFit /\ OwnerFits /\ [OverlayNext]_overlayVars => (WindowsFit /\ OwnerFits)'
  BY OwnerKeeps
<1> QED BY <1>1, <1>2, PTL DEF OverlaySpec

LEMMA OneAtMost ==
  ASSUME NEW S, \A v, w \in S : v = w
  PROVE  Cardinality(S) <= 1
<1>1. CASE S = {}
  BY <1>1, FS_EmptySet
<1>2. CASE S # {}
  <2>1. PICK v : v \in S
    BY <1>2
  <2>2. S = {v}
    BY <2>1
  <2> QED BY <2>2, FS_Singleton
<1> QED BY <1>1, <1>2

LEMMA InputFollows ==
  ASSUME WindowsFit, OwnerFits
  PROVE  InputFollowsTheOverlay
<1>1. Focused \subseteq Windows \ destroyed /\ Opaque \subseteq Windows \ destroyed
  BY DEF Focused, Opaque
<1>2. Cardinality(Focused) <= 1
  BY OneAtMost DEF Focused, OwnerFits, ServerFits, Live
<1>3. Focused \subseteq Opaque \ {HudWindow}
  BY DEF Focused, Opaque, OwnerFits, ServerFits, Live
<1>4. ASSUME gamescope, mailbox.latest = << >>, owner.due = {}, ~broken,
             Len(registered) + Len(huds) <= MAX_WINDOWS
      PROVE  /\ Focused = IF visible THEN {current} ELSE {}
             /\ Opaque = Focused \cup Range(huds)
             /\ \E i \in DOMAIN registered : registered[i] = Entry(current, FALSE)
  <2>1. Fit(registered, current, huds, destroyed) /\ visible \in BOOLEAN
    BY DEF WindowsFit
  <2>2. owner.applied = Snapshot(visible, registered, current, huds)
    BY <1>4 DEF OwnerFits, MailboxFits
  <2>3. \A w : Shows(owner.applied, w) <=> w \in Range(huds) \/ (visible /\ w = current)
    BY <1>4, <2>1, <2>2, SnapshotIsPicture
  <2>4. \A w \in Live : /\ x[w].opaque <=> Shows(owner.applied, w)
                        /\ x[w].focus <=> Shows(owner.applied, w) /\ w # HudWindow
    BY <1>4 DEF OwnerFits, HasWhatIsShown
  <2>5. PICK i \in DOMAIN registered : registered[i] = Entry(current, FALSE)
    BY <2>1 DEF Fit, Range
  <2>6. current \in Windows \ {HudWindow} /\ current \notin destroyed
    <3>1. registered[i].window \notin destroyed
      BY <2>1, <2>5 DEF Fit, Listing
    <3>2. registered[i] \in WindowEntries
      <4>1. registered \in Seq(WindowEntries)
        BY <2>1 DEF Fit, Listing
      <4> QED BY <4>1
    <3> QED BY <2>5, <3>1, <3>2 DEF Entry, WindowEntries
  <2>7. Range(huds) = {} \/ (Range(huds) = {HudWindow} /\ HudWindow \notin destroyed)
    <3>1. Range(<<HudWindow>>) = {HudWindow} /\ Range(<< >>) = {}
      BY DEF Range
    <3> QED BY <2>1, <3>1 DEF Fit
  <2>8. HudWindow \in Windows
    BY DEF Windows
  <2>9. Focused = IF visible THEN {current} ELSE {}
    BY <2>1, <2>3, <2>4, <2>6, <2>7 DEF Focused, Live
  <2>10. Opaque = Focused \cup Range(huds)
    <3>1. \A w \in Live : x[w].opaque <=> w \in Range(huds) \/ (visible /\ w = current)
      BY <2>3, <2>4
    <3> QED BY <2>6, <2>7, <2>8, <2>9, <3>1 DEF Opaque, Live
  <2> QED BY <2>5, <2>9, <2>10
<1> QED BY <1>2, <1>3, <1>4 DEF InputFollowsTheOverlay

(* Whatever windows are opened, hidden and closed, and however the three   *)
(* threads fall behind (gamescope.rs, controller.rs, hud.rs): at every     *)
(* prefix of the X11 requests the input is with one window at most and     *)
(* with one that is shown, and each thread ends up where the GTK thread    *)
(* last wanted it.                                                         *)
THEOREM ThreadsAreFollowed == OverlaySpec => []ThreadsFollowTheOverlay
<1>1. WindowsFit /\ OwnerFits => InputFollowsTheOverlay
  BY InputFollows
<1>2. InputFollowsTheOverlay /\ LeaseFollowsTheOverlay /\ MessagesArrive
        => ThreadsFollowTheOverlay
  BY DEF ThreadsFollowTheOverlay
<1> QED BY <1>1, <1>2, OwnerIsInvariant, LeaseIsFollowed, MessagesAreTaken, PTL
=============================================================================
