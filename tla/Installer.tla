------------------------------ MODULE Installer ------------------------------
(***************************************************************************)
(* The installer: a wizard whose thread copies the files, makes the        *)
(* shortcuts and writes the registry, stopping at the first step that      *)
(* fails and undoing nothing; and the uninstaller, the same program copied *)
(* into the folder, which goes on whatever fails and leaves the removal of *)
(* the folder to a command that runs two seconds later. The process of     *)
(* either may be ended at any time, in the middle of a step too.           *)
(***************************************************************************)
EXTENDS Integers, Sequences, FiniteSets

CONSTANTS
  Dir,          \* the folders the user may choose
  NoDir,
  MaxRuns       \* runs of the wizard and of the uninstaller

ASSUME InstallerConstants == NoDir \notin Dir /\ MaxRuns \in Nat

Files == {"program", "driver"}    \* quarry.exe; the other four are alike

VARIABLES
  step,         \* Wizard.step, or "closed"
  accepted,
  dir,          \* the folder of this run
  stage,        \* do_install: what it does next, "idle" or "finished"
  error,        \* Progress.error is set
  disk,         \* the files in each folder
  shortcuts,    \* where the shortcuts lead, or NoDir
  listed,       \* the registry has DisplayName
  command,      \* UninstallString: the folder of the uninstaller, or NoDir
  remover,      \* the folder whose uninstaller runs, or NoDir
  undoing,      \* do_uninstall: what it does next, "asked" or "finished"
  doomed,       \* folders to be removed in two seconds
  overlap,      \* an installation and an uninstallation have overlapped
  orphaned,     \* folders whose uninstaller went though the registry may name it
  runs

inVars == <<step, accepted, dir, stage, error, disk, shortcuts, listed, command, remover,
            undoing, doomed, overlap, orphaned, runs>>

wizard   == <<step, accepted, dir>>
installs == <<stage, error, disk, shortcuts, listed, command>>
removes  == <<remover, undoing, doomed>>
ghosts   == <<overlap, orphaned, runs>>

Working == stage \notin {"idle", "finished"}

-----------------------------------------------------------------------------
(* The wizard.                                                             *)

OpenWizard ==
  /\ step = "closed" /\ runs < MaxRuns
  /\ step' = "welcome" /\ accepted' = FALSE /\ stage' = "idle" /\ error' = FALSE
  /\ \E d \in Dir : dir' = d
  /\ runs' = runs + 1
  /\ UNCHANGED <<disk, shortcuts, listed, command, removes, overlap, orphaned>>

Accept ==
  /\ step = "license"
  /\ accepted' = ~accepted
  /\ UNCHANGED <<step, dir, installs, removes, ghosts>>

NextStep ==
  /\ \/ step = "welcome" /\ step' = "license"
     \/ step = "license" /\ accepted /\ step' = "options"
  /\ UNCHANGED <<accepted, dir, installs, removes, ghosts>>

BackStep ==
  /\ \/ step = "license" /\ step' = "welcome"
     \/ step = "options" /\ step' = "license"
  /\ UNCHANGED <<accepted, dir, installs, removes, ghosts>>

\* The thread starts with the frame that enters the step.
Install ==
  /\ step = "options"
  /\ step' = "installing" /\ stage' = "files"
  /\ overlap' = (overlap \/ remover # NoDir \/ doomed # {})
  /\ UNCHANGED <<accepted, dir, error, disk, shortcuts, listed, command, removes, orphaned, runs>>

SeeDone ==
  /\ step = "installing" /\ stage = "finished"
  /\ step' = "done"
  /\ UNCHANGED <<accepted, dir, installs, removes, ghosts>>

\* A step that is cut short: a file that was being written is gone, and the
\* shortcuts may have been made.
BrokenOff ==
  /\ \E lost \in SUBSET (CASE stage = "files" -> Files
                           [] stage = "uninstaller" -> {"uninstaller"}
                           [] OTHER -> {}) :
       /\ Cardinality(lost) <= 1
       /\ disk' = [disk EXCEPT ![dir] = @ \ lost]
       /\ orphaned' = orphaned \cup (IF "uninstaller" \in lost \cap disk[dir] THEN {dir} ELSE {})
  /\ shortcuts' \in {shortcuts} \cup (IF stage = "shortcuts" THEN {dir} ELSE {})

\* Cancel, Conclude, or the window's own button: the thread ends with the process.
CloseWizard ==
  /\ step # "closed"
  /\ step' = "closed" /\ stage' = "idle"
  /\ BrokenOff
  /\ UNCHANGED <<accepted, dir, error, listed, command, removes, overlap, runs>>

-----------------------------------------------------------------------------
(* do_install, one step at a time.                                         *)

\* A plausible bug: the registry before the uninstaller.
AfterEager(s) ==
  CASE s = "files" -> "name" [] s = "name" -> "command" [] s = "command" -> "uninstaller"
    [] s = "uninstaller" -> "shortcuts" [] s = "shortcuts" -> "finished"

After(s) ==
  CASE s = "files" -> "uninstaller" [] s = "uninstaller" -> "shortcuts"
    [] s = "shortcuts" -> "name" [] s = "name" -> "command" [] s = "command" -> "finished"

Advance == stage' = After(stage)

CopyFile ==
  /\ stage = "files"
  /\ \E f \in Files \ disk[dir] : disk' = [disk EXCEPT ![dir] = @ \cup {f}]
  /\ UNCHANGED <<wizard, stage, error, shortcuts, listed, command, removes, ghosts>>

FilesCopied ==
  /\ stage = "files" /\ Files \subseteq disk[dir]
  /\ Advance
  /\ UNCHANGED <<wizard, error, disk, shortcuts, listed, command, removes, ghosts>>

CopyUninstaller ==
  /\ stage = "uninstaller"
  /\ disk' = [disk EXCEPT ![dir] = @ \cup {"uninstaller"}]
  /\ orphaned' = orphaned \ {dir}
  /\ Advance
  /\ UNCHANGED <<wizard, error, shortcuts, listed, command, removes, overlap, runs>>

MakeShortcuts ==
  /\ stage = "shortcuts"
  /\ shortcuts' = dir
  /\ Advance
  /\ UNCHANGED <<wizard, error, disk, listed, command, removes, ghosts>>

WriteName ==
  /\ stage = "name"
  /\ listed' = TRUE
  /\ Advance
  /\ UNCHANGED <<wizard, error, disk, shortcuts, command, removes, ghosts>>

WriteCommand ==
  /\ stage = "command"
  /\ command' = dir
  /\ Advance
  /\ UNCHANGED <<wizard, error, disk, shortcuts, listed, removes, ghosts>>

\* A step fails: the rest is not done.
StepFails ==
  /\ Working
  /\ stage' = "finished" /\ error' = TRUE
  /\ BrokenOff
  /\ UNCHANGED <<wizard, listed, command, removes, overlap, runs>>

-----------------------------------------------------------------------------
(* The uninstaller.                                                        *)

Overlapped == overlap' = (overlap \/ step \in {"installing", "done"})

OpenUninstaller ==
  /\ remover = NoDir /\ runs < MaxRuns
  /\ \E d \in Dir : "uninstaller" \in disk[d] /\ remover' = d
  /\ undoing' = "asked" /\ runs' = runs + 1
  /\ UNCHANGED <<wizard, installs, doomed, overlap, orphaned>>

Undoes(from, to) ==
  /\ remover # NoDir /\ undoing = from /\ undoing' = to
  /\ Overlapped
  /\ UNCHANGED <<wizard, stage, error, remover, runs>>

\* do_uninstall, one step at a time: the result of each is ignored.
DeleteShortcuts ==
  /\ Undoes("asked", "registry")
  /\ shortcuts' \in {shortcuts, NoDir}
  /\ UNCHANGED <<disk, listed, command, doomed, orphaned>>

DeleteKey ==
  /\ Undoes("registry", "folder")
  /\ \/ listed' = FALSE /\ command' = NoDir /\ UNCHANGED orphaned
     \/ orphaned' = orphaned \cup {remover} /\ UNCHANGED <<listed, command>>
  /\ UNCHANGED <<disk, shortcuts, doomed>>

ScheduleRemoval ==
  /\ Undoes("folder", "finished")
  /\ doomed' \in {doomed, doomed \cup {remover}}
  /\ UNCHANGED <<disk, shortcuts, listed, command, orphaned>>

CloseUninstaller ==
  /\ remover # NoDir
  /\ remover' = NoDir
  /\ UNCHANGED <<wizard, installs, undoing, doomed, ghosts>>

\* rmdir: a program that is running stays.
RemoveFolder ==
  /\ \E d \in doomed :
       /\ doomed' = doomed \ {d}
       /\ \E kept \in SUBSET (disk[d] \cap {"program"}) :
            disk' = [disk EXCEPT
                       ![d] = kept \cup (IF remover = d THEN disk[d] \cap {"uninstaller"} ELSE {})]
  /\ Overlapped
  /\ UNCHANGED <<wizard, stage, error, shortcuts, listed, command, remover, undoing, orphaned,
                 runs>>

-----------------------------------------------------------------------------
InInit ==
  /\ step = "closed" /\ accepted = FALSE /\ dir \in Dir
  /\ stage = "idle" /\ error = FALSE
  /\ disk = [d \in Dir |-> {}] /\ shortcuts = NoDir /\ listed = FALSE /\ command = NoDir
  /\ remover = NoDir /\ undoing = "finished" /\ doomed = {}
  /\ overlap = FALSE /\ orphaned = {} /\ runs = 0

InNext ==
  \/ OpenWizard \/ Accept \/ NextStep \/ BackStep \/ Install \/ SeeDone \/ CloseWizard
  \/ CopyFile \/ FilesCopied \/ CopyUninstaller \/ MakeShortcuts \/ WriteName \/ WriteCommand
  \/ StepFails
  \/ OpenUninstaller \/ DeleteShortcuts \/ DeleteKey \/ ScheduleRemoval \/ CloseUninstaller \/ RemoveFolder

InSpec == InInit /\ [][InNext]_inVars

-----------------------------------------------------------------------------
(* Properties.                                                             *)

Disks == [Dir -> SUBSET (Files \cup {"uninstaller"})]

InTypeOK ==
  /\ step \in {"closed", "welcome", "license", "options", "installing", "done"}
  /\ step \in {"options", "installing", "done"} => accepted
  /\ dir \in Dir
  /\ stage \in {"idle", "files", "uninstaller", "shortcuts", "name", "command", "finished"}
  /\ disk \in Disks
  /\ shortcuts \in Dir \cup {NoDir} /\ command \in Dir \cup {NoDir}
  /\ remover \in Dir \cup {NoDir} /\ doomed \subseteq Dir
  /\ accepted \in BOOLEAN /\ error \in BOOLEAN /\ listed \in BOOLEAN
  /\ undoing \in {"asked", "registry", "folder", "finished"}
  /\ overlap \in BOOLEAN /\ orphaned \subseteq Dir
  /\ runs \in 0..MaxRuns

Complete(d) ==
  disk[d] = Files \cup {"uninstaller"} /\ shortcuts = d /\ listed /\ command = d

\* What the wizard calls a success is complete, and whatever Windows lists with a command
\* can be uninstalled, wherever an installation failed or its process was ended; unless an
\* installation and an uninstallation overlapped, whose delayed removal takes the new
\* files, or that folder's uninstaller was lost in a second installation into it, or has
\* removed the folder after it failed to delete the key (do_install, do_uninstall).
InstallIsSound ==
  ~overlap =>
    /\ (stage = "finished" /\ ~error) => Complete(dir)
    /\ (listed /\ command \in Dir \ orphaned) => "uninstaller" \in disk[command]
=============================================================================
