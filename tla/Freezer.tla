------------------------------- MODULE Freezer -------------------------------
(***************************************************************************)
(* The freezing of cheat-table entries: the GUI thread edits App.saved and *)
(* rebuilds App.frozen_targets (rebuild_frozen_targets), attach hands the  *)
(* process to a new freezer thread and tells the previous one to stop      *)
(* (spawn_freezer), and each freezer writes the whole list to its process  *)
(* every 40 ms.                                                            *)
(*                                                                         *)
(* The list is behind a mutex held for a whole pass and for a whole        *)
(* rebuild, so a pass and a rebuild are one step each. The stop flag is    *)
(* not behind it: it is read before the pass takes the mutex.              *)
(***************************************************************************)
EXTENDS Integers, FiniteSets, Sequences

CONSTANTS
  Proc,      (* processes; a restarted game is another process             *)
  Entry,     (* entries of the cheat table                                 *)
  Pointer,   (* the entries found through a module and a chain of pointers *)
  WithModule,(* processes in which the pointers' module is loaded          *)
  Val,       (* values of an entry                                         *)
  FreezerId, (* freezer threads, 1..n: bounds the number of attaches       *)
  MaxHotkeys,(* bound on hotkeys pressed and not yet polled                *)
  Gone,      (* content of an entry's cell that cannot be resolved or read *)
  NoProc,    (* nobody: App.attached = None, a fixed address's base        *)
  NoText     (* an edit field that does not parse                          *)

ASSUME FzAssumption ==
  /\ Pointer \subseteq Entry /\ WithModule \subseteq Proc
  /\ FreezerId \subseteq Nat
  /\ MaxHotkeys \in Nat
  /\ NoProc \notin Proc /\ Gone \notin Val /\ NoText \notin Val

VARIABLES
  mem,       (* the cell of each entry in each process                     *)
  attached,  (* App.attached and App.module_bases                          *)
  table,     (* entries in App.saved                                       *)
  frozen,    (* those whose box is ticked                                  *)
  text,      (* their edit_text                                            *)
  list,      (* App.frozen_targets: base and bytes of each item            *)
  thread,    (* the freezer threads                                        *)
  hotkeys,   (* ids in the channel of the hotkey thread                    *)
  orphanPasses (* history: passes each thread began with its stop flag set,*)
               (* counted up to two                                        *)

guiState == <<attached, table, frozen, text>>
fzVars   == <<mem, attached, table, frozen, text, list, thread, hotkeys, orphanPasses>>

Item == [base : Proc \cup {NoProc}, bytes : Val]

FzTypeOK ==
  /\ mem \in [Proc -> [Entry -> Val \cup {Gone}]]
  /\ attached \in Proc \cup {NoProc}
  /\ frozen \subseteq table /\ table \subseteq Entry
  /\ text \in [Entry -> Val \cup {NoText}]
  /\ DOMAIN list \subseteq Entry
  /\ \A e \in DOMAIN list : list[e] \in Item
  /\ thread \in [FreezerId -> [proc : Proc \cup {NoProc}, stop : BOOLEAN,
                               pc : {"unborn", "check", "pass", "sleep", "ended"}]]
  /\ hotkeys \in Seq({"freeze_all", "unfreeze_all"})
  /\ orphanPasses \in [FreezerId -> 0..2]

\* A pointer entry has no cell where its module is not loaded.
HasCell(p, e) == e \in Pointer => p \in WithModule

FzInit ==
  /\ mem \in [Proc -> [Entry -> Val \cup {Gone}]]
  /\ \A p \in Proc, e \in Entry : mem[p][e] # Gone => HasCell(p, e)
  /\ attached = NoProc
  /\ table = {} /\ frozen = {}
  /\ text = [e \in Entry |-> NoText]
  /\ list = [e \in {} |-> 0]
  /\ thread = [f \in FreezerId |-> [proc |-> NoProc, stop |-> FALSE, pc |-> "unborn"]]
  /\ hotkeys = <<>>
  /\ orphanPasses = [f \in FreezerId |-> 0]

-----------------------------------------------------------------------------
(* rebuild_frozen_targets, for the entries fr frozen with the texts tx.    *)

\* "bytes a manter: o valor digitado ou, na ausencia, o valor atual"
Kept(e, tx) == IF tx[e] # NoText THEN tx[e] ELSE mem[attached][e]

\* A pointer item keeps the base its module has in the attached process.
Base(e) == IF e \in Pointer THEN attached ELSE NoProc

\* A plausible bug: an entry that cannot be read is kept.
RebuiltBlindly(fr, tx) ==
  IF attached = NoProc
  THEN [e \in {} |-> 0]
  ELSE [e \in fr |-> [base |-> Base(e), bytes |-> Kept(e, tx)]]

Rebuilt(fr, tx) ==
  IF attached = NoProc
  THEN [e \in {} |-> 0]
  ELSE [e \in {e \in fr : Kept(e, tx) # Gone /\ HasCell(attached, e)} |->
          [base |-> Base(e), bytes |-> Kept(e, tx)]]

Rebuild == list' = Rebuilt(frozen', text')

-----------------------------------------------------------------------------
(* The GUI thread.                                                         *)

Unborn  == {f \in FreezerId : thread[f].pc = "unborn"}
Current == {f \in FreezerId : thread[f].pc # "unborn" /\ ~thread[f].stop}

\* A plausible bug: the previous freezer is forgotten, not stopped.
AttachForgets(p) ==
  /\ \E f \in Unborn :
       /\ \A g \in Unborn : f <= g
       /\ thread' = [thread EXCEPT ![f] = [proc |-> p, stop |-> FALSE, pc |-> "check"]]
  /\ attached' = p
  /\ UNCHANGED <<mem, table, frozen, text, list, hotkeys, orphanPasses>>

\* attach, with spawn_freezer: the list stays as it was built for the process
\* attached before.
Attach(p) ==
  /\ \E f \in Unborn :
       /\ \A g \in Unborn : f <= g
       /\ thread' = [g \in FreezerId |->
            IF g = f THEN [proc |-> p, stop |-> FALSE, pc |-> "check"]
            ELSE IF g \in Current THEN [thread[g] EXCEPT !.stop = TRUE]
            ELSE thread[g]]
  /\ attached' = p
  /\ UNCHANGED <<mem, table, frozen, text, list, hotkeys, orphanPasses>>

AddEntry(e) ==
  /\ e \notin table
  /\ table' = table \cup {e}
  /\ text' = [text EXCEPT ![e] = NoText]
  /\ UNCHANGED <<mem, attached, frozen, list, thread, hotkeys, orphanPasses>>

\* A plausible bug: the list is not rebuilt.
RemoveEntryOnly(e) ==
  /\ e \in table
  /\ table' = table \ {e}
  /\ frozen' = frozen \ {e}
  /\ UNCHANGED <<mem, attached, text, list, thread, hotkeys, orphanPasses>>

RemoveEntry(e) ==
  /\ e \in table
  /\ table' = table \ {e}
  /\ frozen' = frozen \ {e}
  /\ UNCHANGED <<mem, attached, text, thread, hotkeys, orphanPasses>>
  /\ Rebuild

\* Typing in the "Novo" field leaves the list alone.
EditText(e, v) ==
  /\ e \in table
  /\ text' = [text EXCEPT ![e] = v]
  /\ UNCHANGED <<mem, attached, table, frozen, list, thread, hotkeys, orphanPasses>>

\* The "Escrever" button.
WriteOnce(e) ==
  /\ e \in table
  /\ attached # NoProc
  /\ text[e] # NoText
  /\ mem[attached][e] # Gone
  /\ mem' = [mem EXCEPT ![attached][e] = text[e]]
  /\ UNCHANGED <<guiState, list, thread, hotkeys, orphanPasses>>

TickFrozen(e) ==
  /\ e \in table
  /\ frozen' = IF e \in frozen THEN frozen \ {e} ELSE frozen \cup {e}
  /\ UNCHANGED <<mem, attached, table, text, thread, hotkeys, orphanPasses>>
  /\ Rebuild

\* load_table_dialog replaces the table by the file's.
LoadTable(tb, fr, tx) ==
  /\ table' = tb
  /\ frozen' = fr
  /\ text' = [e \in Entry |-> IF e \in tb THEN tx[e] ELSE NoText]
  /\ UNCHANGED <<mem, attached, thread, hotkeys, orphanPasses>>
  /\ Rebuild

\* poll_hotkeys, for one of the ids it takes from the channel; a freezer may
\* come to the mutex between two of them.
PollHotkeys ==
  /\ hotkeys # <<>>
  /\ frozen' = IF Head(hotkeys) = "freeze_all" THEN table ELSE {}
  /\ hotkeys' = Tail(hotkeys)
  /\ UNCHANGED <<mem, attached, table, text, thread, orphanPasses>>
  /\ Rebuild

-----------------------------------------------------------------------------
(* The other threads.                                                      *)

PressHotkey(k) ==
  /\ Len(hotkeys) < MaxHotkeys
  /\ hotkeys' = Append(hotkeys, k)
  /\ UNCHANGED <<mem, guiState, list, thread, orphanPasses>>

\* A plausible bug: the thread watches a flag nobody sets.
CheckNothing(f) ==
  /\ thread[f].pc = "check"
  /\ thread' = [thread EXCEPT ![f].pc = "pass"]
  /\ UNCHANGED <<mem, guiState, list, hotkeys, orphanPasses>>

CheckStop(f) ==
  /\ thread[f].pc = "check"
  /\ thread' = [thread EXCEPT ![f].pc = IF thread[f].stop THEN "ended" ELSE "pass"]
  /\ UNCHANGED <<mem, guiState, list, hotkeys, orphanPasses>>

\* An item reaches its cell when it has a fixed address, or the base it kept is
\* the one its module has in the process written to. Any other base leads to
\* nothing or to an address that is not in the table.
Reaches(e, p) == e \in DOMAIN list /\ list[e].base \in {NoProc, p}

\* A plausible bug: the thread writes once.
PassOnce(f) ==
  /\ thread[f].pc = "pass"
  /\ mem' = [mem EXCEPT ![thread[f].proc] =
               [e \in Entry |-> IF Reaches(e, thread[f].proc) /\ @[e] # Gone
                                THEN list[e].bytes ELSE @[e]]]
  /\ thread' = [thread EXCEPT ![f].pc = "ended"]
  /\ UNCHANGED <<guiState, list, hotkeys, orphanPasses>>

Pass(f) ==
  /\ thread[f].pc = "pass"
  /\ mem' = [mem EXCEPT ![thread[f].proc] =
               [e \in Entry |-> IF Reaches(e, thread[f].proc) /\ @[e] # Gone
                                THEN list[e].bytes ELSE @[e]]]
  /\ thread' = [thread EXCEPT ![f].pc = "sleep"]
  /\ orphanPasses' = IF thread[f].stop /\ orphanPasses[f] < 2
                     THEN [orphanPasses EXCEPT ![f] = @ + 1] ELSE orphanPasses
  /\ UNCHANGED <<guiState, list, hotkeys>>

WakeUp(f) ==
  /\ thread[f].pc = "sleep"
  /\ thread' = [thread EXCEPT ![f].pc = "check"]
  /\ UNCHANGED <<mem, guiState, list, hotkeys, orphanPasses>>

\* The game writes its own memory.
GameWrites(p, e, v) ==
  /\ mem[p][e] # v
  /\ HasCell(p, e)
  /\ mem' = [mem EXCEPT ![p][e] = v]
  /\ UNCHANGED <<guiState, list, thread, hotkeys, orphanPasses>>

Gui ==
  \/ \E p \in Proc : Attach(p)
  \/ \E e \in Entry : AddEntry(e) \/ RemoveEntry(e) \/ WriteOnce(e) \/ TickFrozen(e)
  \/ \E e \in Entry, v \in Val \cup {NoText} : EditText(e, v)
  \/ \E tb \in SUBSET Entry : \E fr \in SUBSET tb :
       \E tx \in [Entry -> Val \cup {NoText}] : LoadTable(tb, fr, tx)
  \/ PollHotkeys

FreezerThread(f) == CheckStop(f) \/ Pass(f) \/ WakeUp(f)

FzNext ==
  \/ Gui
  \/ \E f \in FreezerId : FreezerThread(f)
  \/ \E k \in {"freeze_all", "unfreeze_all"} : PressHotkey(k)
  \/ \E p \in Proc, e \in Entry, v \in Val \cup {Gone} : GameWrites(p, e, v)

FzSpec == FzInit /\ [][FzNext]_fzVars
FairFzSpec == FzSpec /\ \A f \in FreezerId : WF_fzVars(FreezerThread(f))

-----------------------------------------------------------------------------
(* Properties.                                                             *)

\* However often the user re-attaches, at most one freezer has not been told to
\* stop, and it is the one that serves the attached process.
OneFreezer ==
  /\ Cardinality(Current) <= 1
  /\ \A f \in Current : thread[f].proc = attached

\* "nao deixar freezers orfaos escrevendo no alvo antigo": the flag is read
\* before the mutex, so a freezer told to stop may still write to the process
\* that was left, but one pass is all it gets.
OrphanWritesOnce == \A f \in FreezerId : orphanPasses[f] <= 1

\* Together: attaching again hands the writing over from one freezer to the next
\* (attach, spawn_freezer).
Handover == OneFreezer /\ OrphanWritesOnce

\* Unticking, removing, reloading and the hotkeys stop the writing: no freezer
\* ever has an item whose entry is not frozen now.
OnlyFrozenWritten == DOMAIN list \subseteq frozen

\* "entradas ... valor e estado de freeze ... Assim o trabalho sobrevive a
\* reinicios do jogo e do Quarry": a frozen entry with a value and, on
\* an attached process, a cell, is kept. attach does not rebuild the list.
FreezeSurvivesRestart ==
  \A e \in frozen :
    (attached # NoProc /\ text[e] # NoText /\ HasCell(attached, e))
      => e \in DOMAIN list /\ list[e].base = Base(e)

\* A freezer told to stop ends, however often the user attaches. (The flag is never
\* taken back.)
StoppedFreezerEnds == []<>(\A f \in FreezerId : thread[f].stop => thread[f].pc = "ended")

\* What the list holds for the attached process is written back again and again
\* as long as it stays, whatever the game writes.
FrozenIsHeld ==
  \A p \in Proc, e \in Entry, v \in Val :
    <>[](attached = p /\ Reaches(e, p) /\ list[e].bytes = v) => []<>(mem[p][e] \in {v, Gone})
=============================================================================
