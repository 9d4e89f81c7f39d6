---------------------------- MODULE Freezer_proofs ----------------------------
(***************************************************************************)
(* Proofs about Freezer, for any number of processes, entries, attaches    *)
(* and pending hotkeys.                                                    *)
(***************************************************************************)
EXTENDS Freezer, FiniteSetTheorems, TLAPS

\* What each thread has behind it: it has a process once it runs, it writes late
\* only when it was told to stop, and then it cannot come to a pass again,
\* because the flag is never taken back.
ThreadHistory ==
  \A f \in FreezerId :
    /\ thread[f].pc # "unborn" => thread[f].proc \in Proc
    /\ thread[f].pc = "unborn" => orphanPasses[f] = 0
    /\ orphanPasses[f] # 0 => thread[f].stop /\ thread[f].pc # "pass" /\ orphanPasses[f] = 1

\* The threads not told to stop are one at most, in the form the steps keep.
OneCurrent ==
  /\ \A f, g \in Current : f = g
  /\ \A f \in Current : thread[f].proc = attached

IInv ==
  /\ FzTypeOK
  /\ ThreadHistory
  /\ OneCurrent
  /\ OnlyFrozenWritten

-----------------------------------------------------------------------------
(* rebuild_frozen_targets.                                                 *)

\* The list that is built holds frozen entries only, each with a value and with
\* the base of the attached process or none.
LEMMA RebuiltType ==
  ASSUME FzAssumption, FzTypeOK, NEW fr \in SUBSET Entry,
         NEW tx \in [Entry -> Val \cup {NoText}]
  PROVE  /\ DOMAIN Rebuilt(fr, tx) \subseteq fr
         /\ \A e \in DOMAIN Rebuilt(fr, tx) : Rebuilt(fr, tx)[e] \in Item
<1>1. CASE attached = NoProc
  BY <1>1 DEF Rebuilt
<1>2. CASE attached # NoProc
  <2>1. attached \in Proc
    BY <1>2 DEF FzTypeOK
  <2>2. \A e \in Entry : Kept(e, tx) # Gone => Kept(e, tx) \in Val
    BY <2>1 DEF Kept, FzTypeOK
  <2>3. \A e \in Entry : Base(e) \in Proc \cup {NoProc}
    BY <2>1 DEF Base
  <2> QED BY <1>2, <2>2, <2>3 DEF Rebuilt, Item
<1> QED BY <1>1, <1>2

\* A step of the GUI that ends in a rebuild.
LEMMA RebuildInvariant ==
  ASSUME FzAssumption, IInv, Rebuild,
         UNCHANGED <<mem, attached, thread, orphanPasses>>,
         table' \subseteq Entry, frozen' \subseteq table',
         text' \in [Entry -> Val \cup {NoText}],
         hotkeys' \in Seq({"freeze_all", "unfreeze_all"})
  PROVE  IInv'
<1>1. frozen' \in SUBSET Entry
  OBVIOUS
<1>2. /\ DOMAIN list' \subseteq frozen'
      /\ \A e \in DOMAIN list' : list'[e] \in Item
  BY <1>1, RebuiltType DEF Rebuild, IInv
<1>3. FzTypeOK'
  BY <1>1, <1>2 DEF IInv, FzTypeOK
<1> QED BY <1>2, <1>3 DEF IInv, ThreadHistory, OneCurrent, Current, OnlyFrozenWritten

-----------------------------------------------------------------------------
(* The invariant is inductive.                                             *)

THEOREM InitInvariant == FzInit => IInv
<1> SUFFICES ASSUME FzInit PROVE IInv
  OBVIOUS
<1>1. FzTypeOK
  BY DEF FzInit, FzTypeOK
<1> QED BY <1>1 DEF FzInit, IInv, ThreadHistory, OneCurrent, Current, OnlyFrozenWritten

\* attach: the new freezer is the only one that is not told to stop.
LEMMA AttachInvariant == ASSUME IInv, NEW p \in Proc, Attach(p) PROVE IInv'
<1>1. PICK f \in Unborn :
        thread' = [g \in FreezerId |->
          IF g = f THEN [proc |-> p, stop |-> FALSE, pc |-> "check"]
          ELSE IF g \in Current THEN [thread[g] EXCEPT !.stop = TRUE]
          ELSE thread[g]]
  BY DEF Attach
<1>2. attached' = p /\ UNCHANGED <<mem, table, frozen, text, list, hotkeys, orphanPasses>>
  BY DEF Attach
<1>3. f \in FreezerId /\ thread[f].pc = "unborn"
  BY <1>1 DEF Unborn
<1>4. \A g \in FreezerId \ {f} :
        /\ thread'[g] \in [proc : Proc \cup {NoProc}, stop : BOOLEAN,
                           pc : {"unborn", "check", "pass", "sleep", "ended"}]
        /\ thread'[g].pc = thread[g].pc /\ thread'[g].proc = thread[g].proc
        /\ thread[g].stop => thread'[g].stop
        /\ thread[g].pc # "unborn" => thread'[g].stop
  BY <1>1 DEF IInv, FzTypeOK, Current
<1>5. thread'[f] = [proc |-> p, stop |-> FALSE, pc |-> "check"]
  BY <1>1, <1>3
<1>6. FzTypeOK'
  BY <1>1, <1>2, <1>4, <1>5 DEF IInv, FzTypeOK
<1>7. Current' = {f}
  BY <1>3, <1>4, <1>5 DEF Current
<1>8. ThreadHistory'
  BY <1>2, <1>3, <1>4, <1>5 DEF IInv, ThreadHistory
<1> QED BY <1>2, <1>5, <1>6, <1>7, <1>8 DEF IInv, OneCurrent, OnlyFrozenWritten

\* The other handlers of the GUI thread, one step each.
LEMMA GuiInvariant == IInv /\ Gui => IInv'
<1> SUFFICES ASSUME IInv, Gui PROVE IInv'
  OBVIOUS
<1> USE FzAssumption
<1>t. FzTypeOK
  BY DEF IInv
<1>1. ASSUME NEW p \in Proc, Attach(p) PROVE IInv'
  BY <1>1, AttachInvariant
<1>2. ASSUME NEW e \in Entry, AddEntry(e) PROVE IInv'
  <2>1. FzTypeOK'
    BY <1>t, <1>2 DEF AddEntry, FzTypeOK
  <2> QED BY <1>2, <2>1 DEF AddEntry, IInv, ThreadHistory, OneCurrent, Current, OnlyFrozenWritten
<1>3. ASSUME NEW e \in Entry, RemoveEntry(e) PROVE IInv'
  BY <1>t, <1>3, RebuildInvariant DEF RemoveEntry, FzTypeOK
<1>4. ASSUME NEW e \in Entry, WriteOnce(e) PROVE IInv'
  <2>1. text[e] \in Val /\ attached \in Proc
    BY <1>t, <1>4 DEF WriteOnce, FzTypeOK
  <2>2. mem' \in [Proc -> [Entry -> Val \cup {Gone}]]
    BY <1>t, <1>4, <2>1 DEF WriteOnce, FzTypeOK
  <2>3. FzTypeOK'
    BY <1>t, <1>4, <2>2 DEF WriteOnce, guiState, FzTypeOK
  <2> QED BY <1>4, <2>3 DEF WriteOnce, guiState, IInv, ThreadHistory, OneCurrent, Current,
               OnlyFrozenWritten
<1>5. ASSUME NEW e \in Entry, TickFrozen(e) PROVE IInv'
  BY <1>t, <1>5, RebuildInvariant DEF TickFrozen, FzTypeOK
<1>6. ASSUME NEW e \in Entry, NEW v \in Val \cup {NoText}, EditText(e, v) PROVE IInv'
  <2>1. FzTypeOK'
    BY <1>t, <1>6 DEF EditText, FzTypeOK
  <2> QED BY <1>6, <2>1 DEF EditText, IInv, ThreadHistory, OneCurrent, Current, OnlyFrozenWritten
<1>7. ASSUME NEW tb \in SUBSET Entry, NEW fr \in SUBSET tb,
             NEW tx \in [Entry -> Val \cup {NoText}], LoadTable(tb, fr, tx)
      PROVE  IInv'
  <2>1. text' \in [Entry -> Val \cup {NoText}]
    BY <1>7 DEF LoadTable
  <2> QED BY <1>t, <1>7, <2>1, RebuildInvariant DEF LoadTable, FzTypeOK
<1>8. CASE PollHotkeys
  <2>1. frozen' \subseteq table
    BY <1>t, <1>8 DEF PollHotkeys, FzTypeOK
  <2>2. hotkeys' \in Seq({"freeze_all", "unfreeze_all"})
    BY <1>t, <1>8 DEF PollHotkeys, FzTypeOK
  <2> QED BY <1>t, <1>8, <2>1, <2>2, RebuildInvariant DEF PollHotkeys, FzTypeOK
<1> QED BY <1>1, <1>2, <1>3, <1>4, <1>5, <1>6, <1>7, <1>8 DEF Gui

\* A freezer thread only moves its own program counter, and a late pass is
\* possible only from the "pass" it had reached when it was told to stop.
LEMMA FreezerInvariant == ASSUME IInv, NEW f \in FreezerId, FreezerThread(f) PROVE IInv'
<1> USE FzAssumption
<1>t. FzTypeOK
  BY DEF IInv
<1>1. /\ DOMAIN thread' = FreezerId
      /\ \A g \in FreezerId \ {f} : thread'[g] = thread[g]
      /\ thread'[f] \in [proc : Proc \cup {NoProc}, stop : BOOLEAN,
                         pc : {"check", "pass", "sleep", "ended"}]
      /\ thread'[f].stop = thread[f].stop /\ thread'[f].proc = thread[f].proc
      /\ thread[f].pc # "unborn"
      /\ thread' = [g \in FreezerId |-> thread'[g]]
  <2>1. PICK c \in {"check", "pass", "sleep", "ended"} : thread' = [thread EXCEPT ![f].pc = c]
    BY DEF FreezerThread, CheckStop, Pass, WakeUp
  <2>2. thread[f].pc # "unborn"
    BY DEF FreezerThread, CheckStop, Pass, WakeUp
  <2> QED BY <1>t, <2>1, <2>2 DEF FzTypeOK
<1>2. thread' \in [FreezerId -> [proc : Proc \cup {NoProc}, stop : BOOLEAN,
                              pc : {"unborn", "check", "pass", "sleep", "ended"}]]
  BY <1>t, <1>1 DEF FzTypeOK
<1>3. UNCHANGED <<guiState, list, hotkeys>>
  BY DEF FreezerThread, CheckStop, Pass, WakeUp
<1>4. mem' \in [Proc -> [Entry -> Val \cup {Gone}]]
  <2>1. CASE Pass(f)
    <3>1. thread[f].proc \in Proc
      BY <2>1 DEF Pass, IInv, ThreadHistory
    <3>2. \A e \in Entry : Reaches(e, thread[f].proc) => list[e].bytes \in Val
      BY <1>t DEF Reaches, FzTypeOK, Item
    <3> QED BY <1>t, <2>1, <3>1, <3>2 DEF Pass, FzTypeOK
  <2>2. CASE CheckStop(f) \/ WakeUp(f)
    BY <1>t, <2>2 DEF CheckStop, WakeUp, FzTypeOK
  <2> QED BY <2>1, <2>2 DEF FreezerThread
<1>5. orphanPasses' \in [FreezerId -> 0..2] /\ ThreadHistory'
  <2>1. CASE Pass(f)
    <3>1. orphanPasses[f] = 0 /\ thread'[f].pc = "sleep"
      BY <1>t, <2>1 DEF Pass, IInv, ThreadHistory, FzTypeOK
    <3>2. orphanPasses' = IF thread[f].stop THEN [orphanPasses EXCEPT ![f] = 1] ELSE orphanPasses
      BY <2>1, <3>1 DEF Pass
    <3>3. orphanPasses \in [FreezerId -> 0..2] /\ orphanPasses' \in [FreezerId -> 0..2]
      BY <1>t, <3>2 DEF FzTypeOK
    <3>4. /\ \A g \in FreezerId \ {f} : orphanPasses'[g] = orphanPasses[g]
          /\ orphanPasses'[f] = IF thread[f].stop THEN 1 ELSE 0
      BY <3>1, <3>2, <3>3
    <3> QED BY <1>1, <3>1, <3>3, <3>4 DEF IInv, ThreadHistory
  <2>2. CASE CheckStop(f)
    <3>1. orphanPasses' = orphanPasses /\ (thread[f].stop => thread'[f].pc = "ended")
      BY <1>t, <2>2 DEF CheckStop, FzTypeOK
    <3>2. orphanPasses' \in [FreezerId -> 0..2]
      BY <1>t, <3>1 DEF FzTypeOK
    <3>3. thread'[f].proc \in Proc
      BY <1>1 DEF IInv, ThreadHistory
    <3>4. orphanPasses'[f] # 0 => thread'[f].stop /\ thread'[f].pc # "pass" /\ orphanPasses'[f] = 1
      BY <1>1, <3>1 DEF IInv, ThreadHistory
    <3>5. thread'[f].pc # "unborn"
      BY <1>1
    <3>6. ASSUME NEW g \in FreezerId \ {f}
          PROVE  thread'[g] = thread[g] /\ orphanPasses'[g] = orphanPasses[g]
      BY <1>1, <3>1
    <3>7. ThreadHistory'
      BY <3>3, <3>4, <3>5, <3>6 DEF IInv, ThreadHistory
    <3> QED BY <3>2, <3>7
  <2>3. CASE WakeUp(f)
    <3>1. orphanPasses' = orphanPasses /\ thread'[f].pc = "check"
      BY <1>t, <2>3 DEF WakeUp, FzTypeOK
    <3> QED BY <1>t, <1>1, <3>1 DEF IInv, ThreadHistory, FzTypeOK
  <2> QED BY <2>1, <2>2, <2>3 DEF FreezerThread
<1>6. FzTypeOK'
  BY <1>t, <1>2, <1>3, <1>4, <1>5 DEF guiState, FzTypeOK
<1>7. Current' = Current
  BY <1>1 DEF Current
<1>8. OneCurrent'
  BY <1>1, <1>3, <1>7 DEF guiState, IInv, OneCurrent, Current
<1> QED BY <1>3, <1>5, <1>6, <1>8 DEF guiState, IInv, OnlyFrozenWritten

THEOREM NextInvariant == IInv /\ [FzNext]_fzVars => IInv'
<1> SUFFICES ASSUME IInv, [FzNext]_fzVars PROVE IInv'
  OBVIOUS
<1> USE FzAssumption
<1>t. FzTypeOK
  BY DEF IInv
<1>1. CASE Gui
  BY <1>1, GuiInvariant
<1>2. ASSUME NEW f \in FreezerId, FreezerThread(f) PROVE IInv'
  BY <1>2, FreezerInvariant
<1>3. ASSUME NEW k \in {"freeze_all", "unfreeze_all"}, PressHotkey(k) PROVE IInv'
  <2>1. hotkeys' \in Seq({"freeze_all", "unfreeze_all"})
    BY <1>t, <1>3 DEF PressHotkey, FzTypeOK
  <2>2. FzTypeOK'
    BY <1>t, <1>3, <2>1 DEF PressHotkey, guiState, FzTypeOK
  <2> QED BY <1>3, <2>2 DEF PressHotkey, guiState, IInv, ThreadHistory, OneCurrent, Current,
               OnlyFrozenWritten
<1>4. ASSUME NEW p \in Proc, NEW e \in Entry, NEW v \in Val \cup {Gone}, GameWrites(p, e, v)
      PROVE  IInv'
  <2>1. mem' \in [Proc -> [Entry -> Val \cup {Gone}]]
    BY <1>t, <1>4 DEF GameWrites, FzTypeOK
  <2>2. FzTypeOK'
    BY <1>t, <1>4, <2>1 DEF GameWrites, guiState, FzTypeOK
  <2> QED BY <1>4, <2>2 DEF GameWrites, guiState, IInv, ThreadHistory, OneCurrent, Current,
               OnlyFrozenWritten
<1>5. CASE UNCHANGED fzVars
  <2>1. FzTypeOK'
    BY <1>t, <1>5 DEF fzVars, FzTypeOK
  <2> QED BY <1>5, <2>1 DEF fzVars, IInv, ThreadHistory, OneCurrent, Current, OnlyFrozenWritten
<1> QED BY <1>1, <1>2, <1>3, <1>4, <1>5 DEF FzNext

THEOREM Invariance == FzSpec => []IInv
<1>1. FzInit => IInv
  BY InitInvariant
<1>2. IInv /\ [FzNext]_fzVars => IInv'
  BY NextInvariant
<1> QED BY <1>1, <1>2, PTL DEF FzSpec

-----------------------------------------------------------------------------
(* The results.                                                            *)

\* The table, the list and the threads keep their types.
THEOREM TypeCorrect == FzSpec => []FzTypeOK
<1>1. IInv => FzTypeOK
  BY DEF IInv
<1> QED BY <1>1, Invariance, PTL

\* spawn_freezer leaves one freezer that was not told to stop, however many
\* times attach is called, and it writes to the attached process.
THEOREM AtMostOneFreezer == FzSpec => []OneFreezer
<1>1. IInv => OneFreezer
  <2> SUFFICES ASSUME IInv PROVE OneFreezer
    OBVIOUS
  <2>1. CASE Current = {}
    BY <2>1, FS_EmptySet DEF IInv, OneCurrent, OneFreezer
  <2>2. CASE Current # {}
    <3>1. PICK f \in Current : TRUE
      BY <2>2
    <3>2. Current = {f}
      BY <3>1 DEF IInv, OneCurrent
    <3>3. Cardinality({f}) = 1
      BY FS_Singleton
    <3> QED BY <3>2, <3>3 DEF IInv, OneCurrent, OneFreezer
  <2> QED BY <2>1, <2>2
<1> QED BY <1>1, Invariance, PTL

\* A freezer that was told to stop writes one more pass at most to the process
\* that was left: the pass it had begun before it could see the flag.
THEOREM OrphansWriteOnce == FzSpec => []OrphanWritesOnce
<1>1. IInv => OrphanWritesOnce
  BY DEF IInv, ThreadHistory, OrphanWritesOnce
<1> QED BY <1>1, Invariance, PTL

\* No handler of the GUI leaves an item in the list whose entry is not frozen.
THEOREM FrozenOnly == FzSpec => []OnlyFrozenWritten
<1>1. IInv => OnlyFrozenWritten
  BY DEF IInv
<1> QED BY <1>1, Invariance, PTL

\* The two together: attach stops the freezer before it and starts the next.
THEOREM HandoverIsSafe == FzSpec => []Handover
<1>1. OneFreezer /\ OrphanWritesOnce => Handover
  BY DEF Handover
<1> QED BY <1>1, AtMostOneFreezer, OrphansWriteOnce, PTL

=============================================================================
