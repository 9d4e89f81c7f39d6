----------------------------- MODULE ScanSession -----------------------------
(***************************************************************************)
(* The search session of the Quarry application: the buttons of the search *)
(* tab (App::scan_panel), the operations behind them (do_first_scan,       *)
(* do_unknown_first, start_string_scan, do_next_scan, attach), the worker  *)
(* threads they spawn (scan.rs) and the polls of App::update that collect  *)
(* what a worker sent.                                                     *)
(*                                                                         *)
(* A worker's loop over regions and its loop over matches are both a loop  *)
(* over addresses, lowest first, one memory read per step.                 *)
(***************************************************************************)
EXTENDS Scans

ScanTask ==
  [ op     : {"first", "next", "unknown_next"},
    proc   : Proc,                   \* the handle the worker reads through
    cmp    : Comparison,
    base   : Partial(Addr, Val),     \* matches taken, or the snapshot
    todo   : SUBSET Addr,            \* what the loop has not reached
    out    : Partial(Addr, Val),     \* matches kept or found so far
    cancel : BOOLEAN,                \* ScanProgress.cancel
    state  : {"running", "sent", "died"} ]

UnknownTask ==
  [ proc   : Proc,
    todo   : SUBSET Addr,
    out    : Partial(Addr, Val),
    cancel : BOOLEAN,
    state  : {"running", "sent", "died"} ]

ASSUME ConstantsAssumption ==
  /\ Addr \subseteq Nat /\ IsFiniteSet(Addr)
  /\ Val \subseteq Int /\ 0 \in Val
  /\ Writable \subseteq Addr
  /\ SnapMax \in Nat
  /\ Comparison \subseteq ScanCmp
  /\ Unmapped \notin Val
  /\ NoProc \notin Proc
  /\ NoTask \notin ScanTask /\ NoTask \notin UnknownTask
  /\ NoSnapshot \notin Partial(Addr, Val)

VARIABLES
  mem,          (* what each region of each process holds                  *)
  attached,     (* App.attached                                            *)
  matches,      (* App.scanner.matches                                     *)
  hasScanned,   (* App.scanner.has_scanned                                 *)
  snapshot,     (* App.unknown_snapshot                                    *)
  scanTask,     (* App.scan_task and the worker at the other end           *)
  unknownTask,  (* App.unknown_task and the worker at the other end        *)
  touched       (* history: the process being scanned changed its memory   *)
                (* since the pending scan began                            *)

app  == <<attached, matches, hasScanned, snapshot>>
vars == <<mem, attached, matches, hasScanned, snapshot, scanTask, unknownTask, touched>>

TypeOK ==
  /\ mem \in [Proc -> [Addr -> Val \cup {Unmapped}]]
  /\ attached \in Proc \cup {NoProc}
  /\ matches \in Partial(Addr, Val)
  /\ hasScanned \in BOOLEAN
  /\ snapshot \in Partial(Addr, Val) \cup {NoSnapshot}
  /\ scanTask \in ScanTask \cup {NoTask}
  /\ unknownTask \in UnknownTask \cup {NoTask}
  /\ touched \in BOOLEAN

Init ==
  /\ mem \in [Proc -> [Addr -> Val \cup {Unmapped}]]
  /\ attached = NoProc
  /\ matches = NoMatches
  /\ hasScanned = FALSE
  /\ snapshot = NoSnapshot
  /\ scanTask = NoTask
  /\ unknownTask = NoTask
  /\ touched = FALSE

-----------------------------------------------------------------------------
(* What a scan computes.                                                   *)

Readable(p) == {a \in Addr : mem[p][a] # Unmapped}

\* One turn of each worker's loop, on address a of task t.
FirstFound(t, a) ==
  IF mem[t.proc][a] # Unmapped /\ Compare(t.cmp, mem[t.proc][a], 0)
  THEN With(t.out, a, FirstLast(t.cmp, mem[t.proc][a]))
  ELSE t.out

NextKept(t, a) ==
  IF mem[t.proc][a] # Unmapped /\ Compare(t.cmp, mem[t.proc][a], t.base[a])
  THEN With(t.out, a, NextLast(t.cmp, mem[t.proc][a], t.base[a]))
  ELSE t.out

UnknownNextFound(t, a) ==
  IF Compare(t.cmp, ZeroFilled(mem[t.proc][a]), t.base[a])
  THEN With(t.out, a, ZeroFilled(mem[t.proc][a]))
  ELSE t.out

\* A plausible bug: the outcome of the read is not looked at.
SnapshotTakenBlindly(t, a) ==
  IF a \in Writable THEN With(t.out, a, mem[t.proc][a]) ELSE t.out

SnapshotTaken(t, a) ==
  IF a \in Writable /\ mem[t.proc][a] # Unmapped
  THEN With(t.out, a, mem[t.proc][a])
  ELSE t.out

\* A plausible bug: the limit is checked after it is passed.
FullLate(t, a) == a \in Writable /\ Cardinality(DOMAIN t.out) > SnapMax

\* The snapshot takes no more: region a is one for it and no longer fits.
Full(t, a) == a \in Writable /\ Cardinality(DOMAIN t.out) >= SnapMax

-----------------------------------------------------------------------------
(* The user's side: the process picker and the buttons of scan_panel.      *)

Running(t) == t # NoTask /\ t.state = "running"

\* A plausible bug: the buttons look at one of the two tasks.
ScanningOneTask == scanTask # NoTask

\* scan_panel: the buttons are grey while a task is pending.
Scanning == scanTask # NoTask \/ unknownTask # NoTask

NewScan(op, c, base, todo) ==
  [op |-> op, proc |-> attached, cmp |-> c, base |-> base, todo |-> todo,
   out |-> NoMatches, cancel |-> FALSE, state |-> "running"]

\* attach resets the scanner; tasks and snapshot are left as they are.
Attach(p) ==
  /\ attached' = p
  /\ matches' = NoMatches
  /\ hasScanned' = FALSE
  /\ UNCHANGED <<mem, snapshot, scanTask, unknownTask, touched>>

\* do_first_scan and start_string_scan(_, false). A relative comparison is
\* refused with a message.
FirstScan(c) ==
  /\ attached # NoProc
  /\ ~Scanning
  /\ c.kind \notin RelativeKind
  /\ matches' = NoMatches
  /\ hasScanned' = FALSE
  /\ scanTask' = NewScan("first", c, NoMatches, Readable(attached))
  /\ touched' = FALSE
  /\ UNCHANGED <<mem, attached, snapshot, unknownTask>>

UnknownFirst ==
  /\ attached # NoProc
  /\ ~Scanning
  /\ matches' = NoMatches
  /\ hasScanned' = FALSE
  /\ snapshot' = NoSnapshot
  /\ unknownTask' = [proc |-> attached, todo |-> Readable(attached), out |-> NoMatches,
                     cancel |-> FALSE, state |-> "running"]
  /\ touched' = FALSE
  /\ UNCHANGED <<mem, attached, scanTask>>

\* The Next Scan button: do_next_scan is reached with an attached process,
\* no pending task and a first scan behind it.
NextEnabled == attached # NoProc /\ ~Scanning /\ hasScanned

\* A plausible bug: the worker gets a copy of the matches.
NextScanCopies(c) ==
  /\ NextEnabled
  /\ c.kind = "Text" \/ snapshot = NoSnapshot
  /\ scanTask' = NewScan("next", c, matches, DOMAIN matches)
  /\ touched' = FALSE
  /\ UNCHANGED <<mem, app, unknownTask>>

\* do_next_scan on the matches: a text scan whatever the snapshot, any other
\* when there is no snapshot. The matches move to the worker.
NextScan(c) ==
  /\ NextEnabled
  /\ c.kind = "Text" \/ snapshot = NoSnapshot
  /\ scanTask' = NewScan("next", c, matches, DOMAIN matches)
  /\ matches' = NoMatches
  /\ touched' = FALSE
  /\ UNCHANGED <<mem, attached, hasScanned, snapshot, unknownTask>>

\* do_next_scan on the snapshot, which moves to the worker.
UnknownNext(c) ==
  /\ NextEnabled
  /\ c.kind # "Text"
  /\ snapshot # NoSnapshot
  /\ scanTask' = NewScan("unknown_next", c, snapshot, DOMAIN snapshot)
  /\ snapshot' = NoSnapshot
  /\ touched' = FALSE
  /\ UNCHANGED <<mem, attached, matches, hasScanned, unknownTask>>

\* The "Nova busca" button.
NewSearch ==
  /\ ~Scanning
  /\ matches' = NoMatches
  /\ hasScanned' = FALSE
  /\ snapshot' = NoSnapshot
  /\ UNCHANGED <<mem, attached, scanTask, unknownTask, touched>>

\* The "Cancelar" button belongs to the scan task if there is one.
CancelScan ==
  /\ scanTask # NoTask
  /\ scanTask' = [scanTask EXCEPT !.cancel = TRUE]
  /\ UNCHANGED <<mem, app, unknownTask, touched>>

CancelUnknown ==
  /\ scanTask = NoTask
  /\ unknownTask # NoTask
  /\ unknownTask' = [unknownTask EXCEPT !.cancel = TRUE]
  /\ UNCHANGED <<mem, app, scanTask, touched>>

-----------------------------------------------------------------------------
(* The worker threads. Each turn of a loop first looks at the cancel flag. *)

Lowest(a, S) == a \in S /\ \A b \in S : a <= b

ScanTurn(op, result(_, _)) ==
  /\ Running(scanTask) /\ scanTask.op = op
  /\ ~scanTask.cancel
  /\ \E a \in scanTask.todo :
       /\ Lowest(a, scanTask.todo)
       /\ scanTask' = [scanTask EXCEPT !.todo = @ \ {a}, !.out = result(scanTask, a)]
  /\ UNCHANGED <<mem, app, unknownTask, touched>>

FirstScanTurn   == ScanTurn("first", FirstFound)
NextScanTurn    == ScanTurn("next", NextKept)
UnknownNextTurn == ScanTurn("unknown_next", UnknownNextFound)

\* A plausible bug: a cancelled next scan loses what it did not reach.
ScanResultDropsRest(t) == t.out

\* What is sent: next_scan_job keeps the matches it did not reach.
ScanResult(t) ==
  IF t.op = "next" THEN Join(t.out, Restrict(t.base, t.todo)) ELSE t.out

\* A plausible bug: a cancelled scan waits for the end of its loop.
ScanSendAtEnd ==
  /\ Running(scanTask)
  /\ scanTask.todo = {}
  /\ scanTask' = [scanTask EXCEPT !.out = ScanResult(scanTask), !.state = "sent"]
  /\ UNCHANGED <<mem, app, unknownTask, touched>>

ScanSend ==
  /\ Running(scanTask)
  /\ scanTask.cancel \/ scanTask.todo = {}
  /\ scanTask' = [scanTask EXCEPT !.out = ScanResult(scanTask), !.state = "sent"]
  /\ UNCHANGED <<mem, app, unknownTask, touched>>

SnapshotTurn ==
  /\ Running(unknownTask)
  /\ ~unknownTask.cancel
  /\ \E a \in unknownTask.todo :
       /\ Lowest(a, unknownTask.todo)
       /\ ~Full(unknownTask, a)
       /\ unknownTask' = [unknownTask EXCEPT !.todo = @ \ {a},
                                             !.out = SnapshotTaken(unknownTask, a)]
  /\ UNCHANGED <<mem, app, scanTask, touched>>

\* The loop also ends when a region no longer fits in SNAP_MAX_TOTAL.
SnapshotSend ==
  /\ Running(unknownTask)
  /\ \/ unknownTask.cancel
     \/ unknownTask.todo = {}
     \/ \E a \in unknownTask.todo : Lowest(a, unknownTask.todo) /\ Full(unknownTask, a)
  /\ unknownTask' = [unknownTask EXCEPT !.state = "sent"]
  /\ UNCHANGED <<mem, app, scanTask, touched>>

\* A worker that panics drops its sender: the polls then see Disconnected.
WorkerDies ==
  /\ \/ /\ Running(scanTask)
        /\ scanTask' = [scanTask EXCEPT !.state = "died"]
        /\ UNCHANGED unknownTask
     \/ /\ Running(unknownTask)
        /\ unknownTask' = [unknownTask EXCEPT !.state = "died"]
        /\ UNCHANGED scanTask
  /\ UNCHANGED <<mem, app, touched>>

-----------------------------------------------------------------------------
(* The polls at the top of App::update.                                    *)

PollScanTask ==
  /\ scanTask # NoTask
  /\ \/ /\ scanTask.state = "sent"
        /\ matches' = scanTask.out
        /\ hasScanned' = TRUE
     \/ /\ scanTask.state = "died"
        /\ UNCHANGED <<matches, hasScanned>>
  /\ scanTask' = NoTask
  /\ UNCHANGED <<mem, attached, snapshot, unknownTask, touched>>

PollUnknownTask ==
  /\ unknownTask # NoTask
  /\ \/ /\ unknownTask.state = "sent"
        /\ snapshot' = unknownTask.out
        /\ matches' = NoMatches
        /\ hasScanned' = TRUE
     \/ /\ unknownTask.state = "died"
        /\ UNCHANGED <<snapshot, matches, hasScanned>>
  /\ unknownTask' = NoTask
  /\ UNCHANGED <<mem, attached, scanTask, touched>>

-----------------------------------------------------------------------------
(* The scanned processes run on: a region changes, appears or goes away.   *)

Scanned == {t.proc : t \in {scanTask, unknownTask} \ {NoTask}}

ProcessWrites(p, a, v) ==
  /\ mem[p][a] # v
  /\ mem' = [mem EXCEPT ![p][a] = v]
  /\ touched' = (touched \/ p \in Scanned)
  /\ UNCHANGED <<app, scanTask, unknownTask>>

User ==
  \/ \E p \in Proc : Attach(p)
  \/ \E c \in Comparison : FirstScan(c) \/ NextScan(c) \/ UnknownNext(c)
  \/ UnknownFirst
  \/ NewSearch
  \/ CancelScan
  \/ CancelUnknown

ScanWorker ==
  \/ FirstScanTurn
  \/ NextScanTurn
  \/ UnknownNextTurn
  \/ ScanSend

UnknownWorker ==
  \/ SnapshotTurn
  \/ SnapshotSend

Environment ==
  \/ \E p \in Proc, a \in Addr, v \in Val \cup {Unmapped} : ProcessWrites(p, a, v)
  \/ WorkerDies

Next ==
  \/ User
  \/ ScanWorker
  \/ UnknownWorker
  \/ PollScanTask
  \/ PollUnknownTask
  \/ Environment

\* The scheduler runs the workers, and update is called again and again:
\* it asks for a repaint 60 ms later while a task is pending.
Fairness ==
  /\ WF_vars(ScanWorker)
  /\ WF_vars(UnknownWorker)
  /\ WF_vars(PollScanTask)
  /\ WF_vars(PollUnknownTask)

Spec == Init /\ [][Next]_vars
FairSpec == Spec /\ Fairness

-----------------------------------------------------------------------------
(* Properties.                                                             *)

\* A search has one worker: no button starts a scan while the other kind is
\* still pending, whatever attach, cancel or a late result do in between.
OneScanAtATime == scanTask = NoTask \/ unknownTask = NoTask

\* The atomic scan each worker stands for, on the memory as it is now.
Expected(t) ==
  LET m == mem[t.proc]
      found(S) == {a \in S : m[a] # Unmapped /\ Compare(t.cmp, m[a], t.base[a])}
  IN CASE t.op = "first" ->
            [a \in {a \in Addr : m[a] # Unmapped /\ Compare(t.cmp, m[a], 0)} |->
               FirstLast(t.cmp, m[a])]
       [] t.op = "next" ->
            [a \in found(DOMAIN t.base) |->
               IF t.cmp.kind = "Text" THEN t.base[a] ELSE m[a]]
       [] t.op = "unknown_next" ->
            [a \in {a \in DOMAIN t.base : Compare(t.cmp, ZeroFilled(m[a]), t.base[a])} |->
               ZeroFilled(m[a])]

\* A scan that was not cancelled, on a process that left its memory alone
\* meanwhile, delivers what one look at the whole memory would: the loops of
\* first_scan_job, next_scan_job and unknown_next_job lose nothing, find
\* nothing twice, and remember the value they compared.
ScanExact ==
  (scanTask # NoTask /\ scanTask.state = "sent" /\ ~scanTask.cancel /\ ~touched)
    => scanTask.out = Expected(scanTask)

\* The same for the snapshot of unknown_first_job: it holds every writable
\* region that could be read, or as many as fit.
SnapshotExact ==
  (unknownTask # NoTask /\ unknownTask.state = "sent" /\ ~unknownTask.cancel /\ ~touched)
    => LET kept == DOMAIN unknownTask.out
           all  == Writable \cap Readable(unknownTask.proc)
       IN /\ kept \subseteq all
          /\ Cardinality(kept) <= SnapMax
          /\ kept = all \/ Cardinality(kept) = SnapMax
          /\ \A a \in kept : unknownTask.out[a] = mem[unknownTask.proc][a]

\* A next scan only filters the list it took, whatever the process does
\* meanwhile, and a cancelled one hands back the part it did not reach
\* ("mantem o resto intacto se cancelar").
NextScanFilters ==
  (scanTask # NoTask /\ scanTask.op = "next")
    => /\ DOMAIN scanTask.out \subseteq DOMAIN scanTask.base
       /\ scanTask.state = "sent"
            => IsRestriction(Restrict(scanTask.base, scanTask.todo), scanTask.out)

\* Collecting the result of a scan of the matches never discards others: the
\* list the result replaces is empty while the worker has it, although attach,
\* the polls and "Nova busca" all write the list too.
NothingOverwritten ==
  (scanTask # NoTask /\ scanTask.op # "unknown_next") => matches = NoMatches

\* Addresses on screen are the product of a finished scan, so "Next Scan" is
\* open to them.
ResultsAreScanned == DOMAIN matches # {} => hasScanned

\* "snapshot ativo da busca de valor desconhecido (None = busca normal)": once
\* there are matches of a normal search there is no snapshot. The code lets a
\* First Scan follow a snapshot without dropping it.
NormalSearchHasNoSnapshot == DOMAIN matches # {} => snapshot = NoSnapshot

\* Every scan that is started is collected, cancelled or not, whatever the user
\* attaches to meanwhile: the buttons cannot stay grey. So is every snapshot, also
\* one that stops at SNAP_MAX_TOTAL.
EverythingCollected ==
  /\ []<>(scanTask = NoTask)
  /\ []<>(unknownTask = NoTask)

=============================================================================
