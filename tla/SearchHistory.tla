---------------------------- MODULE SearchHistory ----------------------------
(***************************************************************************)
(* ScanSession implements Search. What the regions held while a scan was   *)
(* pending is in no variable of the program; a history variable keeps it.  *)
(***************************************************************************)
EXTENDS ScanSession

VARIABLE held  (* history: the values each region of the scanned process   *)
               (* has had since the pending scan began                     *)

NothingHeld == [a \in Addr |-> {}]

\* The pending task, of either kind, after the step.
PendingTask == IF scanTask # NoTask THEN scanTask ELSE unknownTask

\* A scan that begins looks at the memory there is, a pending one at what
\* is written too.
Remember ==
  held' = IF PendingTask' = NoTask THEN NothingHeld
          ELSE [a \in Addr |-> held[a] \cup {mem'[PendingTask'.proc][a]}]

HistoryInit == Init /\ held = NothingHeld
HistoryNext == Next /\ Remember
HistorySpec == HistoryInit /\ [][HistoryNext]_<<vars, held>>
FairHistorySpec == HistorySpec /\ Fairness

\* The pending search, whichever task it is.
Pending ==
  IF scanTask # NoTask THEN
    [op |-> scanTask.op, proc |-> scanTask.proc, cmp |-> scanTask.cmp,
     base |-> scanTask.base, held |-> held, cancelled |-> scanTask.cancel]
  ELSE IF unknownTask # NoTask THEN
    [op |-> "snapshot", proc |-> unknownTask.proc, cmp |-> [kind |-> "none"],
     base |-> NoMatches, held |-> held, cancelled |-> unknownTask.cancel]
  ELSE [op |-> "none"]

A == INSTANCE Search WITH search <- Pending

\* Whatever the processes write during a scan, whoever cancels, attaches or
\* polls meanwhile: the answer shown is right, region by region, for a value
\* the region had during the scan.
Search == A!Spec
=============================================================================
