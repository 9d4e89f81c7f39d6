------------------------------ MODULE MCScanning ------------------------------
(* The two halves of a search, instantiated for TLC: the session, whose worker *)
(* reads a region in one step (SearchHistory), and the walk of a worker over   *)
(* one region (ChunkedScan). They share no state, so a behaviour exercises one *)
(* of them, named by `section`, which never changes.                           *)
EXTENDS MCScanSession, MCChunkedScan

VARIABLE section

session == <<vars, held>>
all     == <<section, session, ckVars>>

OneMemory == [p \in Proc |-> [a \in Addr |-> Unmapped]]

NoSession == HistoryInit /\ mem = OneMemory

NoWalk ==
  /\ size = 1 /\ fast = FALSE /\ hit = {} /\ holes = {} /\ tight = FALSE
  /\ pc = "done" /\ off = 0 /\ want = 0 /\ read = 0 /\ ok = TRUE /\ i = 0 /\ out = <<>>

ScanningInit ==
  \/ section = "session" /\ HistoryInit /\ NoWalk
  \/ section = "walk" /\ NoSession /\ CkInit

InSession == section = "session" /\ UNCHANGED <<section, ckVars>>
InWalk    == section = "walk" /\ UNCHANGED <<section, session>>

ScanningNext == (InSession /\ HistoryNext) \/ (InWalk /\ CkNext)

\* The fairness of both. A disjunction of steps of two sections is fair to each.
ScanningSpec ==
  /\ ScanningInit /\ [][ScanningNext]_all
  /\ WF_all((InSession /\ ScanWorker /\ Remember) \/ (InWalk /\ CkNext))
  /\ WF_all(InSession /\ UnknownWorker /\ Remember)
  /\ WF_all(InSession /\ PollScanTask /\ Remember)
  /\ WF_all(InSession /\ PollUnknownTask /\ Remember)

\* Every variable of the component at work keeps its type.
ScanningTypeOK ==
  /\ section = "session" => TypeOK
  /\ section = "walk" => CkTypeOK
=============================================================================
