-------------------------------- MODULE Jobs ---------------------------------
(***************************************************************************)
(* Work started by a panel and collected by a poll of a later frame: the   *)
(* pointer scan, the pattern scan, the script, a request to the client of  *)
(* the game (LCU) and one to the API of a match. Each kind has one slot in *)
(* App, a thread, and a channel between them; they share nothing, so the   *)
(* state is that of one kind.                                              *)
(***************************************************************************)
EXTENDS Integers

CONSTANT MaxRequests

ASSUME JobsConstants == MaxRequests \in Nat

Scan    == {"ptr", "aob"}    \* have a cancel flag and a bounded amount of work
Request == {"lcu", "live"}
Job     == Scan \cup Request \cup {"script"}

VARIABLES
  job,          \* the kind
  slot,         \* ptr_task, aob_task, script_task, lcu_rx or lc_rx: the work, or 0
  asked,        \* how often there was work
  worker,       \* of the work in the slot: "none", "running", "sent", "dead"
  cancelled,    \* its cancel flag
  shown         \* the work whose result the panel shows, or 0

jbVars == <<job, slot, asked, worker, cancelled, shown>>

-----------------------------------------------------------------------------
(* The panels.                                                             *)

Begin ==
  /\ slot = 0 /\ asked < MaxRequests
  /\ asked' = asked + 1 /\ slot' = asked'
  /\ worker' = "running" /\ cancelled' = FALSE
  /\ UNCHANGED job

\* The results of the scan before stay until there are new ones.
DoPointerScan == job = "ptr" /\ Begin /\ UNCHANGED shown
DoAobScan     == job = "aob" /\ Begin /\ UNCHANGED shown

\* "Executando..."
RunScript == job = "script" /\ Begin /\ shown' = 0

\* The buttons are disabled while lcu_busy and lc_busy are set.
SendRequest == job = "lcu" /\ Begin /\ shown' = 0
FetchMatch  == job = "live" /\ Begin /\ shown' = 0

CancelJob ==
  /\ job \in Scan /\ slot # 0
  /\ cancelled' = TRUE
  /\ UNCHANGED <<job, slot, asked, worker, shown>>

-----------------------------------------------------------------------------
(* The threads.                                                            *)

Ends(how) ==
  /\ worker = "running"
  /\ worker' = how
  /\ UNCHANGED <<job, slot, asked, cancelled, shown>>

\* A cancelled scan sends what it has.
ScanSends == job \in Scan /\ Ends("sent")

\* A script ends at the limit of operations at the latest.
ScriptSends == job = "script" /\ Ends("sent")

\* The answer or an error; there is no limit to the wait for either.
RequestSends == job \in Request /\ Ends("sent")

\* The thread ends without sending.
Die == Ends("dead")

-----------------------------------------------------------------------------
(* The polls of a frame.                                                   *)

Free == slot' = 0 /\ worker' = "none" /\ UNCHANGED <<job, asked, cancelled>>

Shows == worker = "sent" /\ Free /\ shown' = slot

\* A plausible bug: only a result empties the slot.
ClosedIgnored == FALSE /\ UNCHANGED jbVars

\* The channel is closed and nothing came.
Closed == worker = "dead" /\ Free /\ UNCHANGED shown

PollPtrTask    == job = "ptr" /\ (Shows \/ Closed)
PollAobTask    == job = "aob" /\ (Shows \/ Closed)
PollLcu        == job = "lcu" /\ (Shows \/ Closed)
PollLiveClient == job = "live" /\ (Shows \/ Closed)

\* It does not look whether the channel is closed.
PollScriptTask == job = "script" /\ Shows

Poll == PollPtrTask \/ PollAobTask \/ PollLcu \/ PollLiveClient \/ PollScriptTask

JbInit ==
  /\ job \in Job
  /\ slot = 0 /\ asked = 0 /\ worker = "none" /\ cancelled = FALSE /\ shown = 0

JbNext ==
  \/ DoPointerScan \/ DoAobScan \/ RunScript \/ SendRequest \/ FetchMatch \/ CancelJob
  \/ ScanSends \/ ScriptSends \/ RequestSends \/ Die
  \/ Poll

-----------------------------------------------------------------------------
(* Properties.                                                             *)

JbTypeOK ==
  /\ job \in Job
  /\ slot \in 0..asked /\ asked \in 0..MaxRequests /\ shown \in 0..asked
  /\ worker \in {"none", "running", "sent", "dead"} /\ cancelled \in BOOLEAN
  /\ worker = "none" <=> slot = 0

\* A scan ends whether or not it is cancelled, and whatever ends, by a result or by the
\* death of its thread, leaves its slot free for the next; only a script whose thread dies
\* does not, and a request waits as long as the client says nothing (the poll functions).
JobsEnd ==
  []<>(\/ slot = 0
       \/ worker = "running" /\ job \notin Scan
       \/ worker = "dead" /\ job = "script")
=============================================================================
